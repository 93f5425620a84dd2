SPECIFICATION Spec
CONSTANTS
    Users = {u1, u2}
    Keys = {k1}
    Nobody = Nobody
    Tokens = {weth, usdc}
    Weth = weth
    Ids = {i1, i2}
    MaxAmount = 2
    MaxHeld = 3
SYMMETRY VaultSymmetry
INVARIANTS TypeOK Solvent AccountsBalance FundsNeverTrapped ListedMeansLimited
