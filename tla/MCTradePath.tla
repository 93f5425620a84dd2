---------------------------- MODULE MCTradePath ----------------------------
EXTENDS TradePath

Addresses == [WETH |-> Weth, USDC |-> Usdc]

TwoTiers == <<500, 3000>>

\* WETH and ETH in, USDC in with an amount that is rounded up, amounts that
\* are too small to be traded, a pair that is one token, an unknown token.
SomeRequests ==
    {[user |-> u, tokenIn |-> p[1], tokenOut |-> p[2], amount |-> p[3]] :
        u \in Users, p \in {<<"ETH", "USDC", 26>>, <<"USDC", "WETH", 26>>, <<"USDC", "ETH", 4>>,
                            <<"WETH", "ETH", 10>>, <<"DAI", "USDC", 10>>}}
=============================================================================
