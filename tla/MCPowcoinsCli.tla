---------------------------- MODULE MCPowcoinsCli --------------------------
(***************************************************************************)
(* PowcoinsCli for TLC: two coins.  At the start height a coin can be      *)
(* unborn or 1, 45 or 64 blocks deep, so its difficulty can be at either   *)
(* end and inside the range, at whole bytes and between them.  The command *)
(* itself is run with coins of one value and one script, as its prompt     *)
(* depends only on how many candidates there are.                          *)
(***************************************************************************)
EXTENDS PowcoinsCli

\* The default, a minimum above one coin's difficulty, and one BuildClaim refuses.
MCMinOptions == {0, 36, -1}

FewCoins == {c \in CoinRecord : c.script = 1 /\ c.log = 15}

MCInit ==
    /\ CliInit
    /\ command => \A c \in Coins : coin[c] \in FewCoins
    /\ ~command => solver = "auto" /\ ~dryRun /\ ~listens

MCSpec ==
    /\ MCInit
    /\ [][CliNext]_allVars
    /\ WF_allVars(command /\ Command)
    /\ WF_allVars(~command /\ Claim /\ UNCHANGED cliVars)
=============================================================================
