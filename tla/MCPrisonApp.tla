---------------------------- MODULE MCPrisonApp ----------------------------
(* Small instance of PrisonApp: one relative who may be called and one who is *)
(* barred, accounts with and without a password, calls and money left.        *)
EXTENDS PrisonApp

MCRelatives == {[serialnumber |-> 1, telstatus |-> FALSE],
                [serialnumber |-> 2, telstatus |-> TRUE]}
MCAccounts == [pwd: {<<>>, <<"old">>}, callTime: {0, 1}, surplustime: {-1, 1},
               relatives: {{}, MCRelatives}]
MCKeys == 1..3
MCNewPwds == {<<"new">>}
=============================================================================
