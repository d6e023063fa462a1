---------------------------- MODULE WalletMutex ----------------------------
(***************************************************************************)
(* What runLocked promises the server's methods: the tasks of one wallet   *)
(* run one at a time.  Module WalletLock refines it.                       *)
(***************************************************************************)
CONSTANTS Clients, Nobody

VARIABLE holder

Init == holder = Nobody

Take(c) ==
    /\ holder = Nobody
    /\ holder' = c

GiveBack(c) ==
    /\ holder = c
    /\ holder' = Nobody

Next == \E c \in Clients : Take(c) \/ GiveBack(c)

Spec == Init /\ [][Next]_holder
=============================================================================
