---------------------------- MODULE LeaseService ----------------------------
(***************************************************************************)
(* What a process may rely on when it talks to the account pool, with      *)
(* tables, clocks, health and quota left out: a fenced lock service.  A    *)
(* tenancy gives one account to one holder.  It carries a token, which     *)
(* nothing ever carried before, and the epoch of its account, which counts *)
(* the account's tenancies since it was registered.  An account and a      *)
(* holder have at most one tenancy at a time, and a tenancy that ended     *)
(* does not come back.  Any tenancy may end at any step: it can expire, be *)
(* released, or be revoked by an operator.  An operator who deletes an     *)
(* account also makes the service forget its epoch, so an epoch fences     *)
(* only the tenancies of one registration.                                 *)
(***************************************************************************)
EXTENDS Naturals

CONSTANTS Accounts, Holders

VARIABLES held,   \* the current tenancies
          last,   \* the last token handed out
          epochs  \* per account, the last epoch handed out, or 0

Tenancy == [account: Accounts, holder: Holders, token: Nat, epoch: Nat]

Init == held = {} /\ last = 0 /\ epochs = [a \in Accounts |-> 0]

End ==
    /\ held' \in SUBSET held
    /\ UNCHANGED <<last, epochs>>

HandOut(a, h) ==
    /\ last' = last + 1
    /\ epochs' = [epochs EXCEPT ![a] = @ + 1]
    /\ \E kept \in SUBSET held :
          /\ \A t \in kept : t.account # a /\ t.holder # h
          /\ held' = kept \cup {[account |-> a, holder |-> h, token |-> last',
                                 epoch |-> epochs'[a]]}

Forget(a) ==
    /\ held' = {t \in held : t.account # a}
    /\ epochs' = [epochs EXCEPT ![a] = 0]
    /\ UNCHANGED last

Next ==
    \/ End
    \/ \E a \in Accounts, h \in Holders : HandOut(a, h)
    \/ \E a \in Accounts : Forget(a)

Spec == Init /\ [][Next]_<<held, last, epochs>>
=============================================================================
