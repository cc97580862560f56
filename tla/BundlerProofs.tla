---------------------------- MODULE BundlerProofs ----------------------------
(***************************************************************************)
(* Proofs about Bundler, for every number of requests, operations, fees    *)
(* and nonces.  The safety properties are not inductive: they rest on the  *)
(* discipline of submit_lock (LockInv), on what the control state says of  *)
(* an envelope (FlightInv), and on how a nonce that was read ages while    *)
(* the node and the other requests go on (FreshInv, TakenInv, DrawnInv,    *)
(* GapInv).                                                                *)
(***************************************************************************)
EXTENDS Bundler, TLAPS

\* Tickets are unique and held exactly from lock() to the drop of the guard.
LockInv ==
    /\ \A r \in Requests : ticket[r] < next_ticket
    /\ \A r \in Requests :
          ticket[r] # 0
              <=> submit[r] /\ pc[r] \in {"lock", "nonce", "sign", "send"}
    /\ \A r, s \in Requests : ticket[r] # 0 /\ ticket[r] = ticket[s] => r = s
    /\ \A r \in Requests :
          submit[r] /\ pc[r] \in {"nonce", "sign", "send"} => Owner(r)

\* What the control state of a request says of its envelope and its answer.
FlightInv ==
    \A r \in Requests :
        /\ pc[r] \in {"lock", "send", "receipt", "replay"} => submit[r]
        /\ pc[r] \in {"send", "receipt", "replay"} => r \in signed
        /\ r \in signed => pc[r] \in {"send", "receipt", "replay", "done"}
        /\ pc[r] \in {"receipt", "replay"} => reply[r] = "accepted"
        /\ reply[r] # "none" => r \in signed /\ submit[r] /\ r \notin wire
        /\ r \in wire => r \in signed /\ submit[r] /\ pc[r] \in {"send", "done"}
        /\ outcome[r] # "none" => pc[r] = "done"
        /\ outcome[r] = "Ok" => r \in signed

\* A replay is only tried for an envelope that was mined and reverted.
ReplayInv ==
    \A r \in Requests : pc[r] = "replay" => Mined(TxOf(r), FALSE)

\* Some request other than r used r's nonce outside the lock.
Collided(r) == \E s \in Requests \ {r} : Outsider(r, s)

\* A submit that has read its nonce and whose send the node has yet to see.
Undecided(r) ==
    submit[r] /\ (pc[r] = "sign" \/ (pc[r] = "send" /\ r \in wire))

\* Under the lock a nonce goes stale only through an outsider.
FreshInv ==
    \A r \in Requests : Undecided(r) => Free(nonce[r]) \/ Collided(r)

\* The nonce of an accepted envelope is taken, or was released.
TakenInv ==
    \A r \in Requests :
        reply[r] = "accepted" => ~Free(nonce[r]) \/ nonce[r] \in released

\* Submits that have drawn a nonce.
Drew(r) == submit[r] /\ (pc[r] = "sign" \/ r \in signed)

DrawnInv ==
    \A r, s \in Requests :
        (r # s /\ Drew(r) /\ Drew(s) /\ nonce[r] = nonce[s])
            => Orphan(r) \/ Orphan(s) \/ nonce[r] \in released

\* Every nonce below n that is not mined is pooled or was released.
NoGapBelow(n) ==
    \A m \in Nonces :
        (account_nonce <= m /\ m < n) => InPool(m) \/ m \in released

GapInv ==
    /\ \A r \in Requests : pc[r] = "sign" \/ r \in signed => NoGapBelow(nonce[r])
    /\ \A t \in pool : NoGapBelow(t.nonce)

\* The inductive invariant.
IInv ==
    /\ TypeOK
    /\ LockInv
    /\ FlightInv
    /\ FreshInv
    /\ NoSelfCollision
    /\ TakenInv
    /\ DrawnInv
    /\ GapInv
    /\ ReplayInv
    /\ AnswersAreTrue

-----------------------------------------------------------------------------

\* The initial state satisfies the inductive invariant.
LEMMA InitIInv == Init => IInv
<1> SUFFICES ASSUME Init PROVE IInv
  OBVIOUS
<1>1. TypeOK
  <2>1. ELTypeOK
    BY DEF Init, ELInit, ELTypeOK
  <2>2. fee \in [Requests -> Fees]
    <3> DEFINE f0 == CHOOSE f \in Fees : TRUE
    <3>1. f0 \in Fees
      BY FeesAssumption
    <3>2. fee = [r \in Requests |-> f0]
      BY DEF Init
    <3> HIDE DEF f0
    <3> QED
      BY <3>1, <3>2
  <2>3. nonce \in [Requests -> Nonces]
    BY MaxNonceAssumption DEF Init, Nonces
  <2>4. /\ pc \in [Requests -> PCs]
        /\ submit \in [Requests -> BOOLEAN]
        /\ batch \in [Requests -> SUBSET Ops]
        /\ outcome \in [Requests -> Outcomes]
    BY DEF Init, PCs, Outcomes
  <2>5. /\ ticket \in [Requests -> Nat]
        /\ next_ticket \in Nat \ {0}
        /\ reply \in [Requests -> {"none", "accepted", "rejected"}]
    BY DEF Init
  <2>6. /\ signed \subseteq Requests /\ wire \subseteq Requests
        /\ mid_poll \subseteq Requests /\ late \subseteq Requests
        /\ cancelled \in BOOLEAN
    BY DEF Init
  <2> QED
    BY <2>1, <2>2, <2>3, <2>4, <2>5, <2>6 DEF TypeOK
<1>2. LockInv /\ FlightInv
  BY DEF Init, LockInv, FlightInv
<1>3. FreshInv /\ NoSelfCollision /\ TakenInv /\ DrawnInv
  BY DEF Init, FreshInv, Undecided, NoSelfCollision, TakenInv, DrawnInv, Drew
<1>4. GapInv /\ ReplayInv /\ AnswersAreTrue
  BY DEF Init, ELInit, GapInv, ReplayInv, AnswersAreTrue
<1> QED
  BY <1>1, <1>2, <1>3, <1>4 DEF IInv

(***************************************************************************)
(* Every step that ends a request, whatever the answer: the guard or the   *)
(* place in the lock's queue is given up, nothing else moves, and the      *)
(* answer given (res) has to be true.                                      *)
(***************************************************************************)
LEMMA LeaveStep ==
  ASSUME IInv, NEW r \in Requests, NEW res \in Outcomes \ {"none"},
         pc[r] \notin {"idle", "done"},
         Answer(r, res),
         UNCHANGED <<el_vars, request, fee, nonce, signed, next_ticket,
                     token, net>>,
         res = "Ok" => r \in signed /\ (submit[r] => Mined(TxOf(r), TRUE)),
         res = "HandleOpsReverted" => Mined(TxOf(r), FALSE),
         res = "ReceiptTimeout" => reply[r] = "accepted",
         res \in {"Rejected", "SignerError"} => r \notin signed
  PROVE  IInv'
<1> USE DEF el_vars, request, net, token
<1>1. TypeOK'
  BY DEF IInv, TypeOK, ELTypeOK, Answer, PCs, Outcomes
<1>2. LockInv'
  BY DEF IInv, TypeOK, LockInv, Owner, Answer
<1>3. FlightInv'
  BY DEF IInv, TypeOK, FlightInv, Answer
<1>4. \A s, t \in Requests : Outsider(s, t) => Outsider(s, t)'
  BY DEF IInv, TypeOK, Outsider, Orphan, Answer
<1>5. FreshInv'
  BY <1>4 DEF IInv, TypeOK, FreshInv, Undecided, Free, InPool, Collided, Answer
<1>6. NoSelfCollision'
  BY <1>4 DEF IInv, TypeOK, NoSelfCollision
<1>7. TakenInv'
  BY DEF IInv, TakenInv, Free, InPool
<1>8. DrawnInv'
  BY DEF IInv, TypeOK, DrawnInv, Drew, Orphan, Answer
<1>9. GapInv'
  BY DEF IInv, TypeOK, GapInv, NoGapBelow, InPool, Answer
<1>10. ReplayInv' /\ AnswersAreTrue'
  BY DEF IInv, TypeOK, ReplayInv, AnswersAreTrue, Mined, TxOf, Answer
<1> QED
  BY <1>1, <1>2, <1>3, <1>5, <1>6, <1>7, <1>8, <1>9, <1>10 DEF IInv

-----------------------------------------------------------------------------
\* The steps that go on.

\* A call arrives: its request signed nothing, so nobody else is concerned.
LEMMA ArriveStep ==
  ASSUME IInv, NEW r \in Requests, Arrive(r)
  PROVE  IInv'
<1> USE DEF el_vars, lock, net, token, Goto
<1>1. TypeOK'
  BY DEF IInv, TypeOK, ELTypeOK, Arrive, PCs, Batches
<1>2. LockInv'
  BY DEF IInv, TypeOK, LockInv, Owner, Arrive
<1>3. FlightInv'
  BY DEF IInv, TypeOK, FlightInv, Arrive
<1>4. r \notin signed /\ r \notin wire /\ reply[r] = "none" /\ outcome[r] = "none"
  BY DEF IInv, TypeOK, FlightInv, Arrive
<1>5. \A s, t \in Requests : Outsider(s, t) => Outsider(s, t)'
  BY <1>4 DEF IInv, TypeOK, Outsider, Orphan, Arrive
<1>6. FreshInv'
  BY <1>4, <1>5 DEF IInv, TypeOK, FreshInv, Undecided, Free, InPool, Collided, Arrive
<1>7. NoSelfCollision'
  BY <1>5 DEF IInv, TypeOK, NoSelfCollision, Arrive
<1>8. TakenInv'
  BY DEF IInv, TakenInv, Free, InPool, Arrive
<1>9. DrawnInv'
  BY <1>4 DEF IInv, TypeOK, DrawnInv, Drew, Orphan, Arrive
<1>10. GapInv'
  BY DEF IInv, TypeOK, GapInv, NoGapBelow, InPool, Arrive
<1>11. ReplayInv' /\ AnswersAreTrue'
  BY <1>4 DEF IInv, TypeOK, ReplayInv, AnswersAreTrue, Mined, TxOf, Arrive
<1> QED
  BY <1>1, <1>2, <1>3, <1>6, <1>7, <1>8, <1>9, <1>10, <1>11 DEF IInv

\* The checks pass: a submit joins the lock's queue behind everybody else.
LEMMA BuildPassesStep ==
  ASSUME IInv, NEW r \in Requests, BuildPasses(r)
  PROVE  IInv'
<1> USE DEF el_vars, lock, net, token, request, Goto, Polled
<1>1. TypeOK'
  BY DEF IInv, TypeOK, ELTypeOK, BuildPasses, PCs
<1>2. LockInv'
  BY DEF IInv, TypeOK, LockInv, Owner, BuildPasses
<1>3. FlightInv'
  BY DEF IInv, TypeOK, FlightInv, BuildPasses
<1>4. r \notin signed /\ r \notin wire /\ reply[r] = "none" /\ outcome[r] = "none"
  BY DEF IInv, TypeOK, FlightInv, BuildPasses
<1>5. \A s, t \in Requests : Outsider(s, t) => Outsider(s, t)'
  BY <1>4 DEF IInv, TypeOK, Outsider, Orphan, BuildPasses
<1>6. FreshInv'
  BY <1>5 DEF IInv, TypeOK, FreshInv, Undecided, Free, InPool, Collided, BuildPasses
<1>7. NoSelfCollision'
  BY <1>5 DEF IInv, TypeOK, NoSelfCollision, BuildPasses
<1>8. TakenInv'
  BY DEF IInv, TakenInv, Free, InPool, BuildPasses
<1>9. DrawnInv'
  BY <1>4 DEF IInv, TypeOK, DrawnInv, Drew, Orphan, BuildPasses
<1>10. GapInv'
  BY DEF IInv, TypeOK, GapInv, NoGapBelow, InPool, BuildPasses
<1>11. ReplayInv' /\ AnswersAreTrue'
  BY <1>4 DEF IInv, TypeOK, ReplayInv, AnswersAreTrue, Mined, TxOf, BuildPasses
<1> QED
  BY <1>1, <1>2, <1>3, <1>6, <1>7, <1>8, <1>9, <1>10, <1>11 DEF IInv

\* The guard is granted to the head of the queue.
LEMMA LockGrantedStep ==
  ASSUME IInv, NEW r \in Requests, LockGranted(r)
  PROVE  IInv'
<1> USE DEF el_vars, lock, net, token, request, Goto, Polled
<1>1. TypeOK'
  BY DEF IInv, TypeOK, ELTypeOK, LockGranted, PCs
<1>2. LockInv'
  BY DEF IInv, TypeOK, LockInv, Owner, LockGranted
<1>3. FlightInv'
  BY DEF IInv, TypeOK, FlightInv, LockGranted
<1>4. r \notin signed /\ r \notin wire
  BY DEF IInv, TypeOK, FlightInv, LockGranted
<1>5. \A s, t \in Requests : Outsider(s, t) => Outsider(s, t)'
  BY <1>4 DEF IInv, TypeOK, Outsider, Orphan, LockGranted
<1>6. FreshInv'
  BY <1>5 DEF IInv, TypeOK, FreshInv, Undecided, Free, InPool, Collided, LockGranted
<1>7. NoSelfCollision'
  BY <1>5 DEF IInv, TypeOK, NoSelfCollision, LockGranted
<1>8. TakenInv'
  BY DEF IInv, TakenInv, Free, InPool, LockGranted
<1>9. DrawnInv'
  BY <1>4 DEF IInv, TypeOK, DrawnInv, Drew, Orphan, LockGranted
<1>10. GapInv'
  BY DEF IInv, TypeOK, GapInv, NoGapBelow, InPool, LockGranted
<1>11. ReplayInv' /\ AnswersAreTrue'
  BY DEF IInv, TypeOK, ReplayInv, AnswersAreTrue, Mined, TxOf, LockGranted
<1> QED
  BY <1>1, <1>2, <1>3, <1>6, <1>7, <1>8, <1>9, <1>10, <1>11 DEF IInv

(***************************************************************************)
(* The pending nonce is read.  A submit that already drew the same nonce   *)
(* is either at the node, then the nonce was released since, or orphaned:  *)
(* it cannot still be under way, for the reader owns the lock.             *)
(***************************************************************************)
LEMMA ReadPendingNonceStep ==
  ASSUME IInv, NEW r \in Requests, ReadPendingNonce(r)
  PROVE  IInv'
<1> USE DEF el_vars, lock, net, token, request, Goto, Polled
<1>0. PICK n \in Nonces : IsPendingNonce(n) /\ nonce' = [nonce EXCEPT ![r] = n]
  BY DEF ReadPendingNonce
<1>1. TypeOK'
  BY <1>0 DEF IInv, TypeOK, ELTypeOK, ReadPendingNonce, PCs
<1>2. LockInv'
  BY DEF IInv, TypeOK, LockInv, Owner, ReadPendingNonce
<1>3. FlightInv'
  BY DEF IInv, TypeOK, FlightInv, ReadPendingNonce
<1>4. r \notin signed /\ r \notin wire /\ reply[r] = "none" /\ outcome[r] = "none"
  BY DEF IInv, TypeOK, FlightInv, ReadPendingNonce
<1>5. \A s, t \in Requests : s # r /\ Outsider(s, t) => Outsider(s, t)'
  BY <1>0, <1>4 DEF IInv, TypeOK, Outsider, Orphan, ReadPendingNonce
<1>7. FreshInv'
  <2> SUFFICES ASSUME NEW s \in Requests, Undecided(s)'
               PROVE  (Free(nonce[s]) \/ Collided(s))'
    BY DEF FreshInv
  <2>1. CASE s = r
    BY <1>0, <2>1 DEF IInv, TypeOK, IsPendingNonce, Free, InPool, ReadPendingNonce
  <2>2. CASE s # r
    <3>1. Undecided(s)
      BY <2>2 DEF IInv, TypeOK, Undecided, ReadPendingNonce
    <3>2. nonce'[s] = nonce[s] /\ nonce[s] \in Nonces
      BY <1>0, <2>2 DEF IInv, TypeOK
    <3>3. Free(nonce[s]) \/ Collided(s)
      BY <3>1 DEF IInv, FreshInv
    <3>4. Collided(s) => Collided(s)'
      BY <1>5, <2>2 DEF Collided
    <3> QED
      BY <3>2, <3>3, <3>4 DEF Free, InPool, ReadPendingNonce
  <2> QED
    BY <2>1, <2>2
<1>8. NoSelfCollision'
  BY <1>4, <1>5 DEF IInv, TypeOK, NoSelfCollision, ReadPendingNonce
<1>9. TakenInv'
  BY <1>0, <1>4 DEF IInv, TypeOK, TakenInv, Free, InPool, ReadPendingNonce
<1>10. DrawnInv'
  <2>1. \A s \in Requests : s # r /\ submit[r] /\ submit[s]
                              => pc[s] \notin {"nonce", "sign", "send"}
    BY DEF IInv, TypeOK, LockInv, Owner, ReadPendingNonce
  <2>2. \A s \in Requests : s # r /\ submit[r] /\ Drew(s)
                              => reply[s] = "accepted" \/ Orphan(s)
    BY <2>1 DEF IInv, TypeOK, FlightInv, Drew, Orphan
  <2>3. \A s \in Requests : reply[s] = "accepted" /\ nonce[s] = n => n \in released
    BY <1>0 DEF IInv, TakenInv, IsPendingNonce
  <2>4. \A s \in Requests : s # r => /\ Drew(s)' = Drew(s)
                                     /\ Orphan(s)' = Orphan(s)
                                     /\ nonce'[s] = nonce[s]
    BY <1>0 DEF IInv, TypeOK, Drew, Orphan, ReadPendingNonce
  <2>5. nonce'[r] = n /\ released' = released /\ (Drew(r)' => submit[r])
    BY <1>0 DEF IInv, TypeOK, Drew, ReadPendingNonce
  <2> QED
    BY <2>2, <2>3, <2>4, <2>5 DEF IInv, DrawnInv
<1>11. GapInv'
  BY <1>0, <1>4 DEF IInv, TypeOK, GapInv, NoGapBelow, InPool, IsPendingNonce,
                    ReadPendingNonce
<1>12. ReplayInv' /\ AnswersAreTrue'
  BY <1>0, <1>4 DEF IInv, TypeOK, ReplayInv, AnswersAreTrue, Mined, TxOf,
                    ReadPendingNonce
<1> QED
  BY <1>1, <1>2, <1>3, <1>7, <1>8, <1>9, <1>10, <1>11, <1>12 DEF IInv

\* The envelope is signed and its broadcast starts.
LEMMA SignAndSendStep ==
  ASSUME IInv, NEW r \in Requests, SignAndSend(r)
  PROVE  IInv'
<1> USE DEF el_vars, lock, net, token, request, Goto, Polled
<1>1. TypeOK'
  BY DEF IInv, TypeOK, ELTypeOK, SignAndSend, PCs
<1>2. LockInv'
  BY DEF IInv, TypeOK, LockInv, Owner, SignAndSend
<1>3. FlightInv'
  BY DEF IInv, TypeOK, FlightInv, SignAndSend
<1>4. reply[r] = "none" /\ outcome[r] = "none"
  BY DEF IInv, TypeOK, FlightInv, SignAndSend
<1>5. \A s, t \in Requests : Outsider(s, t) => Outsider(s, t)'
  BY DEF IInv, TypeOK, Outsider, Orphan, SignAndSend
<1>6. FreshInv'
  BY <1>5 DEF IInv, TypeOK, FreshInv, Undecided, Free, InPool, Collided, SignAndSend
<1>7. NoSelfCollision'
  BY <1>5 DEF IInv, TypeOK, NoSelfCollision, SignAndSend
<1>8. TakenInv'
  BY DEF IInv, TakenInv, Free, InPool, SignAndSend
<1>9. DrawnInv'
  BY DEF IInv, TypeOK, DrawnInv, Drew, Orphan, SignAndSend
<1>10. GapInv'
  BY DEF IInv, TypeOK, GapInv, NoGapBelow, InPool, SignAndSend
<1>11. ReplayInv' /\ AnswersAreTrue'
  BY <1>4 DEF IInv, TypeOK, ReplayInv, AnswersAreTrue, Mined, TxOf, SignAndSend
<1> QED
  BY <1>1, <1>2, <1>3, <1>6, <1>7, <1>8, <1>9, <1>10, <1>11 DEF IInv

\* A sign-only request hands its envelope out and ends.
LEMMA SignOnlyStep ==
  ASSUME IInv, NEW r \in Requests, SignOnly(r)
  PROVE  IInv'
<1> USE DEF el_vars, lock, net, token, request, Answer, Polled
<1>1. TypeOK'
  BY DEF IInv, TypeOK, ELTypeOK, SignOnly, PCs, Outcomes
<1>2. LockInv'
  BY DEF IInv, TypeOK, LockInv, Owner, SignOnly
<1>3. FlightInv'
  BY DEF IInv, TypeOK, FlightInv, SignOnly
<1>4. reply[r] = "none"
  BY DEF IInv, TypeOK, FlightInv, SignOnly
<1>5. \A s, t \in Requests : Outsider(s, t) => Outsider(s, t)'
  BY DEF IInv, TypeOK, Outsider, Orphan, SignOnly
<1>6. FreshInv'
  BY <1>5 DEF IInv, TypeOK, FreshInv, Undecided, Free, InPool, Collided, SignOnly
<1>7. NoSelfCollision'
  BY <1>5 DEF IInv, TypeOK, NoSelfCollision, SignOnly
<1>8. TakenInv'
  BY DEF IInv, TakenInv, Free, InPool, SignOnly
<1>9. DrawnInv'
  BY DEF IInv, TypeOK, DrawnInv, Drew, Orphan, SignOnly
<1>10. GapInv'
  BY DEF IInv, TypeOK, GapInv, NoGapBelow, InPool, SignOnly
<1>11. ReplayInv' /\ AnswersAreTrue'
  BY <1>4 DEF IInv, TypeOK, ReplayInv, AnswersAreTrue, Mined, TxOf, SignOnly
<1> QED
  BY <1>1, <1>2, <1>3, <1>6, <1>7, <1>8, <1>9, <1>10, <1>11 DEF IInv

\* The node took the envelope: the guard is dropped, the wait begins.
LEMMA SendAcceptedStep ==
  ASSUME IInv, NEW r \in Requests, SendAccepted(r)
  PROVE  IInv'
<1> USE DEF el_vars, lock, net, token, request, Goto, Polled
<1>1. TypeOK'
  BY DEF IInv, TypeOK, ELTypeOK, SendAccepted, PCs
<1>2. LockInv'
  BY DEF IInv, TypeOK, LockInv, Owner, SendAccepted
<1>3. FlightInv'
  BY DEF IInv, TypeOK, FlightInv, SendAccepted
<1>4. \A s, t \in Requests : Outsider(s, t) => Outsider(s, t)'
  BY DEF IInv, TypeOK, Outsider, Orphan, SendAccepted
<1>5. FreshInv'
  BY <1>4 DEF IInv, TypeOK, FreshInv, FlightInv, Undecided, Free, InPool,
              Collided, SendAccepted
<1>6. NoSelfCollision'
  BY <1>4 DEF IInv, TypeOK, NoSelfCollision, SendAccepted
<1>7. TakenInv'
  BY DEF IInv, TakenInv, Free, InPool, SendAccepted
<1>8. DrawnInv'
  BY DEF IInv, TypeOK, FlightInv, DrawnInv, Drew, Orphan, SendAccepted
<1>9. GapInv'
  BY DEF IInv, TypeOK, GapInv, NoGapBelow, InPool, SendAccepted
<1>10. ReplayInv' /\ AnswersAreTrue'
  BY DEF IInv, TypeOK, ReplayInv, AnswersAreTrue, Mined, TxOf, SendAccepted
<1> QED
  BY <1>1, <1>2, <1>3, <1>5, <1>6, <1>7, <1>8, <1>9, <1>10 DEF IInv

\* The receipt says that handleOps reverted.
LEMMA RevertFoundStep ==
  ASSUME IInv, NEW r \in Requests, Polled(r, "receipt"), Mined(TxOf(r), FALSE),
         Goto(r, "replay"),
         UNCHANGED <<outcome, ticket, el_vars, request, fee, nonce, signed,
                     next_ticket, token, net>>
  PROVE  IInv'
<1> USE DEF el_vars, lock, net, token, request, Goto, Polled
<1>1. TypeOK'
  BY DEF IInv, TypeOK, ELTypeOK, PCs
<1>2. LockInv'
  BY DEF IInv, TypeOK, LockInv, Owner
<1>3. FlightInv'
  BY DEF IInv, TypeOK, FlightInv
<1>4. \A s, t \in Requests : Outsider(s, t) => Outsider(s, t)'
  BY DEF IInv, TypeOK, Outsider, Orphan
<1>5. FreshInv'
  BY <1>4 DEF IInv, TypeOK, FreshInv, FlightInv, Undecided, Free, InPool,
              Collided
<1>6. NoSelfCollision'
  BY <1>4 DEF IInv, TypeOK, NoSelfCollision
<1>7. TakenInv'
  BY DEF IInv, TakenInv, Free, InPool
<1>8. DrawnInv'
  BY DEF IInv, TypeOK, FlightInv, DrawnInv, Drew, Orphan
<1>9. GapInv'
  BY DEF IInv, TypeOK, GapInv, NoGapBelow, InPool
<1>10. ReplayInv' /\ AnswersAreTrue'
  BY DEF IInv, TypeOK, ReplayInv, AnswersAreTrue, Mined, TxOf
<1> QED
  BY <1>1, <1>2, <1>3, <1>5, <1>6, <1>7, <1>8, <1>9, <1>10 DEF IInv

\* The shutdown token fires: no task has moved yet.
LEMMA CancelStep ==
  ASSUME IInv, Cancel
  PROVE  IInv'
<1> USE DEF el_vars, lock, net, token, request, Goto, Polled
<1>1. TypeOK'
  BY DEF IInv, TypeOK, ELTypeOK, Cancel, PCs
<1>2. LockInv'
  BY DEF IInv, TypeOK, LockInv, Owner, Cancel
<1>3. FlightInv'
  BY DEF IInv, TypeOK, FlightInv, Cancel
<1>4. \A s, t \in Requests : Outsider(s, t) => Outsider(s, t)'
  BY DEF IInv, TypeOK, Outsider, Orphan, Cancel
<1>5. FreshInv'
  BY <1>4 DEF IInv, TypeOK, FreshInv, FlightInv, Undecided, Free, InPool,
              Collided, Cancel
<1>6. NoSelfCollision'
  BY <1>4 DEF IInv, TypeOK, NoSelfCollision, Cancel
<1>7. TakenInv'
  BY DEF IInv, TakenInv, Free, InPool, Cancel
<1>8. DrawnInv'
  BY DEF IInv, TypeOK, FlightInv, DrawnInv, Drew, Orphan, Cancel
<1>9. GapInv'
  BY DEF IInv, TypeOK, GapInv, NoGapBelow, InPool, Cancel
<1>10. ReplayInv' /\ AnswersAreTrue'
  BY DEF IInv, TypeOK, ReplayInv, AnswersAreTrue, Mined, TxOf, Cancel
<1> QED
  BY <1>1, <1>2, <1>3, <1>5, <1>6, <1>7, <1>8, <1>9, <1>10 DEF IInv

\* A send is lost: the node will never see the envelope.
LEMMA SendLostStep ==
  ASSUME IInv, NEW r \in Requests, SendLost(r)
  PROVE  IInv'
<1> USE DEF el_vars, lock, net, token, request, Goto, Polled
<1>1. TypeOK'
  BY DEF IInv, TypeOK, ELTypeOK, SendLost, PCs
<1>2. LockInv'
  BY DEF IInv, TypeOK, LockInv, Owner, SendLost
<1>3. FlightInv'
  BY DEF IInv, TypeOK, FlightInv, SendLost
<1>4. \A s, t \in Requests : Outsider(s, t) => Outsider(s, t)'
  BY DEF IInv, TypeOK, Outsider, Orphan, SendLost
<1>5. FreshInv'
  BY <1>4 DEF IInv, TypeOK, FreshInv, FlightInv, Undecided, Free, InPool,
              Collided, SendLost
<1>6. NoSelfCollision'
  BY <1>4 DEF IInv, TypeOK, NoSelfCollision, SendLost
<1>7. TakenInv'
  BY DEF IInv, TakenInv, Free, InPool, SendLost
<1>8. DrawnInv'
  BY DEF IInv, TypeOK, FlightInv, DrawnInv, Drew, Orphan, SendLost
<1>9. GapInv'
  BY DEF IInv, TypeOK, GapInv, NoGapBelow, InPool, SendLost
<1>10. ReplayInv' /\ AnswersAreTrue'
  BY DEF IInv, TypeOK, ReplayInv, AnswersAreTrue, Mined, TxOf, SendLost
<1> QED
  BY <1>1, <1>2, <1>3, <1>5, <1>6, <1>7, <1>8, <1>9, <1>10 DEF IInv

-----------------------------------------------------------------------------
\* The steps of the node.

(***************************************************************************)
(* What the acceptance of one more envelope does to the nonces: it takes   *)
(* exactly its own, and the gap below it is no larger than before.         *)
(***************************************************************************)
LEMMA AcceptFacts ==
  ASSUME IInv, NEW r \in Requests, r \in signed, Accept(TxOf(r)),
         UNCHANGED <<nonce, batch, fee, signed>>,
         \A s \in Requests : pc'[s] = "sign" => pc[s] = "sign"
  PROVE  /\ ELTypeOK'
         /\ \A n \in Nonces : Free(n)' <=> Free(n) /\ n # nonce[r]
         /\ GapInv'
<1>1. TxOf(r) \in Tx /\ TxOf(r).nonce = nonce[r]
  BY DEF IInv, TypeOK, TxOf, Tx
<1>2. ELTypeOK'
  BY <1>1 DEF IInv, TypeOK, ELTypeOK, Accept
<1>3. \A n \in Nonces : InPool(n)' <=> InPool(n) \/ n = nonce[r]
  BY <1>1 DEF Accept, InPool
<1>4. \A n \in Nonces : Free(n)' <=> Free(n) /\ n # nonce[r]
  BY <1>3 DEF Accept, Free
<1>5. account_nonce' = account_nonce /\ released' = released
  BY DEF Accept
<1>6. \A n : NoGapBelow(n) => NoGapBelow(n)'
  BY <1>3, <1>5 DEF NoGapBelow
<1>7. \A s \in Requests : pc'[s] = "sign" \/ s \in signed' => NoGapBelow(nonce[s])'
  BY <1>6 DEF IInv, GapInv
<1>8. \A t \in pool' : NoGapBelow(t.nonce)'
  BY <1>1, <1>6 DEF IInv, GapInv, Accept
<1>9. GapInv'
  BY <1>7, <1>8 DEF GapInv
<1> QED
  BY <1>2, <1>4, <1>9

(***************************************************************************)
(* The node takes an envelope.  If another submit is under way with the    *)
(* same nonce, the sender of this one does not own the lock any more: it   *)
(* is an orphan, and the other submit has collided with an outsider.       *)
(***************************************************************************)
LEMMA NodeAcceptsStep ==
  ASSUME IInv, NEW r \in Requests, NodeAccepts(r)
  PROVE  IInv'
<1> USE DEF el_vars, lock, net, token, request
<1>1. r \in signed /\ submit[r] /\ reply[r] = "none" /\ pc[r] \in {"send", "done"}
  BY DEF IInv, TypeOK, FlightInv, NodeAccepts
<1>2. /\ ELTypeOK'
      /\ \A n \in Nonces : Free(n)' <=> Free(n) /\ n # nonce[r]
      /\ GapInv'
  BY <1>1, AcceptFacts DEF NodeAccepts
<1>3. TypeOK'
  BY <1>2 DEF IInv, TypeOK, NodeAccepts
<1>4. LockInv'
  BY DEF IInv, TypeOK, LockInv, Owner, NodeAccepts
<1>5. FlightInv'
  BY <1>1 DEF IInv, TypeOK, FlightInv, NodeAccepts
<1>6. \A s, t \in Requests : Outsider(s, t) => Outsider(s, t)'
  BY DEF IInv, TypeOK, Outsider, Orphan, NodeAccepts
<1>7. FreshInv'
  <2> SUFFICES ASSUME NEW s \in Requests, Undecided(s)'
               PROVE  (Free(nonce[s]) \/ Collided(s))'
    BY DEF FreshInv
  <2>1. s # r /\ Undecided(s)
    BY <1>1 DEF IInv, TypeOK, Undecided, NodeAccepts
  <2>2. nonce'[s] = nonce[s] /\ nonce[s] \in Nonces
    BY DEF IInv, TypeOK, NodeAccepts
  <2>3. Collided(s) => Collided(s)'
    BY <1>6 DEF Collided
  <2>4. CASE nonce[s] = nonce[r]
    <3>1. pc[r] = "done"
      BY <1>1, <2>1 DEF IInv, TypeOK, LockInv, Owner, Undecided
    <3>2. Outsider(s, r)'
      BY <1>1, <2>4, <3>1 DEF IInv, TypeOK, Outsider, Orphan, NodeAccepts
    <3> QED
      BY <2>1, <3>2 DEF Collided
  <2>5. CASE nonce[s] # nonce[r]
    BY <1>2, <2>1, <2>2, <2>3, <2>5 DEF IInv, FreshInv
  <2> QED
    BY <2>4, <2>5
<1>8. NoSelfCollision'
  BY <1>6 DEF IInv, TypeOK, NoSelfCollision, NodeAccepts
<1>9. TakenInv'
  BY <1>2 DEF IInv, TypeOK, TakenInv, NodeAccepts, Accept
<1>10. DrawnInv'
  BY DEF IInv, TypeOK, DrawnInv, Drew, Orphan, NodeAccepts, Accept
<1>11. ReplayInv' /\ AnswersAreTrue'
  BY <1>1 DEF IInv, TypeOK, ReplayInv, AnswersAreTrue, Mined, TxOf,
              NodeAccepts, Accept
<1> QED
  BY <1>2, <1>3, <1>4, <1>5, <1>7, <1>8, <1>9, <1>10, <1>11 DEF IInv

\* The node refuses an envelope: its nonce was not free, so it collided.
LEMMA NodeRejectsStep ==
  ASSUME IInv, NEW r \in Requests, NodeRejects(r)
  PROVE  IInv'
<1> USE DEF el_vars, lock, net, token, request
<1>1. r \in signed /\ submit[r] /\ reply[r] = "none" /\ pc[r] \in {"send", "done"}
  BY DEF IInv, TypeOK, FlightInv, NodeRejects
<1>2. TypeOK'
  BY DEF IInv, TypeOK, ELTypeOK, NodeRejects
<1>3. LockInv'
  BY DEF IInv, TypeOK, LockInv, Owner, NodeRejects
<1>4. FlightInv'
  BY <1>1 DEF IInv, TypeOK, FlightInv, NodeRejects
<1>5. \A s, t \in Requests : Outsider(s, t) => Outsider(s, t)'
  BY DEF IInv, TypeOK, Outsider, Orphan, NodeRejects
<1>6. FreshInv'
  BY <1>5 DEF IInv, TypeOK, FreshInv, Undecided, Free, InPool, Collided, NodeRejects
<1>7. NoSelfCollision'
  <2>1. pc[r] = "send" => Collided(r)
    BY <1>1 DEF IInv, FreshInv, Undecided, NodeRejects
  <2> QED
    BY <1>5, <2>1 DEF IInv, TypeOK, NoSelfCollision, Collided, NodeRejects
<1>8. TakenInv'
  BY DEF IInv, TypeOK, TakenInv, Free, InPool, NodeRejects
<1>9. DrawnInv'
  BY DEF IInv, TypeOK, DrawnInv, Drew, Orphan, NodeRejects
<1>10. GapInv'
  BY DEF IInv, TypeOK, GapInv, NoGapBelow, InPool, NodeRejects
<1>11. ReplayInv' /\ AnswersAreTrue'
  BY <1>1 DEF IInv, TypeOK, ReplayInv, AnswersAreTrue, Mined, TxOf, NodeRejects
<1> QED
  BY <1>2, <1>3, <1>4, <1>6, <1>7, <1>8, <1>9, <1>10, <1>11 DEF IInv

\* A client relays a sign-only envelope: an outsider for whoever shares its nonce.
LEMMA RelayStep ==
  ASSUME IInv, NEW r \in Requests, Relay(r)
  PROVE  IInv'
<1> USE DEF el_vars, lock, net, token, request
<1>1. r \in signed /\ ~submit[r]
  BY DEF IInv, FlightInv, Relay
<1>2. /\ ELTypeOK'
      /\ \A n \in Nonces : Free(n)' <=> Free(n) /\ n # nonce[r]
      /\ GapInv'
  BY <1>1, AcceptFacts DEF Relay
<1>3. TypeOK'
  BY <1>2 DEF IInv, TypeOK, Relay
<1>4. LockInv' /\ FlightInv'
  BY DEF IInv, LockInv, Owner, FlightInv, Relay
<1>5. \A s, t \in Requests : Outsider(s, t) => Outsider(s, t)'
  BY DEF Outsider, Orphan, Relay
<1>6. FreshInv'
  <2> SUFFICES ASSUME NEW s \in Requests, Undecided(s)'
               PROVE  (Free(nonce[s]) \/ Collided(s))'
    BY DEF FreshInv
  <2>1. s # r /\ Undecided(s)
    BY <1>1 DEF Undecided, Relay
  <2>2. nonce'[s] = nonce[s] /\ nonce[s] \in Nonces
    BY DEF IInv, TypeOK, Relay
  <2>3. Collided(s) => Collided(s)'
    BY <1>5 DEF Collided
  <2>4. CASE nonce[s] = nonce[r]
    BY <1>1, <2>1, <2>4 DEF Collided, Outsider, Relay
  <2>5. CASE nonce[s] # nonce[r]
    BY <1>2, <2>1, <2>2, <2>3, <2>5 DEF IInv, FreshInv
  <2> QED
    BY <2>4, <2>5
<1>7. NoSelfCollision'
  BY <1>5 DEF IInv, NoSelfCollision, Relay
<1>8. TakenInv'
  BY <1>2 DEF IInv, TypeOK, TakenInv, Relay, Accept
<1>9. DrawnInv'
  BY DEF IInv, DrawnInv, Drew, Orphan, Relay, Accept
<1>10. ReplayInv' /\ AnswersAreTrue'
  BY DEF IInv, ReplayInv, AnswersAreTrue, Mined, TxOf, Relay, Accept
<1> QED
  BY <1>2, <1>3, <1>4, <1>6, <1>7, <1>8, <1>9, <1>10 DEF IInv

(***************************************************************************)
(* A block or a dropped transaction.  A nonce that was free stays free: it *)
(* is neither the one mined nor in the pool.  A nonce that was taken stays *)
(* taken unless the node released it.                                      *)
(***************************************************************************)
LEMMA NodeStepFacts ==
  ASSUME IInv, Mine \/ Release
  PROVE  /\ ELTypeOK'
         /\ receipts \subseteq receipts' /\ released \subseteq released'
         /\ \A n \in Nonces : Free(n) => Free(n)'
         /\ \A n \in Nonces : ~Free(n) => ~Free(n)' \/ n \in released'
         /\ \A n \in Nonces : NoGapBelow(n) => NoGapBelow(n)'
         /\ pool' \subseteq pool
<1> USE DEF Nonces
<1>0. account_nonce \in Nat /\ pool \subseteq Tx /\ \A t \in pool : t.nonce \in Nonces
  BY DEF IInv, TypeOK, ELTypeOK, Tx
<1>1. CASE Mine
  <2>1. PICK t \in pool, ok \in BOOLEAN :
           /\ t.nonce = account_nonce
           /\ pool' = pool \ {t}
           /\ account_nonce' = account_nonce + 1
           /\ receipts' = receipts \cup {[tx |-> t, success |-> ok]}
           /\ released' = released
    BY <1>1 DEF Mine
  <2>2. ELTypeOK'
    BY <1>0, <2>1 DEF IInv, TypeOK, ELTypeOK, Receipts
  <2>3. \A n \in Nonces : InPool(n)' => InPool(n)
    BY <2>1 DEF InPool
  <2>4. \A n \in Nonces : InPool(n) /\ n >= account_nonce' => InPool(n)'
    BY <1>0, <2>1 DEF InPool
  <2>5. \A n \in Nonces : Free(n) => n # account_nonce
    BY <2>1 DEF Free, InPool
  <2>6. \A n \in Nonces : Free(n) <=> Free(n)'
    BY <1>0, <2>1, <2>3, <2>4, <2>5, MaxNonceAssumption DEF Free
  <2>7. \A n \in Nonces : NoGapBelow(n) => NoGapBelow(n)'
    BY <1>0, <2>1, <2>4, MaxNonceAssumption DEF NoGapBelow
  <2> QED
    BY <2>1, <2>2, <2>6, <2>7
<1>2. CASE Release
  <2>1. PICK t \in pool :
           /\ pool' = pool \ {t}
           /\ released' = released \cup {t.nonce}
           /\ account_nonce' = account_nonce
           /\ receipts' = receipts
    BY <1>2 DEF Release
  <2>2. ELTypeOK'
    BY <1>0, <2>1 DEF IInv, TypeOK, ELTypeOK
  <2>3. \A n \in Nonces : InPool(n)' => InPool(n)
    BY <2>1 DEF InPool
  <2>4. \A n \in Nonces : InPool(n) => InPool(n)' \/ n \in released'
    BY <1>0, <2>1 DEF InPool
  <2>5. \A n \in Nonces : Free(n) => Free(n)'
    BY <2>1, <2>3 DEF Free
  <2>6. \A n \in Nonces : ~Free(n) => ~Free(n)' \/ n \in released'
    BY <2>1, <2>4 DEF Free
  <2>7. \A n \in Nonces : NoGapBelow(n) => NoGapBelow(n)'
    BY <2>1, <2>4 DEF NoGapBelow
  <2> QED
    BY <2>1, <2>2, <2>5, <2>6, <2>7
<1> QED
  BY <1>1, <1>2

\* The node moves on its own.
LEMMA NodeStepStep ==
  ASSUME IInv, NodeStep
  PROVE  IInv'
<1> USE DEF lock, net, token, request
<1>1. /\ ELTypeOK'
      /\ receipts \subseteq receipts' /\ released \subseteq released'
      /\ \A n \in Nonces : Free(n) => Free(n)'
      /\ \A n \in Nonces : ~Free(n) => ~Free(n)' \/ n \in released'
      /\ \A n \in Nonces : NoGapBelow(n) => NoGapBelow(n)'
      /\ pool' \subseteq pool
  BY NodeStepFacts DEF NodeStep
<1>2. TypeOK'
  BY <1>1 DEF IInv, TypeOK, NodeStep
<1>3. LockInv' /\ FlightInv'
  BY DEF IInv, LockInv, Owner, FlightInv, NodeStep
<1>4. \A s, t \in Requests : Outsider(s, t)' = Outsider(s, t)
  BY DEF Outsider, Orphan, NodeStep
<1>5. FreshInv'
  <2> SUFFICES ASSUME NEW s \in Requests, Undecided(s)'
               PROVE  (Free(nonce[s]) \/ Collided(s))'
    BY DEF FreshInv
  <2>1. Undecided(s)
    BY DEF Undecided, NodeStep
  <2>2. nonce'[s] = nonce[s] /\ nonce[s] \in Nonces
    BY DEF IInv, TypeOK, NodeStep
  <2>3. Free(nonce[s]) \/ Collided(s)
    BY <2>1 DEF IInv, FreshInv
  <2>4. Collided(s) => Collided(s)'
    BY <1>4 DEF Collided
  <2> QED
    BY <1>1, <2>2, <2>3, <2>4
<1>6. NoSelfCollision'
  BY <1>4 DEF IInv, NoSelfCollision, NodeStep
<1>7. TakenInv'
  BY <1>1 DEF IInv, TypeOK, TakenInv, NodeStep
<1>8. DrawnInv'
  BY <1>1 DEF IInv, DrawnInv, Drew, Orphan, NodeStep
<1>9. GapInv'
  <2>1. \A t \in pool : t.nonce \in Nonces
    BY DEF IInv, TypeOK, ELTypeOK, Tx
  <2>2. \A s \in Requests : nonce[s] \in Nonces /\ nonce'[s] = nonce[s]
    BY DEF IInv, TypeOK, NodeStep
  <2> QED
    BY <1>1, <2>1, <2>2 DEF IInv, GapInv, NodeStep
<1>10. ReplayInv' /\ AnswersAreTrue'
  BY <1>1 DEF IInv, ReplayInv, AnswersAreTrue, Mined, TxOf, NodeStep
<1> QED
  BY <1>2, <1>3, <1>5, <1>6, <1>7, <1>8, <1>9, <1>10 DEF IInv

\* A stuttering step.
LEMMA StutterStep ==
  ASSUME IInv, UNCHANGED vars
  PROVE  IInv'
<1> USE DEF vars
<1>1. TypeOK' /\ LockInv' /\ FlightInv'
  BY DEF IInv, TypeOK, ELTypeOK, LockInv, Owner, FlightInv
<1>2. FreshInv' /\ NoSelfCollision' /\ TakenInv'
  BY DEF IInv, FreshInv, Undecided, Free, InPool, Collided, Outsider, Orphan,
         NoSelfCollision, TakenInv
<1>3. DrawnInv' /\ GapInv'
  BY DEF IInv, DrawnInv, Drew, Orphan, GapInv, NoGapBelow, InPool
<1>4. ReplayInv' /\ AnswersAreTrue'
  BY DEF IInv, ReplayInv, AnswersAreTrue, Mined, TxOf
<1> QED
  BY <1>1, <1>2, <1>3, <1>4 DEF IInv

-----------------------------------------------------------------------------
\* All steps together.

\* What a task does when the runtime polls it.
LEMMA RuntimeStepStep ==
  ASSUME IInv, NEW r \in Requests, RuntimeStep(r)
  PROVE  IInv'
<1> USE DEF Polled
<1>1. CASE LockGranted(r)
  BY <1>1, LockGrantedStep
<1>2. CASE SignAndSend(r)
  BY <1>2, SignAndSendStep
<1>3. CASE SignOnly(r)
  BY <1>3, SignOnlyStep
<1>4. CASE FeeOverflows(r)
  <2>1. r \notin signed
    BY <1>4 DEF IInv, FlightInv, FeeOverflows
  <2> QED
    BY <1>4, <2>1, LeaveStep DEF FeeOverflows, Outcomes
<1>5. CASE SignFails(r)
  <2>1. r \notin signed
    BY <1>5 DEF IInv, FlightInv, SignFails
  <2> QED
    BY <1>5, <2>1, LeaveStep DEF SignFails, Outcomes
<1>6. CASE DropCancelled(r)
  BY <1>6, LeaveStep DEF DropCancelled, Outcomes
<1> QED
  BY <1>1, <1>2, <1>3, <1>4, <1>5, <1>6 DEF RuntimeStep

\* What a task does with the result of a provider call.
LEMMA ProviderReturnsStep ==
  ASSUME IInv, NEW r \in Requests, ProviderReturns(r)
  PROVE  IInv'
<1> USE DEF Polled
<1>1. CASE BuildPasses(r)
  BY <1>1, BuildPassesStep
<1>2. CASE BuildFails(r)
  <2>1. r \notin signed
    BY <1>2 DEF IInv, FlightInv, BuildFails
  <2> QED
    BY <1>2, <2>1, LeaveStep DEF BuildFails, Outcomes
<1>3. CASE ReadPendingNonce(r)
  BY <1>3, ReadPendingNonceStep
<1>4. CASE NonceReadFails(r)
  BY <1>4, LeaveStep DEF NonceReadFails, Outcomes
<1>5. CASE SendAccepted(r)
  BY <1>5, SendAcceptedStep
<1>6. CASE SendFails(r)
  BY <1>6, LeaveStep DEF SendFails, Outcomes
<1>7. CASE ReceiptFound(r)
  <2>1. r \in signed
    BY <1>7 DEF IInv, FlightInv, ReceiptFound
  <2>2. CASE Mined(TxOf(r), TRUE) /\ Answer(r, "Ok")
    BY <1>7, <2>1, <2>2, LeaveStep DEF ReceiptFound, Outcomes
  <2>3. CASE Mined(TxOf(r), FALSE) /\ Goto(r, "replay") /\ UNCHANGED <<outcome, ticket>>
    BY <1>7, <2>3, RevertFoundStep DEF ReceiptFound
  <2> QED
    BY <1>7, <2>2, <2>3 DEF ReceiptFound
<1>8. CASE ReceiptTimeout(r)
  <2>1. reply[r] = "accepted"
    BY <1>8 DEF IInv, FlightInv, ReceiptTimeout
  <2> QED
    BY <1>8, <2>1, LeaveStep DEF ReceiptTimeout, Outcomes
<1>9. CASE ReceiptPollFails(r)
  BY <1>9, LeaveStep DEF ReceiptPollFails, Outcomes
<1>10. CASE Replay(r)
  <2>1. Mined(TxOf(r), FALSE)
    BY <1>10 DEF IInv, ReplayInv, Replay
  <2> QED
    BY <1>10, <2>1, LeaveStep DEF Replay, Outcomes
<1> QED
  BY <1>1, <1>2, <1>3, <1>4, <1>5, <1>6, <1>7, <1>8, <1>9, <1>10
     DEF ProviderReturns

\* Every step of the specification preserves the inductive invariant.
LEMMA NextIInv == IInv /\ [Next]_vars => IInv'
<1> SUFFICES ASSUME IInv, [Next]_vars PROVE IInv'
  OBVIOUS
<1>1. ASSUME NEW r \in Requests, Arrive(r) PROVE IInv'
  BY <1>1, ArriveStep
<1>2. ASSUME NEW r \in Requests, RuntimeStep(r) PROVE IInv'
  BY <1>2, RuntimeStepStep
<1>3. ASSUME NEW r \in Requests, ProviderReturns(r) PROVE IInv'
  BY <1>3, ProviderReturnsStep
<1>4. ASSUME NEW r \in Requests, NetworkStep(r) PROVE IInv'
  <2>1. CASE Disconnect(r)
    BY <1>4, <2>1, LeaveStep DEF Disconnect, Outcomes
  <2> QED
    BY <1>4, <2>1, NodeAcceptsStep, NodeRejectsStep, SendLostStep, RelayStep
       DEF NetworkStep
<1>5. CASE Cancel
  BY <1>5, CancelStep
<1>6. CASE NodeStep
  BY <1>6, NodeStepStep
<1>7. CASE Drained \/ UNCHANGED vars
  BY <1>7, StutterStep DEF Drained
<1> QED
  BY <1>1, <1>2, <1>3, <1>4, <1>5, <1>6, <1>7 DEF Next

\* The inductive invariant holds in every reachable state.
THEOREM Invariance == Spec => []IInv
<1> QED
  BY InitIInv, NextIInv, PTL DEF Spec

\* Type correctness of the request life cycle, for all constants.
THEOREM TypeCorrect == Spec => []TypeOK
<1>1. IInv => TypeOK
  BY DEF IInv
<1> QED
  BY <1>1, Invariance, PTL

(***************************************************************************)
(* submit_lock around pending_nonce .. send_raw_transaction: with any      *)
(* number of concurrent requests, the node refuses the nonce of a submit   *)
(* only because of a sign-only envelope or an orphaned send.               *)
(***************************************************************************)
THEOREM NoSelfCollisionHolds == Spec => []NoSelfCollision
<1>1. IInv => NoSelfCollision
  BY DEF IInv
<1> QED
  BY <1>1, Invariance, PTL

\* Envelopes are signed with drawn nonces.
LEMMA DistinctNoncesFromInv == IInv => DistinctNonces
  BY DEF IInv, TypeOK, DrawnInv, Drew, DistinctNonces

\* Pooled transactions have no gap below them.
LEMMA GapOnlyFromReleaseFromInv == IInv => GapOnlyFromRelease
  BY DEF IInv, GapInv, NoGapBelow, GapOnlyFromRelease

(***************************************************************************)
(* Two submits hold envelopes with one nonce only if one is an orphan or   *)
(* the node released the nonce in between.                                 *)
(***************************************************************************)
THEOREM DistinctNoncesHolds == Spec => []DistinctNonces
  BY DistinctNoncesFromInv, Invariance, PTL

(***************************************************************************)
(* Signing at the pending nonce without a cache of reservations: only the  *)
(* node's own releases leave a pooled transaction behind a nonce gap.      *)
(***************************************************************************)
THEOREM GapOnlyFromReleaseHolds == Spec => []GapOnlyFromRelease
  BY GapOnlyFromReleaseFromInv, Invariance, PTL

\* What build_inner answers is what happened on the chain.
THEOREM AnswersAreTrueHolds == Spec => []AnswersAreTrue
<1>1. IInv => AnswersAreTrue
  BY DEF IInv
<1> QED
  BY <1>1, Invariance, PTL

\* The EntryPoint executes an operation in one transaction only.
OpsOnce ==
    \A x, y \in receipts :
        x.success /\ y.success /\ x.tx.ops \cap y.tx.ops # {} => x = y

\* Only a block changes the receipts, and it refuses executed operations.
LEMMA OpsOnceStep == OpsOnce /\ [Next]_vars => OpsOnce'
<1> SUFFICES ASSUME OpsOnce, [Next]_vars PROVE OpsOnce'
  OBVIOUS
<1>1. UNCHANGED receipts \/ Mine
  BY DEF Next, Arrive, RuntimeStep, ProviderReturns, NetworkStep, LockGranted,
         SignAndSend, SignOnly, FeeOverflows, SignFails, DropCancelled, BuildPasses,
         BuildFails, ReadPendingNonce, NonceReadFails, SendAccepted, SendFails,
         ReceiptFound, ReceiptTimeout, ReceiptPollFails, Replay, NodeAccepts,
         NodeRejects, SendLost, Relay, Disconnect, Cancel, NodeStep, Drained, Accept,
         Release, el_vars, vars
<1>2. CASE UNCHANGED receipts
  BY <1>2 DEF OpsOnce
<1>3. CASE Mine
  <2>1. PICK t \in pool, ok \in BOOLEAN :
           /\ ok => t.ops \cap Executed = {}
           /\ receipts' = receipts \cup {[tx |-> t, success |-> ok]}
    BY <1>3 DEF Mine
  <2>2. ok => \A x \in receipts : x.success => x.tx.ops \cap t.ops = {}
    BY <2>1 DEF Executed
  <2> QED
    BY <2>1, <2>2 DEF OpsOnce
<1> QED
  BY <1>1, <1>2, <1>3

\* An Ok was mined (AnswersAreTrue), and an operation is mined once.
LEMMA OneOkFromInv == IInv /\ OpsOnce => OneOkPerOperation
<1> SUFFICES ASSUME IInv, OpsOnce, NEW r \in Requests, NEW s \in Requests,
                    submit[r], outcome[r] = "Ok", submit[s], outcome[s] = "Ok",
                    batch[r] \cap batch[s] # {}
             PROVE  TxOf(r) = TxOf(s)
  BY DEF OneOkPerOperation
<1> DEFINE x == [tx |-> TxOf(r), success |-> TRUE]
           y == [tx |-> TxOf(s), success |-> TRUE]
<1>1. x \in receipts /\ y \in receipts
  BY DEF IInv, AnswersAreTrue, Mined
<1>2. x.success /\ y.success /\ x.tx.ops = batch[r] /\ y.tx.ops = batch[s]
  BY DEF TxOf
<1>3. x = y
  BY <1>1, <1>2 DEF OpsOnce
<1> QED
  BY <1>3

(***************************************************************************)
(* Two submits of one operation are both told Ok only if they signed the   *)
(* very same transaction, whatever failed, raced or was retried.           *)
(***************************************************************************)
THEOREM OneOkPerOperationHolds == Spec => []OneOkPerOperation
<1>1. Init => OpsOnce
  BY DEF Init, ELInit, OpsOnce
<1>2. Spec => []OpsOnce
  BY <1>1, OpsOnceStep, PTL DEF Spec
<1> QED
  BY <1>2, OneOkFromInv, Invariance, PTL

-----------------------------------------------------------------------------
\* The broadcasts of a shutdown.

\* A submit whose poll outlives the token and may still broadcast.
Armed(r) == r \in mid_poll /\ submit[r] /\ pc[r] \in {"nonce", "sign"}

LateInv ==
    /\ ~cancelled => late = {}
    /\ OneLateSend
    /\ late # {} => \A r \in Requests : ~Armed(r)

(***************************************************************************)
(* Nothing but the token itself arms a task: a poll that asked before it   *)
(* fired ends at the next call of the provider.                            *)
(***************************************************************************)
LEMMA NobodyArmed ==
  ASSUME IInv, [Next]_vars, ~Cancel, NEW s \in Requests, Armed(s)'
  PROVE  Armed(s)
<1> USE DEF Armed, IInv, TypeOK, Goto, Answer, Segment, Polled, request, net
<1>1. ASSUME NEW r \in Requests, Arrive(r) PROVE Armed(s)
  BY <1>1 DEF Arrive
<1>2. ASSUME NEW r \in Requests, RuntimeStep(r) PROVE Armed(s)
  BY <1>2 DEF RuntimeStep, LockGranted, SignAndSend, SignOnly, FeeOverflows,
              SignFails, DropCancelled
<1>3. ASSUME NEW r \in Requests, ProviderReturns(r) PROVE Armed(s)
  <2>1. CASE BuildPasses(r)
    BY <2>1 DEF BuildPasses
  <2>2. CASE ReadPendingNonce(r)
    BY <2>2 DEF ReadPendingNonce
  <2>3. CASE BuildFails(r) \/ NonceReadFails(r)
    BY <2>3 DEF BuildFails, NonceReadFails
  <2>4. CASE SendAccepted(r) \/ SendFails(r) \/ Replay(r)
    BY <2>4 DEF SendAccepted, SendFails, Replay
  <2>5. CASE ReceiptFound(r) \/ ReceiptTimeout(r) \/ ReceiptPollFails(r)
    BY <2>5 DEF ReceiptFound, ReceiptTimeout, ReceiptPollFails
  <2> QED
    BY <1>3, <2>1, <2>2, <2>3, <2>4, <2>5 DEF ProviderReturns
<1>4. ASSUME NEW r \in Requests, NetworkStep(r) PROVE Armed(s)
  BY <1>4 DEF NetworkStep, NodeAccepts, NodeRejects, SendLost, Relay, Disconnect
<1>5. CASE NodeStep \/ Drained \/ UNCHANGED vars
  BY <1>5 DEF NodeStep, Drained, vars
<1> QED
  BY <1>1, <1>2, <1>3, <1>4, <1>5 DEF Next

\* Only the lock's owner is armed, and its broadcast disarms it.
LEMMA LateInvStep == IInv /\ LateInv /\ [Next]_vars => LateInv'
<1> SUFFICES ASSUME IInv, LateInv, [Next]_vars PROVE LateInv'
  OBVIOUS
<1>1. CASE Cancel
  BY <1>1 DEF LateInv, OneLateSend, Cancel
<1>2. ASSUME NEW r \in Requests, SignAndSend(r) PROVE LateInv'
  <2>1. cancelled' = cancelled /\ late' = IF cancelled THEN late \cup {r} ELSE late
    BY <1>2 DEF SignAndSend
  <2>2. CASE ~cancelled
    BY <2>1, <2>2 DEF LateInv, OneLateSend
  <2>3. CASE cancelled
    <3>1. Armed(r)
      BY <1>2, <2>3 DEF Armed, SignAndSend, Polled
    <3>2. late' = {r}
      BY <2>1, <2>3, <3>1 DEF LateInv
    <3>3. \A s \in Requests : Armed(s) => s = r
      BY <3>1 DEF Armed, IInv, TypeOK, LockInv, Owner
    <3>4. ~Cancel /\ ~Armed(r)'
      BY <1>2, <2>3 DEF Armed, SignAndSend, Cancel, Goto, IInv, TypeOK
    <3>5. \A s \in Requests : ~Armed(s)'
      BY <3>3, <3>4, NobodyArmed
    <3> QED
      BY <2>1, <2>3, <3>2, <3>5 DEF LateInv, OneLateSend
  <2> QED
    BY <2>2, <2>3
<1>3. CASE ~Cancel /\ \A r \in Requests : ~SignAndSend(r)
  <2>1. UNCHANGED <<cancelled, late>>
    BY <1>3 DEF Next, Arrive, RuntimeStep, ProviderReturns, NetworkStep,
           LockGranted, SignOnly, FeeOverflows, SignFails, DropCancelled,
           BuildPasses, BuildFails, ReadPendingNonce, NonceReadFails,
           SendAccepted, SendFails, ReceiptFound, ReceiptTimeout,
           ReceiptPollFails, Replay, NodeAccepts, NodeRejects, SendLost, Relay,
           Disconnect, NodeStep, Drained, token, vars
  <2> QED
    BY <1>3, <2>1, NobodyArmed DEF LateInv, OneLateSend
<1> QED
  BY <1>1, <1>2, <1>3

(***************************************************************************)
(* Shutdown with any number of requests: whatever polls the token fires    *)
(* into, at most one broadcast begins after it, that of the request that   *)
(* held submit_lock.                                                       *)
(***************************************************************************)
THEOREM OneLateSendHolds == Spec => []OneLateSend
<1>1. Init => LateInv
  BY DEF Init, LateInv, OneLateSend
<1>2. LateInv => OneLateSend
  BY DEF LateInv
<1> QED
  BY <1>1, <1>2, Invariance, LateInvStep, PTL DEF Spec
=============================================================================
