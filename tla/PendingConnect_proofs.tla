-------------------------- MODULE PendingConnect_proofs --------------------------
(***************************************************************************)
(* Theorems about PendingConnect, for any number of calls, challenges and  *)
(* codes and any number of attempts.  All of them follow from one          *)
(* inductive invariant IInv: what the provider has said yes to (Payments), *)
(* and what a call may have done by the time it is at a given step         *)
(* (Progress).                                                             *)
(***************************************************************************)
EXTENDS PendingConnect, TLAPS

Storing == {"persist", "consume", "commit"}

(* A code's only payment is for the challenge it was issued for.           *)
Payments ==
    /\ \A h \in honoured : h[2] = Code(h[1])
    /\ \A h \in honoured : h[2] # Key => <<h[2], Pending(h[1])>> \in grants
    /\ \A h, k \in honoured : h[2] = k[2] /\ h[2] # Key => h[1] = k[1]

Progress(q) ==
    /\ pc[q] = "idle" => call[q] = NoCall
    /\ pc[q] \in {"idle", "look", "poll"} => tries[q] = 0
    /\ pc[q] = "send" => tries[q] < MaxAttempts
    /\ Kind(q) # "key" /\ pc[q] # "idle" => Pending(q) \in begun
    /\ Kind(q) = "key" => Code(q) = Key
    /\ pc[q] \in {"look", "poll", "consume", "discard"} => Kind(q) # "key"
    /\ pc[q] = "poll" => Kind(q) = "device"
    /\ Kind(q) = "redirect" \/ (Kind(q) = "device" /\ pc[q] \in {"send"} \cup Storing) =>
         Code(q) # Key
    /\ pc[q] \in Storing => Paid(q)
    /\ pc[q] = "commit" /\ Code(q) # Key => Pending(q) \notin store
    /\ \/ pc[q] \in {"idle", "look", "poll", "forged", "unknown", "pending"}
       \/ pc[q] = "discard" /\ Kind(q) = "redirect"
       => \A h \in honoured : h[1] # q

Rows ==
    \A a \in accounts : a.code = Code(a.by) /\ pc[a.by] \in {"connected", "failed"}

IInv ==
    /\ TypeOK
    /\ Payments
    /\ \A q \in Calls : Progress(q)
    /\ Rows
    /\ PaidOnce
    /\ ConsumedBySuccess
    /\ ConsumedByRefusal
    /\ ConsumedForCause
    /\ AnswerIsTrue

--------------------------------------------------------------------------------

LEMMA InitInv == Init => IInv
BY NoneAssumption, AttemptsAssumption
   DEF Init, IInv, TypeOK, Payments, Progress, Rows, PaidOnce, ConsumedBySuccess,
       ConsumedByRefusal, ConsumedForCause, AnswerIsTrue, NoCall, Call, Kinds, Flows,
       States, PCs, Ended, Storing, Kind, Pending, Code, Paid

(* Every variable keeps its type.                                          *)
LEMMA TypeStep == IInv /\ [Next]_vars => TypeOK'
<1> SUFFICES ASSUME IInv, [Next]_vars PROVE TypeOK'
  OBVIOUS
<1> USE NoneAssumption, AttemptsAssumption
<1> USE DEF IInv, TypeOK, challenge, provider, Goto, PCs, Ended
<1>1. CASE \E p \in Pendings : Begin(p) \/ Expire(p) \/ \E c \in Codes : Consent(c, p)
  BY <1>1 DEF Begin, Expire, Consent
<1>2. CASE \E q \in Calls : Ask(q)
  <2> PICK q \in Calls : Ask(q)
    BY <1>2
  <2>1. call' \in [Calls -> Call]
    <3>1. CASE \E p \in begun, c \in Codes, st \in States :
                 call' = [call EXCEPT ![q] = [kind |-> "redirect", pending |-> p,
                                              code |-> c, state |-> st]]
      BY <3>1 DEF Call, Kinds, Flows
    <3>2. CASE \E p \in begun : call' = [call EXCEPT ![q].kind = "device", ![q].pending = p]
      <4> PICK p \in begun : call' = [call EXCEPT ![q].kind = "device", ![q].pending = p]
        BY <3>2
      <4>1. [call[q] EXCEPT !.kind = "device", !.pending = p] \in Call
        BY DEF Call, Kinds, Flows
      <4>. QED BY <4>1
    <3>. QED BY <3>1, <3>2 DEF Ask
  <2>2. pc' \in [Calls -> PCs]
    BY DEF Ask
  <2>. QED BY <2>1, <2>2 DEF Ask
<1>3. CASE \E q \in Calls : Look(q)
  BY <1>3 DEF Look
<1>4. CASE \E q \in Calls : Poll(q)
  BY <1>4 DEF Poll, Call
<1>5. CASE \E q \in Calls : Exchange(q) \/ Validate(q) \/ NotAccepted(q)
  <2> PICK q \in Calls : Exchange(q) \/ Validate(q) \/ NotAccepted(q)
    BY <1>5
  <2>1. tries[q] \in Nat /\ tries[q] + 1 \in 0..MaxAttempts /\ pc[q] = "send"
    BY DEF Exchange, Validate, NotAccepted, Progress
  <2>2. Code(q) \in Codes \cup {Key}
    BY DEF Code, Call
  <2>. QED BY <2>1, <2>2 DEF Exchange, Validate, NotAccepted, RetryOrGiveUp, GiveUp
<1>6. CASE \E q \in Calls : Persist(q) \/ Consume(q) \/ Discard(q) \/ Fail(q)
  BY <1>6 DEF Persist, Consume, Discard, Fail
<1>7. CASE \E q \in Calls : Commit(q)
  BY <1>7 DEF Commit, Code, Call
<1>8. CASE UNCHANGED vars
  BY <1>8 DEF vars
<1>. QED BY <1>1, <1>2, <1>3, <1>4, <1>5, <1>6, <1>7, <1>8 DEF Next, Serve

(* A step of q touches nothing of another call, and only q's own challenge, *)
(* payment and account.                                                     *)
StepOf(q) ==
    /\ \A r \in Calls \ {q} : pc'[r] = pc[r] /\ call'[r] = call[r] /\ tries'[r] = tries[r]
    /\ begun' = begun /\ grants' = grants /\ expired' = expired
    /\ store' \in {store, store \ {Pending(q)}}
    /\ honoured' \in {honoured, honoured \cup {<<q, Code(q)>>}}
    /\ accounts' \in {accounts, accounts \cup {[by |-> q, code |-> Code(q)]}}
    /\ pc[q] \in PCs \ Ended
    /\ call'[q] # call[q] => pc[q] \in {"idle", "poll"} /\ honoured' = honoured
    /\ honoured' # honoured => pc[q] = "send" /\ call' = call
    /\ store' # store => pc[q] \in {"consume", "discard"}
    /\ accounts' # accounts => pc[q] = "commit" /\ pc'[q] \in {"connected", "failed"}

LEMMA CallSteps ==
    ASSUME IInv, NEW q \in Calls, Ask(q) \/ Serve(q) \/ Fail(q)
    PROVE  StepOf(q)
<1> USE DEF IInv, TypeOK, challenge, provider, Goto, StepOf, Ended, PCs
<1>1. CASE Ask(q)
  BY <1>1 DEF Ask
<1>2. CASE Look(q)
  BY <1>2 DEF Look
<1>3. CASE Poll(q)
  BY <1>3 DEF Poll
<1>4. CASE Exchange(q)
  BY <1>4 DEF Exchange, RetryOrGiveUp, GiveUp
<1>5. CASE Validate(q)
  BY <1>5 DEF Validate, RetryOrGiveUp, GiveUp, Progress
<1>6. CASE NotAccepted(q)
  BY <1>6 DEF NotAccepted, RetryOrGiveUp, GiveUp
<1>7. CASE Persist(q)
  BY <1>7 DEF Persist
<1>8. CASE Consume(q) \/ Discard(q)
  BY <1>8 DEF Consume, Discard
<1>9. CASE Commit(q)
  BY <1>9 DEF Commit
<1>10. CASE Fail(q)
  BY <1>10 DEF Fail, Open
<1>. QED BY <1>1, <1>2, <1>3, <1>4, <1>5, <1>6, <1>7, <1>8, <1>9, <1>10 DEF Serve

LEMMA PaymentsStep == IInv /\ [Next]_vars => Payments'
<1> SUFFICES ASSUME IInv, [Next]_vars PROVE Payments'
  OBVIOUS
<1> USE DEF Payments, Code, Pending, Kind
<1>1. CASE \E p \in Pendings : Begin(p) \/ Expire(p) \/ \E c \in Codes : Consent(c, p)
  BY <1>1 DEF Begin, Expire, Consent, challenge, provider, IInv
<1>2. ASSUME NEW q \in Calls, Ask(q) \/ Serve(q) \/ Fail(q)
      PROVE  Payments'
  <2>1. StepOf(q)
    BY <1>2, CallSteps
  <2>2. TypeOK /\ Payments /\ Progress(q)
    BY DEF IInv
  <2>3. CASE honoured' = honoured
    <3>1. \A h \in honoured : h[1] \in Calls /\ (call'[h[1]] = call[h[1]])
      <4> SUFFICES ASSUME NEW h \in honoured PROVE h[1] \in Calls /\ call'[h[1]] = call[h[1]]
        OBVIOUS
      <4>. QED BY <2>1, <2>2 DEF StepOf, TypeOK, Progress
    <3>. QED BY <3>1, <2>1, <2>2, <2>3 DEF StepOf
  <2>4. CASE honoured' = honoured \cup {<<q, Code(q)>>} /\ honoured' # honoured
    <3>1. call' = call /\ grants' = grants
      BY <2>1, <2>4 DEF StepOf
    <3>2. Exchange(q) \/ Validate(q)
      BY <1>2, <2>1, <2>4 DEF StepOf, Ask, Serve, Fail, Look, Poll, NotAccepted, Persist,
                              Consume, Discard, Commit, provider
    <3>3. CASE Exchange(q)
      BY <3>1, <3>3, <2>2, <2>4 DEF Exchange, Redeemable
    <3>4. CASE Validate(q)
      BY <3>1, <3>4, <2>2, <2>4 DEF Validate, Progress
    <3>. QED BY <3>2, <3>3, <3>4
  <2>. QED BY <2>1, <2>3, <2>4 DEF StepOf
<1>3. CASE UNCHANGED vars
  BY <1>3 DEF vars, challenge, provider, IInv
<1>. QED BY <1>1, <1>2, <1>3 DEF Next

LEMMA OwnProgress ==
    ASSUME IInv, TypeOK', Payments', NEW q \in Calls, Ask(q) \/ Serve(q) \/ Fail(q)
    PROVE  Progress(q)'
<1>1. /\ Progress(q) /\ TypeOK /\ Payments
      /\ pc[q] \in PCs /\ call[q] \in Call
      /\ tries[q] \in Nat
  BY DEF IInv, TypeOK
<1> USE <1>1, NoneAssumption, AttemptsAssumption
<1> USE DEF Progress, TypeOK, challenge, provider, Goto, Kind, Pending, Code, Paid, Storing, PCs, Ended
<1>2. CASE Ask(q)
  <2>1. /\ pc[q] = "idle" /\ UNCHANGED <<begun, store, honoured, tries>>
    BY <1>2 DEF Ask
  <2>2. CASE pc'[q] = "look" /\ call'[q].kind \in Flows /\ call'[q].pending \in begun
             /\ (call'[q].kind = "redirect" => call'[q].code \in Codes)
    BY <2>1, <2>2 DEF Flows
  <2>3. CASE pc'[q] = "send" /\ call' = call
    BY <2>1, <2>3 DEF NoCall
  <2>4. ASSUME NEW p \in begun, NEW c \in Codes, NEW st \in States, Goto(q, "look"),
               call' = [call EXCEPT ![q] = [kind |-> "redirect", pending |-> p,
                                            code |-> c, state |-> st]]
        PROVE  Progress(q)'
    BY <2>2, <2>4 DEF Flows
  <2>5. ASSUME NEW p \in begun, Goto(q, "look"),
               call' = [call EXCEPT ![q].kind = "device", ![q].pending = p]
        PROVE  Progress(q)'
    BY <2>2, <2>5 DEF Flows, Call
  <2>. QED BY <1>2, <2>3, <2>4, <2>5 DEF Ask
<1>3. CASE Look(q)
  <2>1. /\ pc[q] = "look" /\ pc'[q] \in {"unknown", "discard", "send", "refused", "poll"}
        /\ pc'[q] = "discard" => Kind(q) = "redirect"
        /\ pc'[q] = "poll" => Kind(q) = "device"
        /\ pc'[q] = "send" => Kind(q) = "redirect"
        /\ UNCHANGED <<begun, honoured, call, tries, store>>
    BY <1>3 DEF Look
  <2>. QED BY <2>1
<1>4. CASE Poll(q)
  <2>1. /\ pc[q] = "poll" /\ pc'[q] \in {"pending", "discard", "send"}
        /\ call'[q].kind = Kind(q) /\ call'[q].pending = Pending(q)
        /\ pc'[q] = "send" => call'[q].code \in Codes
        /\ pc'[q] # "send" => call'[q].code = Code(q)
        /\ UNCHANGED <<begun, honoured, tries, store>>
    BY <1>4 DEF Poll, Call
  <2>. QED BY <2>1
<1>5. CASE Exchange(q)
  BY <1>5 DEF Exchange, Redeemable, RetryOrGiveUp, GiveUp
<1>6. CASE Validate(q)
  BY <1>6 DEF Validate, RetryOrGiveUp, GiveUp
<1>7. CASE NotAccepted(q)
  BY <1>7 DEF NotAccepted, RetryOrGiveUp, GiveUp
<1>8. CASE Persist(q)
  BY <1>8 DEF Persist
<1>9. CASE Consume(q) \/ Discard(q)
  BY <1>9 DEF Consume, Discard
<1>10. CASE Commit(q)
  BY <1>10 DEF Commit
<1>11. CASE Fail(q)
  BY <1>11 DEF Fail, Open
<1>. QED BY <1>2, <1>3, <1>4, <1>5, <1>6, <1>7, <1>8, <1>9, <1>10, <1>11 DEF Serve

LEMMA ProgressStep == IInv /\ [Next]_vars => \A r \in Calls : Progress(r)'
<1> SUFFICES ASSUME IInv, [Next]_vars, NEW r \in Calls PROVE Progress(r)'
  OBVIOUS
<1>1. TypeOK' /\ Payments' /\ Progress(r) /\ TypeOK
  BY TypeStep, PaymentsStep DEF IInv
<1> USE DEF Progress, Kind, Pending, Code, Paid
<1>2. CASE \E p \in Pendings : Begin(p) \/ Expire(p) \/ \E c \in Codes : Consent(c, p)
  <2>1. /\ UNCHANGED <<honoured, pc, call, tries>>
        /\ begun \subseteq begun'
        /\ store' \cap begun \subseteq store
    BY <1>1, <1>2 DEF Begin, Expire, Consent, challenge, provider, TypeOK
  <2>2. Code(r) # Key /\ pc[r] = "commit" => Pending(r) \in begun
    BY <1>1 DEF TypeOK, Call, Kinds, Flows
  <2>. QED BY <1>1, <2>1, <2>2
<1>3. ASSUME NEW q \in Calls, Ask(q) \/ Serve(q) \/ Fail(q)
      PROVE  Progress(r)'
  <2>1. CASE q = r
    BY <1>1, <1>3, <2>1, OwnProgress
  <2>2. CASE q # r
    <3>1. /\ pc'[r] = pc[r] /\ call'[r] = call[r] /\ tries'[r] = tries[r]
          /\ begun' = begun /\ store' \subseteq store
          /\ honoured \subseteq honoured'
          /\ honoured' \subseteq honoured \cup {<<q, Code(q)>>}
      BY <1>3, <2>2, CallSteps DEF StepOf
    <3>. QED BY <1>1, <2>2, <3>1
  <2>. QED BY <2>1, <2>2
<1>4. CASE UNCHANGED vars
  BY <1>1, <1>4 DEF vars, challenge, provider
<1>. QED BY <1>2, <1>3, <1>4 DEF Next

--------------------------------------------------------------------------------
(* The accounts, the answers and the challenges.                            *)

LEMMA RowsStep == IInv /\ [Next]_vars => Rows' /\ PaidOnce'
<1> SUFFICES ASSUME IInv, [Next]_vars PROVE Rows' /\ PaidOnce'
  OBVIOUS
<1>1. /\ TypeOK /\ Payments /\ Rows /\ PaidOnce /\ TypeOK' /\ Payments'
      /\ \A q \in Calls : Progress(q)
  BY TypeStep, PaymentsStep DEF IInv
<1>2. Rows' /\ \A a \in accounts' : <<a.by, a.code>> \in honoured'
  <2>1. ASSUME NEW q \in Calls, Ask(q) \/ Serve(q) \/ Fail(q)
        PROVE  Rows' /\ \A a \in accounts' : <<a.by, a.code>> \in honoured'
    <3>1. StepOf(q)
      BY <2>1, CallSteps
    <3>2. ASSUME NEW a \in accounts'
          PROVE  /\ a.code = Code(a.by)' /\ pc'[a.by] \in {"connected", "failed"}
                 /\ <<a.by, a.code>> \in honoured'
      <4>1. CASE a \in accounts
        <5>1. a.by \in Calls /\ a.by # q
          BY <1>1, <3>1, <4>1 DEF StepOf, Rows, TypeOK, Ended
        <5>. QED BY <1>1, <3>1, <4>1, <5>1 DEF StepOf, Rows, PaidOnce, Code
      <4>2. CASE a \notin accounts
        <5>1. /\ a.by = q /\ a.code = Code(q) /\ pc[q] = "commit" /\ call'[q] = call[q]
              /\ pc'[q] \in {"connected", "failed"} /\ honoured \subseteq honoured'
          BY <3>1, <4>2 DEF StepOf
        <5>2. Paid(q)
          BY <1>1, <5>1 DEF Progress, Storing
        <5>. QED BY <5>1, <5>2 DEF Code, Paid
      <4>. QED BY <4>1, <4>2
    <3>. QED BY <3>2 DEF Rows
  <2>2. CASE UNCHANGED <<accounts, pc, call, honoured>>
    BY <1>1, <2>2 DEF Rows, PaidOnce, Code
  <2>3. CASE \E p \in Pendings : Begin(p) \/ Expire(p) \/ \E c \in Codes : Consent(c, p)
    BY <2>2, <2>3 DEF Begin, Expire, Consent, provider
  <2>. QED BY <2>1, <2>2, <2>3 DEF Next, vars, provider
<1>3. PaidOnce'
  <2>1. ASSUME NEW a \in accounts', a.code # Key
        PROVE  <<a.code, Pending(a.by)'>> \in grants'
    BY <1>1, <1>2, <2>1 DEF Payments
  <2>2. ASSUME NEW a \in accounts', NEW b \in accounts', a.code # Key, b.code = a.code
        PROVE  b = a
    <3>1. a.by = b.by
      BY <1>1, <1>2, <2>2 DEF Payments
    <3>. QED BY <1>1, <2>2, <3>1 DEF TypeOK
  <2>. QED BY <1>2, <2>1, <2>2 DEF PaidOnce
<1>. QED BY <1>2, <1>3

LEMMA AnswerStep == IInv /\ [Next]_vars => AnswerIsTrue'
<1> SUFFICES ASSUME IInv, [Next]_vars, NEW r \in Calls
             PROVE  /\ pc'[r] = "connected" => \E a \in accounts' : a.by = r
                    /\ (\E a \in accounts' : a.by = r) => pc'[r] \in {"connected", "failed"}
                    /\ pc'[r] \in {"forged", "unknown", "pending"} =>
                         ~\E h \in honoured' : h[1] = r
  BY DEF AnswerIsTrue
<1>1. /\ Rows' /\ Progress(r)' /\ TypeOK
      /\ pc[r] = "connected" => \E a \in accounts : a.by = r
  BY RowsStep, ProgressStep DEF IInv, AnswerIsTrue
<1>2. pc'[r] = "connected" => \E a \in accounts' : a.by = r
  <2>1. CASE UNCHANGED <<accounts, pc>>
    BY <1>1, <2>1
  <2>2. ASSUME NEW q \in Calls, Ask(q) \/ Serve(q) \/ Fail(q), pc'[r] = "connected"
        PROVE  \E a \in accounts' : a.by = r
    <3>1. StepOf(q)
      BY <2>2, CallSteps
    <3>2. CASE pc[r] = "connected"
      BY <1>1, <3>1, <3>2 DEF StepOf
    <3>3. CASE pc[r] # "connected"
      <4>1. q = r
        BY <2>2, <3>1, <3>3 DEF StepOf
      <4>2. Commit(q)
        BY <1>1, <2>2, <3>3, <4>1
           DEF TypeOK, Ask, Serve, Fail, Look, Poll, Exchange, Validate, NotAccepted,
               Persist, Consume, Discard, RetryOrGiveUp, GiveUp, Goto
      <4>3. [by |-> q, code |-> Code(q)] \in accounts'
        BY <4>2 DEF Commit
      <4>. QED BY <4>1, <4>3
    <3>. QED BY <3>2, <3>3
  <2>3. CASE \E p \in Pendings : Begin(p) \/ Expire(p) \/ \E c \in Codes : Consent(c, p)
    BY <2>1, <2>3 DEF Begin, Expire, Consent
  <2>. QED BY <2>1, <2>2, <2>3 DEF Next, vars
<1>. QED BY <1>1, <1>2 DEF Rows, Progress

(* A challenge that is gone stays gone: an id is drawn once.                *)
LEMMA GoneStaysGone ==
    IInv /\ [Next]_vars => /\ begun \subseteq begun' /\ expired \subseteq expired'
                          /\ (begun \ store) \subseteq (begun' \ store')
<1> SUFFICES ASSUME IInv, [Next]_vars
             PROVE  /\ begun \subseteq begun' /\ expired \subseteq expired'
                    /\ (begun \ store) \subseteq (begun' \ store')
  OBVIOUS
<1>1. CASE \E q \in Calls : Ask(q) \/ Serve(q) \/ Fail(q)
  BY <1>1, CallSteps DEF StepOf
<1>2. CASE \E p \in Pendings : Begin(p) \/ Expire(p) \/ \E c \in Codes : Consent(c, p)
  BY <1>2 DEF Begin, Expire, Consent, challenge
<1>3. CASE UNCHANGED vars
  BY <1>3 DEF vars, challenge
<1>. QED BY <1>1, <1>2, <1>3 DEF Next

(* What a call that has ended was asked, and how it ended, stays.           *)
LEMMA EndedStays ==
    ASSUME IInv, [Next]_vars, NEW r \in Calls, pc[r] \in Ended
    PROVE  pc'[r] = pc[r] /\ call'[r] = call[r]
<1>1. CASE \E q \in Calls : Ask(q) \/ Serve(q) \/ Fail(q)
  <2> PICK q \in Calls : Ask(q) \/ Serve(q) \/ Fail(q)
    BY <1>1
  <2>. QED BY CallSteps DEF StepOf
<1>2. CASE UNCHANGED <<pc, call>>
  BY <1>2
<1>. QED BY <1>1, <1>2 DEF Next, vars, Begin, Expire, Consent

LEMMA SuccessStep == IInv /\ [Next]_vars => ConsumedBySuccess'
<1> SUFFICES ASSUME IInv, [Next]_vars, NEW a \in accounts', a.code # Key
             PROVE  call'[a.by].pending \in begun' \ store'
  BY DEF ConsumedBySuccess, Pending
<1>1. TypeOK /\ Rows /\ ConsumedBySuccess
  BY DEF IInv
<1>2. CASE a \in accounts
  <2>1. a.by \in Calls /\ pc[a.by] \in Ended
    BY <1>1, <1>2 DEF TypeOK, Rows, Ended
  <2>. QED BY <1>1, <1>2, <2>1, EndedStays, GoneStaysGone DEF ConsumedBySuccess, Pending
<1>3. CASE a \notin accounts
  <2>1. PICK q \in Calls : Ask(q) \/ Serve(q) \/ Fail(q)
    BY <1>3 DEF Next, vars, Begin, Expire, Consent
  <2>2. /\ a = [by |-> q, code |-> Code(q)] /\ pc[q] = "commit" /\ call'[q] = call[q]
    BY <1>3, <2>1, CallSteps DEF StepOf
  <2>3. Pending(q) \in begun \ store
    BY <2>2 DEF IInv, Progress
  <2>. QED BY <2>2, <2>3, GoneStaysGone DEF Pending
<1>. QED BY <1>2, <1>3

LEMMA RefusalStep == IInv /\ [Next]_vars => ConsumedByRefusal'
<1> SUFFICES ASSUME IInv, [Next]_vars, NEW r \in Calls, pc'[r] \in {"forged", "rejected"}
             PROVE  call'[r].pending \in begun' \ store'
  BY DEF ConsumedByRefusal, Pending
<1>1. CASE pc[r] \in {"forged", "rejected"}
  BY <1>1, EndedStays, GoneStaysGone DEF IInv, ConsumedByRefusal, Pending, Ended
<1>2. CASE pc[r] \notin {"forged", "rejected"}
  <2>1. PICK q \in Calls : Ask(q) \/ Serve(q) \/ Fail(q)
    BY <1>2 DEF Next, vars, Begin, Expire, Consent
  <2>2. q = r
    BY <1>2, <2>1, CallSteps DEF StepOf
  <2>3. Discard(r)
    BY <1>2, <2>1, <2>2 DEF IInv, TypeOK, Ask, Serve, Fail, Look, Poll, Exchange, Validate,
       NotAccepted, Persist, Consume, Commit, RetryOrGiveUp, GiveUp, Goto
  <2>4. Pending(r) \in begun
    BY <2>3 DEF IInv, Progress, Discard
  <2>. QED BY <2>3, <2>4 DEF Discard, Pending
<1>. QED BY <1>1, <1>2

CauseIn(p, q) ==
    /\ Pending(q) = p /\ Kind(q) # "key"
    /\ \/ pc[q] \in {"forged", "rejected"}
       \/ Paid(q) /\ pc[q] \in {"commit", "connected", "failed"}

(* A call that is the cause of a challenge's end stays so: what it has paid *)
(* for is paid, and from its commit it can only end.                        *)
LEMMA CauseStays ==
    ASSUME IInv, [Next]_vars, NEW p, NEW r \in Calls, CauseIn(p, r)
    PROVE  CauseIn(p, r)'
<1> USE DEF CauseIn, Pending, Kind, Code, Paid
<1>1. CASE pc[r] \in Ended
  <2>1. honoured \subseteq honoured'
    <3>1. CASE \E q \in Calls : Ask(q) \/ Serve(q) \/ Fail(q)
      BY <3>1, CallSteps DEF StepOf
    <3>2. CASE UNCHANGED honoured
      BY <3>2
    <3>. QED BY <3>1, <3>2 DEF Next, vars, provider, Begin, Expire, Consent
  <2>. QED BY <1>1, <2>1, EndedStays
<1>2. CASE pc[r] = "commit"
  <2>1. CASE UNCHANGED <<pc, call, honoured>>
    BY <1>2, <2>1
  <2>2. CASE \E q \in Calls : Ask(q) \/ Serve(q) \/ Fail(q)
    <3> PICK q \in Calls : Ask(q) \/ Serve(q) \/ Fail(q)
      BY <2>2
    <3>1. StepOf(q)
      BY CallSteps
    <3>2. CASE q # r
      BY <1>2, <3>1, <3>2 DEF StepOf
    <3>3. CASE q = r
      <4>1. Commit(r) \/ Fail(r)
        BY <1>2, <3>3 DEF Ask, Serve, Look, Poll, Exchange, Validate, NotAccepted, Persist,
                          Consume, Discard
      <4>2. pc'[r] \in {"connected", "failed"}
        BY <4>1 DEF Commit, Fail, Goto, IInv, TypeOK
      <4>. QED BY <1>2, <3>1, <3>3, <4>2 DEF StepOf
    <3>. QED BY <3>2, <3>3
  <2>. QED BY <2>1, <2>2 DEF Next, vars, provider, Begin, Expire, Consent
<1>. QED BY <1>1, <1>2 DEF Ended

LEMMA CauseStep == IInv /\ [Next]_vars => ConsumedForCause'
<1> SUFFICES ASSUME IInv, [Next]_vars, NEW p \in begun' \ store', p \notin expired'
             PROVE  \E q \in Calls : CauseIn(p, q)'
  BY DEF ConsumedForCause, CauseIn
<1>1. CASE p \in begun \ store
  <2>1. p \notin expired
    BY GoneStaysGone
  <2>2. PICK q \in Calls : CauseIn(p, q)
    BY <1>1, <2>1 DEF IInv, ConsumedForCause, CauseIn
  <2>. QED BY <2>2, CauseStays
<1>2. CASE p \notin begun \ store
  <2>1. PICK q \in Calls : Ask(q) \/ Serve(q) \/ Fail(q)
    BY <1>2 DEF Next, vars, challenge, Begin, Expire, Consent
  <2>2. /\ p = Pending(q) /\ store' # store /\ call'[q] = call[q]
    BY <1>2, <2>1, CallSteps DEF StepOf
  <2>3. Consume(q) \/ Discard(q)
    BY <2>1, <2>2 DEF Ask, Serve, Fail, Look, Poll, Exchange, Validate, NotAccepted, Persist,
                      Commit, challenge
  <2>4. Kind(q) # "key" /\ pc \in [Calls -> PCs]
    BY <2>3 DEF Consume, Discard, IInv, Progress, TypeOK
  <2>5. CASE Consume(q)
    <3>1. Paid(q) /\ honoured' = honoured /\ pc'[q] = "commit"
      BY <2>4, <2>5 DEF Consume, Goto, IInv, Progress, Storing, provider
    <3>. QED BY <2>2, <2>4, <3>1 DEF CauseIn, Pending, Kind, Paid, Code
  <2>6. CASE Discard(q)
    <3>1. pc'[q] \in {"forged", "rejected"}
      BY <2>4, <2>6 DEF Discard, Goto
    <3>. QED BY <2>2, <2>4, <3>1 DEF CauseIn, Pending, Kind
  <2>. QED BY <2>3, <2>5, <2>6
<1>. QED BY <1>1, <1>2

--------------------------------------------------------------------------------

THEOREM Invariance == Spec => []IInv
<1>1. Init => IInv
  BY InitInv
<1>2. IInv /\ [Next]_vars => IInv'
  <2> SUFFICES ASSUME IInv, [Next]_vars PROVE IInv'
    OBVIOUS
  <2>. QED BY TypeStep, PaymentsStep, ProgressStep, RowsStep, SuccessStep, RefusalStep,
              CauseStep, AnswerStep DEF IInv
<1>. QED BY <1>1, <1>2, PTL DEF Spec

(* Type correctness; the attempts of an exchange never exceed the setting. *)
THEOREM TypeCorrect == Spec => []TypeOK
<1>1. IInv => TypeOK
  BY DEF IInv
<1>. QED BY <1>1, Invariance, PTL

(* However completions interleave and exchanges are retried, an account is *)
(* the provider's answer to the call that stored it, and a code makes one. *)
THEOREM AccountsArePaidOnce == Spec => []PaidOnce
<1>1. IInv => PaidOnce
  BY DEF IInv
<1>. QED BY <1>1, Invariance, PTL

(* A challenge that made an account, or was refused for good, is gone, and  *)
(* no interleaving brings it back.                                          *)
THEOREM ChallengesAreConsumed == Spec => []ConsumedForGood
<1>1. IInv => ConsumedForGood
  BY DEF IInv, ConsumedForGood
<1>. QED BY <1>1, Invariance, PTL

(* A challenge that is gone expired, or one call redeemed, forged or lost   *)
(* it: other calls and other challenges have no part in it.                 *)
THEOREM ChallengesEndForCause == Spec => []ConsumedForCause
<1>1. IInv => ConsumedForCause
  BY DEF IInv
<1>. QED BY <1>1, Invariance, PTL

(* No call is told "connected" without an account, or refused with one.     *)
THEOREM AnswersAreTrue == Spec => []AnswerIsTrue
<1>1. IInv => AnswerIsTrue
  BY DEF IInv
<1>. QED BY <1>1, Invariance, PTL
================================================================================
