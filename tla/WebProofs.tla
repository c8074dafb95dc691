------------------------------ MODULE WebProofs ------------------------------
(***************************************************************************)
(* Proofs about the two conversations of the browser with the server, for  *)
(* any number of clients, steps, connections, users and bounds: the poll   *)
(* for events (EventFeed) and the requests (WebRequests).                  *)
(*                                                                         *)
(* A browser whose view of a step is old will hear of it, unless an answer *)
(* was lost or overtaken, or an object that stopped receiving took the     *)
(* event (StaleViewsArePursued).  The invariant adds why nothing else can  *)
(* go wrong: one object receives at a time, an object that was not loaded  *)
(* polls nothing and shows nothing, and no answer is newer than its step.  *)
(***************************************************************************)
EXTENDS EventFeed, WebRequests, SequenceTheorems, FiniteSetTheorems, TLAPS

Answers == [client : Clients, step : Steps, version : Nat]

FeedTypeOK ==
    /\ version \in [Steps -> Nat]
    /\ queue \in Seq(Steps)
    /\ receiving \in [Clients -> {"new", "yes", "no"}]
    /\ poll \in [Clients -> {"none", "asked", "waiting", "woken", "answered"}]
    /\ event \in [Clients -> Steps \union {Nothing}]
    /\ mapped \in [Clients -> SUBSET Steps]
    /\ fetches \in SUBSET (Clients \X Steps)
    /\ answers \in SUBSET Answers
    /\ view \in [Clients -> [Steps -> Nat]]
    /\ excused \in SUBSET (Clients \X (Steps \union {Nothing}))

(* Loading an object stops the one before. *)
OneReceives == \A c, d \in Clients : receiving[c] = "yes" /\ receiving[d] = "yes" => c = d

NewIsIdle == \A c \in Clients : receiving[c] = "new" => poll[c] = "none" /\ mapped[c] = {}

AnswersArePast == \A a \in answers : a.version <= version[a.step]

FeedIInv == FeedTypeOK /\ OneReceives /\ NewIsIdle /\ AnswersArePast /\ StaleViewsArePursued

-----------------------------------------------------------------------------
Stale(c, s) == s \in mapped[c] /\ receiving[c] = "yes" /\ view[c][s] # version[s]

Pursued(c, s) == OnItsWay(c, s) \/ <<c, s>> \in excused

LEMMA Pursue == StaleViewsArePursued <=> \A c \in Clients, s \in Steps : Stale(c, s) => Pursued(c, s)
BY DEF StaleViewsArePursued, Stale, Pursued

LEMMA InitPursues == FeedInit => FeedIInv
BY DEF FeedInit, FeedIInv, FeedTypeOK, OneReceives, NewIsIdle, AnswersArePast, StaleViewsArePursued

LEMMA UpdateKeeps ==
    ASSUME FeedIInv, NEW s \in Steps, Update(s)
    PROVE  FeedIInv'
<1>1. /\ FeedTypeOK /\ OneReceives /\ NewIsIdle /\ AnswersArePast /\ \A c \in Clients, t \in Steps : Stale(c, t) => Pursued(c, t)
      /\ version' = [version EXCEPT ![s] = @ + 1] /\ queue' = Append(queue, s)
      /\ UNCHANGED <<receiving, event, mapped, fetches, answers, view, excused>>
      /\ poll' = poll \/ \E c \in Clients : poll[c] = "waiting" /\ poll' = [poll EXCEPT ![c] = "woken"]
  <2>1. poll' = poll \/ \E c \in Clients : poll[c] = "waiting" /\ poll' = [poll EXCEPT ![c] = "woken"]
    <3> DEFINE waiting == {c \in Clients : poll[c] = "waiting"}
    <3>1. IF waiting = {} THEN UNCHANGED poll ELSE \E c \in waiting : poll' = [poll EXCEPT ![c] = "woken"]
      BY DEF Update
    <3>2. CASE waiting = {}
      BY <3>1, <3>2
    <3>3. CASE waiting # {}
      BY <3>1, <3>3
    <3> QED  BY <3>2, <3>3
  <2>2. UNCHANGED <<receiving, event, mapped, fetches, answers, view, excused>>
        /\ version' = [version EXCEPT ![s] = @ + 1] /\ queue' = Append(queue, s)
    BY DEF Update
  <2> QED  BY <2>1, <2>2, Pursue DEF FeedIInv
<1>2. /\ version' \in [Steps -> Nat] /\ version'[s] = version[s] + 1 /\ \A t \in Steps \ {s} : version'[t] = version[t]
      /\ poll' \in [Clients -> {"none", "asked", "waiting", "woken", "answered"}]
      /\ \A c \in Clients : poll'[c] = poll[c] \/ (poll[c] = "waiting" /\ poll'[c] = "woken")
  <2>1. /\ version' \in [Steps -> Nat] /\ version'[s] = version[s] + 1
        /\ \A t \in Steps \ {s} : version'[t] = version[t]
    BY <1>1 DEF FeedTypeOK
  <2>2. CASE poll' = poll
    BY <1>1, <2>1, <2>2 DEF FeedTypeOK
  <2>3. CASE \E c \in Clients : poll[c] = "waiting" /\ poll' = [poll EXCEPT ![c] = "woken"]
    <3>1. PICK c \in Clients : poll[c] = "waiting" /\ poll' = [poll EXCEPT ![c] = "woken"]
      BY <2>3
    <3> QED  BY <1>1, <2>1, <3>1 DEF FeedTypeOK
  <2> QED  BY <1>1, <2>2, <2>3
<1>3. /\ queue' \in Seq(Steps) /\ Len(queue') = Len(queue) + 1
      /\ \A i \in 1..Len(queue) : queue'[i] = queue[i]
      /\ queue'[Len(queue) + 1] = s /\ Len(queue) \in Nat
      /\ DOMAIN queue = 1..Len(queue) /\ DOMAIN queue' = 1..(Len(queue) + 1)
  BY <1>1, AppendProperties DEF FeedTypeOK
<1>4. FeedTypeOK' /\ OneReceives' /\ NewIsIdle' /\ AnswersArePast'
  <2>1. FeedTypeOK' /\ OneReceives' /\ NewIsIdle'
    BY <1>1, <1>2, <1>3 DEF FeedTypeOK, OneReceives, NewIsIdle
  <2>2. AnswersArePast'
    BY <1>1, <1>2 DEF AnswersArePast, FeedTypeOK, Answers
  <2> QED  BY <2>1, <2>2
<1>5. ASSUME NEW c \in Clients, NEW t \in Steps, Stale(c, t)'
      PROVE  Pursued(c, t)'
  <2>1. CASE t = s
    BY <1>3, <2>1 DEF Pursued, OnItsWay
  <2>2. CASE t # s
    <3>1. Pursued(c, t)
      BY <1>1, <1>2, <1>5, <2>2 DEF Stale
    <3>2. (\E i \in DOMAIN queue : queue[i] = t) => \E i \in DOMAIN queue' : queue'[i] = t
      BY <1>3
    <3> QED  BY <1>1, <1>2, <2>2, <3>1, <3>2 DEF Pursued, OnItsWay
  <2> QED  BY <2>1, <2>2
<1> QED  BY <1>4, <1>5, Pursue DEF FeedIInv, StaleViewsArePursued, Stale, Pursued

LEMMA ServePollKeeps ==
    ASSUME FeedIInv, NEW c \in Clients, ServePoll(c)
    PROVE  FeedIInv'
<1>1. /\ FeedTypeOK /\ OneReceives /\ NewIsIdle /\ AnswersArePast /\ \A d \in Clients, t \in Steps : Stale(d, t) => Pursued(d, t)
      /\ poll[c] \in {"asked", "woken"}
      /\ UNCHANGED <<version, receiving, mapped, fetches, answers, view, excused>>
  BY Pursue DEF FeedIInv, ServePoll
<1>2. CASE queue = <<>>
  <2>1. poll' = [poll EXCEPT ![c] = "waiting"] /\ UNCHANGED <<queue, event>>
    BY <1>2 DEF ServePoll
  <2>2. FeedTypeOK' /\ OneReceives' /\ NewIsIdle' /\ AnswersArePast'
    BY <1>1, <2>1 DEF FeedTypeOK, OneReceives, NewIsIdle, AnswersArePast
  <2>3. ASSUME NEW d \in Clients, NEW t \in Steps, Stale(d, t)'
        PROVE  Pursued(d, t)'
    BY <1>1, <2>1, <2>3 DEF Stale, Pursued, OnItsWay, FeedTypeOK
  <2> QED  BY <2>2, <2>3 DEF FeedIInv, StaleViewsArePursued, Stale, Pursued
<1>3. CASE queue # <<>>
  <2>1. /\ poll' = [poll EXCEPT ![c] = "answered"] /\ event' = [event EXCEPT ![c] = Head(queue)]
        /\ queue' = Tail(queue)
    BY <1>3 DEF ServePoll, Answer
  <2>2. /\ Head(queue) = queue[1] /\ queue[1] \in Steps /\ Tail(queue) \in Seq(Steps)
        /\ Len(queue) \in Nat \ {0} /\ DOMAIN queue = 1..Len(queue) /\ DOMAIN Tail(queue) = 1..(Len(queue) - 1)
        /\ \A i \in 1..(Len(queue) - 1) : Tail(queue)[i] = queue[i + 1]
    BY <1>1, <1>3, HeadTailProperties DEF FeedTypeOK
  <2>3. /\ event' \in [Clients -> Steps \union {Nothing}] /\ event'[c] = queue[1]
        /\ poll'[c] = "answered" /\ \A d \in Clients \ {c} : poll'[d] = poll[d] /\ event'[d] = event[d]
    BY <1>1, <2>1, <2>2 DEF FeedTypeOK
  <2>4. FeedTypeOK' /\ OneReceives' /\ NewIsIdle' /\ AnswersArePast'
    BY <1>1, <2>1, <2>2, <2>3 DEF FeedTypeOK, OneReceives, NewIsIdle, AnswersArePast
  <2>5. ASSUME NEW d \in Clients, NEW t \in Steps, Stale(d, t)'
        PROVE  Pursued(d, t)'
    <3>1. Pursued(d, t)
      BY <1>1, <2>5 DEF Stale
    <3>2. ASSUME NEW i \in DOMAIN queue, queue[i] = t
          PROVE  OnItsWay(d, t)'
      <4>1. CASE i = 1
        BY <2>3, <3>2, <4>1 DEF OnItsWay
      <4>2. CASE i # 1
        <5>1. i - 1 \in DOMAIN queue' /\ queue'[i - 1] = t
          BY <2>1, <2>2, <3>2, <4>2
        <5> QED  BY <5>1 DEF OnItsWay
      <4> QED  BY <4>1, <4>2
    <3>3. ASSUME NEW e \in Clients, poll[e] = "answered", event[e] = t
          PROVE  OnItsWay(d, t)'
      BY <1>1, <2>3, <3>3 DEF OnItsWay
    <3> QED  BY <1>1, <3>1, <3>2, <3>3 DEF Pursued, OnItsWay
  <2> QED  BY <2>4, <2>5 DEF FeedIInv, StaleViewsArePursued, Stale, Pursued
<1> QED  BY <1>2, <1>3

LEMMA PollTimeoutKeeps ==
    ASSUME FeedIInv, NEW c \in Clients, PollTimeout(c)
    PROVE  FeedIInv'
<1>1. /\ FeedTypeOK /\ OneReceives /\ NewIsIdle /\ AnswersArePast /\ \A d \in Clients, t \in Steps : Stale(d, t) => Pursued(d, t)
      /\ poll[c] \in {"waiting", "woken"}
      /\ poll' = [poll EXCEPT ![c] = "answered"] /\ event' = [event EXCEPT ![c] = Nothing]
      /\ UNCHANGED <<version, queue, receiving, mapped, fetches, answers, view, excused>>
  BY Pursue DEF FeedIInv, PollTimeout, Answer
<1>2. FeedTypeOK' /\ OneReceives' /\ NewIsIdle' /\ AnswersArePast'
  BY <1>1 DEF FeedTypeOK, OneReceives, NewIsIdle, AnswersArePast
<1>3. \A d \in Clients : poll[d] = "answered" => poll'[d] = "answered" /\ event'[d] = event[d]
  BY <1>1 DEF FeedTypeOK
<1>4. ASSUME NEW d \in Clients, NEW t \in Steps, Stale(d, t)'
      PROVE  Pursued(d, t)'
  BY <1>1, <1>3, <1>4 DEF Stale, Pursued, OnItsWay
<1> QED  BY <1>2, <1>4 DEF FeedIInv, StaleViewsArePursued, Stale, Pursued

LEMMA LoadKeeps ==
    ASSUME FeedIInv, NEW c \in Clients, Load(c)
    PROVE  FeedIInv'
<1>1. /\ FeedTypeOK /\ OneReceives /\ NewIsIdle /\ AnswersArePast /\ \A d \in Clients, t \in Steps : Stale(d, t) => Pursued(d, t)
      /\ receiving[c] = "new"
      /\ receiving' = [d \in Clients |-> IF d = c THEN "yes" ELSE IF receiving[d] = "yes" THEN "no" ELSE receiving[d]]
      /\ poll' = [poll EXCEPT ![c] = "asked"]
      /\ UNCHANGED <<version, queue, event, mapped, fetches, answers, view, excused>>
  BY Pursue DEF FeedIInv, Load
<1>2. FeedTypeOK' /\ OneReceives' /\ NewIsIdle' /\ AnswersArePast'
  BY <1>1 DEF FeedTypeOK, OneReceives, NewIsIdle, AnswersArePast
<1>3. ASSUME NEW d \in Clients, NEW t \in Steps, Stale(d, t)'
      PROVE  Pursued(d, t)'
  BY <1>1, <1>3 DEF Stale, NewIsIdle, FeedTypeOK
<1> QED  BY <1>2, <1>3 DEF FeedIInv, StaleViewsArePursued, Stale, Pursued

LEMMA LoadStepKeeps ==
    ASSUME FeedIInv, NEW c \in Clients, NEW s \in Steps, LoadStep(c, s)
    PROVE  FeedIInv'
<1>1. /\ FeedTypeOK /\ OneReceives /\ NewIsIdle /\ AnswersArePast /\ \A d \in Clients, t \in Steps : Stale(d, t) => Pursued(d, t)
      /\ receiving[c] # "new"
      /\ mapped' = [mapped EXCEPT ![c] = @ \union {s}]
      /\ fetches' = fetches \union {<<c, s>>}
      /\ UNCHANGED <<version, queue, receiving, poll, event, answers, view, excused>>
  BY Pursue DEF FeedIInv, LoadStep, Loaded
<1>2. FeedTypeOK' /\ OneReceives' /\ NewIsIdle' /\ AnswersArePast'
  BY <1>1 DEF FeedTypeOK, OneReceives, NewIsIdle, AnswersArePast
<1>3. ASSUME NEW d \in Clients, NEW t \in Steps, Stale(d, t)'
      PROVE  Pursued(d, t)'
  <2>1. CASE d = c /\ t = s
    BY <1>1, <2>1 DEF Pursued, OnItsWay
  <2>2. CASE ~(d = c /\ t = s)
    BY <1>1, <1>3, <2>2 DEF Stale, Pursued, OnItsWay, FeedTypeOK
  <2> QED  BY <2>1, <2>2
<1> QED  BY <1>2, <1>3 DEF FeedIInv, StaleViewsArePursued, Stale, Pursued
LEMMA ReceiveEventKeeps ==
    ASSUME FeedIInv, NEW c \in Clients, ReceiveEvent(c)
    PROVE  FeedIInv'
<1>1. /\ FeedTypeOK /\ OneReceives /\ NewIsIdle /\ AnswersArePast /\ \A d \in Clients, t \in Steps : Stale(d, t) => Pursued(d, t)
      /\ poll[c] = "answered" /\ poll' = [poll EXCEPT ![c] = IF receiving[c] = "yes" THEN "asked" ELSE "none"]
      /\ fetches' = IF receiving[c] = "yes" /\ event[c] \in mapped[c]
                    THEN fetches \union {<<c, event[c]>>} ELSE fetches
      /\ excused' = IF receiving[c] = "yes" THEN excused ELSE excused \union (Clients \X {event[c]})
      /\ UNCHANGED <<version, queue, receiving, event, mapped, answers, view>>
  BY Pursue DEF FeedIInv, ReceiveEvent, PollAgain
<1>2. /\ event[c] \in Steps \union {Nothing} /\ mapped[c] \in SUBSET Steps
      /\ \A d \in Clients \ {c} : poll'[d] = poll[d]
  BY <1>1 DEF FeedTypeOK
<1>3. /\ fetches \subseteq fetches' /\ excused \subseteq excused'
      /\ fetches' \in SUBSET (Clients \X Steps) /\ excused' \in SUBSET (Clients \X (Steps \union {Nothing}))
  BY <1>1, <1>2 DEF FeedTypeOK
<1>4. poll' \in [Clients -> {"none", "asked", "waiting", "woken", "answered"}]
  BY <1>1 DEF FeedTypeOK
<1>5. FeedTypeOK' /\ OneReceives' /\ NewIsIdle' /\ AnswersArePast'
  <2>1. FeedTypeOK'
    BY <1>1, <1>3, <1>4 DEF FeedTypeOK
  <2> QED  BY <1>1, <2>1 DEF OneReceives, NewIsIdle, AnswersArePast
<1>6. ASSUME NEW d \in Clients, NEW t \in Steps, Stale(d, t)'
      PROVE  Pursued(d, t)'
  <2>1. Pursued(d, t) /\ t \in mapped[d] /\ receiving[d] = "yes"
    BY <1>1, <1>6 DEF Stale
  <2>2. CASE event[c] = t
    <3>1. CASE receiving[c] = "yes"
      <4>1. d = c
        BY <1>1, <2>1, <3>1 DEF OneReceives
      <4> QED  BY <1>1, <2>1, <2>2, <3>1, <4>1 DEF Pursued, OnItsWay
    <3>2. CASE receiving[c] # "yes"
      BY <1>1, <2>2, <3>2 DEF Pursued
    <3> QED  BY <3>1, <3>2
  <2>3. CASE event[c] # t
    BY <1>1, <1>2, <1>3, <2>1, <2>3 DEF Pursued, OnItsWay
  <2> QED  BY <2>2, <2>3
<1> QED  BY <1>5, <1>6 DEF FeedIInv, StaleViewsArePursued, Stale, Pursued

LEMMA LosePollKeeps ==
    ASSUME FeedIInv, NEW c \in Clients, LosePoll(c)
    PROVE  FeedIInv'
<1>1. /\ FeedTypeOK /\ OneReceives /\ NewIsIdle /\ AnswersArePast /\ \A d \in Clients, t \in Steps : Stale(d, t) => Pursued(d, t)
      /\ poll[c] = "answered" /\ poll' = [poll EXCEPT ![c] = IF receiving[c] = "yes" THEN "asked" ELSE "none"]
      /\ excused' = excused \union (Clients \X {event[c]})
      /\ UNCHANGED <<version, queue, receiving, event, mapped, fetches, answers, view>>
  BY Pursue DEF FeedIInv, LosePoll, PollAgain
<1>2. /\ event[c] \in Steps \union {Nothing}
      /\ \A d \in Clients \ {c} : poll'[d] = poll[d]
      /\ poll' \in [Clients -> {"none", "asked", "waiting", "woken", "answered"}]
  BY <1>1 DEF FeedTypeOK
<1>3. FeedTypeOK' /\ OneReceives' /\ NewIsIdle' /\ AnswersArePast'
  BY <1>1, <1>2 DEF FeedTypeOK, OneReceives, NewIsIdle, AnswersArePast
<1>4. ASSUME NEW d \in Clients, NEW t \in Steps, Stale(d, t)'
      PROVE  Pursued(d, t)'
  <2>1. Pursued(d, t)
    BY <1>1, <1>4 DEF Stale
  <2>2. CASE event[c] = t
    BY <1>1, <2>2 DEF Pursued
  <2>3. CASE event[c] # t
    BY <1>1, <1>2, <2>1, <2>3 DEF Pursued, OnItsWay
  <2> QED  BY <2>2, <2>3
<1> QED  BY <1>3, <1>4 DEF FeedIInv, StaleViewsArePursued, Stale, Pursued

LEMMA ServeFetchKeeps ==
    ASSUME FeedIInv, NEW c \in Clients, NEW s \in Steps, ServeFetch(c, s)
    PROVE  FeedIInv'
<1> DEFINE new == [client |-> c, step |-> s, version |-> version[s]]
<1>1. /\ FeedTypeOK /\ OneReceives /\ NewIsIdle /\ AnswersArePast /\ \A d \in Clients, t \in Steps : Stale(d, t) => Pursued(d, t)
      /\ fetches' = fetches \ {<<c, s>>} /\ answers' = answers \union {new}
      /\ UNCHANGED <<version, queue, receiving, poll, event, mapped, view, excused>>
  BY Pursue DEF FeedIInv, ServeFetch
<1>2. new \in Answers /\ new.version = version[new.step] /\ version[s] \in Nat
  BY <1>1 DEF Answers, FeedTypeOK
<1>3. FeedTypeOK' /\ OneReceives' /\ NewIsIdle' /\ AnswersArePast'
  <2> HIDE DEF new
  <2>1. fetches' \in SUBSET (Clients \X Steps) /\ answers' \in SUBSET Answers
    BY <1>1, <1>2 DEF FeedTypeOK
  <2>2. AnswersArePast'
    <3>1. \A a \in answers : a.version <= version[a.step]
      BY <1>1 DEF AnswersArePast
    <3>2. new.version <= version[new.step]
      <4>1. new.version \in Nat
        BY <1>2 DEF Answers
      <4> QED  BY <1>2, <4>1
    <3> QED  BY <1>1, <3>1, <3>2 DEF AnswersArePast
  <2> QED  BY <1>1, <2>1, <2>2 DEF FeedTypeOK, OneReceives, NewIsIdle
<1>4. ASSUME NEW d \in Clients, NEW t \in Steps, Stale(d, t)'
      PROVE  Pursued(d, t)'
  <2>1. Pursued(d, t)
    BY <1>1, <1>4 DEF Stale
  <2>2. CASE d = c /\ t = s
    BY <1>1, <2>2 DEF Pursued, OnItsWay
  <2>3. CASE ~(d = c /\ t = s)
    <3>1. <<d, t>> \in fetches => <<d, t>> \in fetches'
      BY <1>1, <2>3
    <3> QED  BY <1>1, <2>1, <3>1 DEF Pursued, OnItsWay
  <2> QED  BY <2>2, <2>3
<1> QED  BY <1>3, <1>4 DEF FeedIInv, StaleViewsArePursued, Stale, Pursued

LEMMA ReloadDoneKeeps ==
    ASSUME FeedIInv, NEW a \in answers, ReloadDone(a)
    PROVE  FeedIInv'
<1>1. /\ FeedTypeOK /\ OneReceives /\ NewIsIdle /\ AnswersArePast /\ \A d \in Clients, t \in Steps : Stale(d, t) => Pursued(d, t)
      /\ answers' = answers \ {a}
      /\ view' = [view EXCEPT ![a.client][a.step] = a.version]
      /\ excused' = IF a.version < view[a.client][a.step]
                    THEN excused \union {<<a.client, a.step>>} ELSE excused
      /\ UNCHANGED <<version, queue, receiving, poll, event, mapped, fetches>>
  BY Pursue DEF FeedIInv, ReloadDone
<1>2. a \in Answers /\ a.client \in Clients /\ a.step \in Steps /\ a.version \in Nat /\ a.version <= version[a.step]
  BY <1>1 DEF FeedTypeOK, Answers, AnswersArePast
<1>3. PICK c \in Clients, s \in Steps, n \in Nat : c = a.client /\ s = a.step /\ n = a.version
  BY <1>2
<1>4. /\ view' \in [Clients -> [Steps -> Nat]] /\ view'[c][s] = n
      /\ \A d \in Clients, t \in Steps : ~(d = c /\ t = s) => view'[d][t] = view[d][t]
  <2>1. view' = [view EXCEPT ![c][s] = n] /\ view \in [Clients -> [Steps -> Nat]]
    BY <1>1, <1>3 DEF FeedTypeOK
  <2> QED  BY <2>1
<1>5. FeedTypeOK' /\ OneReceives' /\ NewIsIdle' /\ AnswersArePast'
  <2>1. excused' \in SUBSET (Clients \X (Steps \union {Nothing})) /\ excused \subseteq excused'
    BY <1>1, <1>2 DEF FeedTypeOK
  <2> QED  BY <1>1, <1>4, <2>1 DEF FeedTypeOK, OneReceives, NewIsIdle, AnswersArePast
<1>6. ASSUME NEW d \in Clients, NEW t \in Steps, Stale(d, t)'
      PROVE  Pursued(d, t)'
  <2>1. CASE ~(d = c /\ t = s)
    <3>1. Pursued(d, t)
      BY <1>1, <1>4, <1>6, <2>1 DEF Stale
    <3> DEFINE sought == [client |-> d, step |-> t, version |-> version[t]]
    <3>2. sought # a
      BY <1>3, <2>1
    <3> QED  BY <1>1, <3>1, <3>2 DEF Pursued, OnItsWay
  <2>2. CASE d = c /\ t = s
    <3>1. n # version[s] /\ n <= version[s]
      BY <1>1, <1>2, <1>3, <1>4, <1>6, <2>2 DEF Stale
    <3> DEFINE sought == [client |-> c, step |-> s, version |-> version[s]]
    <3>2. sought # a
      BY <1>3, <3>1
    <3>3. CASE n < view[c][s]
      BY <1>1, <1>3, <2>2, <3>3 DEF Pursued
    <3>4. CASE ~(n < view[c][s])
      <4>1. view[c][s] # version[s]
        <5>1. version[s] \in Nat /\ view[c][s] \in Nat
          BY <1>1 DEF FeedTypeOK
        <5> QED  BY <3>1, <3>4, <5>1
      <4>2. Pursued(c, s)
        BY <1>1, <1>6, <2>2, <4>1 DEF Stale
      <4> QED  BY <1>1, <1>3, <2>2, <3>2, <4>2 DEF Pursued, OnItsWay
    <3> QED  BY <3>3, <3>4
  <2> QED  BY <2>1, <2>2
<1> QED  BY <1>5, <1>6 DEF FeedIInv, StaleViewsArePursued, Stale, Pursued

LEMMA LoseFetchKeeps ==
    ASSUME FeedIInv, NEW a \in answers, LoseFetch(a)
    PROVE  FeedIInv'
<1>1. /\ FeedTypeOK /\ OneReceives /\ NewIsIdle /\ AnswersArePast /\ \A d \in Clients, t \in Steps : Stale(d, t) => Pursued(d, t)
      /\ answers' = answers \ {a} /\ excused' = excused \union {<<a.client, a.step>>}
      /\ UNCHANGED <<version, queue, receiving, poll, event, mapped, fetches, view>>
  BY Pursue DEF FeedIInv, LoseFetch
<1>2. a.client \in Clients /\ a.step \in Steps
  BY <1>1 DEF FeedTypeOK, Answers
<1>3. FeedTypeOK' /\ OneReceives' /\ NewIsIdle' /\ AnswersArePast'
  BY <1>1, <1>2 DEF FeedTypeOK, OneReceives, NewIsIdle, AnswersArePast
<1>4. ASSUME NEW d \in Clients, NEW t \in Steps, Stale(d, t)'
      PROVE  Pursued(d, t)'
  <2>1. Pursued(d, t)
    BY <1>1, <1>4 DEF Stale
  <2>2. CASE d = a.client /\ t = a.step
    BY <1>1, <2>2 DEF Pursued
  <2>3. CASE ~(d = a.client /\ t = a.step)
    <3> DEFINE sought == [client |-> d, step |-> t, version |-> version[t]]
    <3>1. sought # a
      BY <2>3
    <3> QED  BY <1>1, <2>1, <3>1 DEF Pursued, OnItsWay
  <2> QED  BY <2>2, <2>3
<1> QED  BY <1>3, <1>4 DEF FeedIInv, StaleViewsArePursued, Stale, Pursued

LEMMA NextPursues == FeedIInv /\ [FeedNext]_feedVars => FeedIInv'
<1> SUFFICES ASSUME FeedIInv, [FeedNext]_feedVars
             PROVE  FeedIInv'
  OBVIOUS
<1>1. ASSUME NEW s \in Steps, Update(s)
      PROVE  FeedIInv'
  BY <1>1, UpdateKeeps
<1>2. ASSUME NEW c \in Clients, \/ ServePoll(c) \/ PollTimeout(c) \/ Load(c)
                                \/ ReceiveEvent(c) \/ LosePoll(c)
      PROVE  FeedIInv'
  BY <1>2, ServePollKeeps, PollTimeoutKeeps, LoadKeeps, ReceiveEventKeeps, LosePollKeeps
<1>3. ASSUME NEW c \in Clients, NEW s \in Steps, LoadStep(c, s) \/ ServeFetch(c, s)
      PROVE  FeedIInv'
  BY <1>3, LoadStepKeeps, ServeFetchKeeps
<1>4. ASSUME NEW a \in answers, ReloadDone(a) \/ LoseFetch(a)
      PROVE  FeedIInv'
  BY <1>4, ReloadDoneKeeps, LoseFetchKeeps
<1>5. CASE UNCHANGED feedVars
  BY <1>5 DEF feedVars, FeedIInv, FeedTypeOK, OneReceives, NewIsIdle, AnswersArePast, StaleViewsArePursued, OnItsWay
<1> QED  BY <1>1, <1>2, <1>3, <1>4, <1>5 DEF FeedNext

-----------------------------------------------------------------------------
(* Whatever the number of objects, steps and changes: a view that is old   *)
(* is pursued by an event, a fetch or an answer with the present status,   *)
(* unless an answer was lost or overtaken (receive_event of workset.ts,    *)
(* reload of tree_workset.ts, the queue of workset.cpp).                   *)
THEOREM OldViewsPursued == FeedSpec => []StaleViewsArePursued
<1>1. FeedIInv => StaleViewsArePursued
  BY DEF FeedIInv
<1> QED  BY <1>1, InitPursues, NextPursues, PTL DEF FeedSpec

-----------------------------------------------------------------------------
(* Sessions, tickets and requests: a ticket waits for an open session that *)
(* nobody has been told of, and all data is kept up to the maximum.        *)
Requests == [kind : Kinds \union {"none"}, post : BOOLEAN, cookie : All \union {NoSession},
             id : Nat, chunks : Nat]
Places == {"idle", "new", "uploading", "replying"}
Connections == [pc : Places, req : Requests, received : Nat, kept : Nat, status : Nat]

RequestsTypeOK ==
    /\ sessions \subseteq Users /\ tickets \subseteq Users
    /\ guestOpen \in BOOLEAN /\ crashed \in BOOLEAN
    /\ worksets \in [All -> SUBSET Nat] /\ loaded \in [All -> SUBSET Nat]
    /\ newId \in [All -> Nat] /\ granted \in [All -> Nat]
    /\ conn \in [Conns -> Connections]

(* A ticket waits for an open session that nobody has been told of. *)
TicketsFresh ==
    /\ \A s \in All : granted[s] <= 1
    /\ \A s \in tickets : s \in sessions /\ granted[s] = 0
    /\ \A s \in All : granted[s] > 0 => s \in sessions

(* All data is kept up to one piece more than the maximum. *)
DataKept ==
    \A c \in Conns : /\ conn[c].kept <= conn[c].received
                     /\ conn[c].kept < conn[c].received => conn[c].kept > MaxPostChunks

IdsBelow == \A s \in All : worksets[s] \subseteq 0..(newId[s] - 1)

(* A request that waits for data is one on a workset that once existed, of *)
(* a session that will not change.                                         *)
CookiesKnown ==
    \A c \in Conns : Req(c).kind # "ticket" => Req(c).cookie \in sessions \union {Guest, NoSession}

UploadsNamed ==
    \A c \in Conns : conn[c].pc = "uploading" =>
       /\ Req(c).kind # "ticket" /\ SessionOf(Req(c)) \in All
       /\ Req(c).id \in 0..(newId[SessionOf(Req(c))] - 1)

RequestsIInv == RequestsTypeOK /\ TicketsFresh /\ DataKept /\ IdsBelow /\ CookiesKnown /\ UploadsNamed
            /\ HealthyServerStaysUp

-----------------------------------------------------------------------------
LEMMA IdleTyped == IdleConn \in Connections
BY DEF IdleConn, Begun, NoRequest, Connections, Requests, Places

LEMMA SessionFound ==
    ASSUME RequestsTypeOK, NEW c \in Conns
    PROVE  SessionOf(Req(c)) \in All \union {NoSession}
BY DEF RequestsTypeOK, Connections, Requests, SessionOf, Req, All

(* What a step of a connection does to its own record *)
LEMMA Replied ==
    ASSUME RequestsIInv, NEW c \in Conns, NEW status \in Nat, Reply(c, status)
    PROVE  /\ conn' \in [Conns -> Connections]
           /\ DataKept'
BY DEF RequestsIInv, RequestsTypeOK, Connections, Reply, DataKept, Places

(* The requests of the other connections stay what they were, and so does  *)
(* this one's unless it is dropped.                                        *)
LEMMA Carried ==
    ASSUME RequestsIInv, NEW c \in Conns, UNCHANGED <<sessions, guestOpen>>,
           newId' \in [All -> Nat], \A s \in All : newId[s] <= newId'[s],
           \A d \in Conns \ {c} : conn'[d] = conn[d],
           \/ conn'[c].req = Req(c) /\ (conn'[c].pc = "uploading" => conn[c].pc = "uploading")
           \/ /\ conn'[c].pc # "uploading"
              /\ conn'[c].req.kind # "ticket" => conn'[c].req.cookie \in sessions \union {Guest, NoSession}
    PROVE  CookiesKnown' /\ UploadsNamed'
<1>1. CookiesKnown'
  BY DEF RequestsIInv, CookiesKnown, Req
<1>2. ASSUME NEW d \in Conns, (conn[d].pc = "uploading")'
      PROVE  (/\ Req(d).kind # "ticket" /\ SessionOf(Req(d)) \in All
              /\ Req(d).id \in 0..(newId[SessionOf(Req(d))] - 1))'
  <2>1. conn[d].pc = "uploading" /\ conn'[d].req = Req(d)
    BY <1>2 DEF Req
  <2>2. /\ Req(d).kind # "ticket" /\ SessionOf(Req(d)) \in All
        /\ Req(d).id \in 0..(newId[SessionOf(Req(d))] - 1)
    BY <2>1 DEF RequestsIInv, UploadsNamed
  <2>3. SessionOf(Req(d))' = SessionOf(Req(d)) /\ Req(d)' = Req(d)
    BY <2>1 DEF SessionOf, Req
  <2> DEFINE s == SessionOf(Req(d))
  <2>4. newId[s] \in Nat /\ newId'[s] \in Nat /\ newId[s] <= newId'[s]
    BY <2>2 DEF RequestsIInv, RequestsTypeOK
  <2>5. Req(d).id \in 0..(newId'[s] - 1)
    <3> HIDE DEF s
    <3>1. Req(d).id \in 0..(newId[s] - 1)
      BY <2>2 DEF s
    <3> QED  BY <2>4, <3>1
  <2> QED  BY <2>2, <2>3, <2>5
<1> QED  BY <1>1, <1>2 DEF UploadsNamed

LEMMA RepliedCarries ==
    ASSUME RequestsIInv, NEW c \in Conns, NEW status \in Nat, Reply(c, status),
           UNCHANGED <<sessions, guestOpen>>,
           newId' \in [All -> Nat], \A s \in All : newId[s] <= newId'[s]
    PROVE  CookiesKnown' /\ UploadsNamed'
<1>1. /\ conn'[c].req = Req(c) /\ conn'[c].pc = "replying"
      /\ \A d \in Conns \ {c} : conn'[d] = conn[d]
  BY DEF Reply, Req, RequestsIInv, RequestsTypeOK, Connections
<1> QED  BY <1>1, Carried

(* Where the worksets are numbered without a gap, their listing counts to  *)
(* the end.                                                                *)
LEMMA NoGap ==
    ASSUME NEW n \in Nat, NEW s \in All, worksets[s] = 0..(n - 1)
    PROVE  ~Gap(s)
<1>1. Cardinality(0..(n - 1)) = n
  BY FS_Interval, SMT
<1> QED  BY <1>1 DEF Gap

(* What the statuses say of the request that gets them *)
LEMMA StatusSays ==
    ASSUME NEW c \in Conns
    PROVE  /\ Status(Req(c)) = 200 /\ Req(c).kind # "static" => SessionOf(Req(c)) # NoSession
           /\ Status(Req(c)) = 200 /\ Req(c).kind \in Readings => Req(c).id \in worksets[SessionOf(Req(c))]
           /\ Status(Req(c)) = 0 => /\ SessionOf(Req(c)) # NoSession /\ Req(c).kind # "ticket"
                                    /\ Req(c).id \in worksets[SessionOf(Req(c))]
BY DEF Status, Readings, ForPost

LEMMA StatusTyped ==
    ASSUME NEW r PROVE Status(r) \in Nat
BY DEF Status

LEMMA CreatedInSession ==
    ASSUME NEW r, r.kind = "create", Status(r) = 200
    PROVE  SessionOf(r) # NoSession
BY DEF Status

-----------------------------------------------------------------------------
LEMMA InitIInv == WebInit => RequestsIInv
<1> SUFFICES ASSUME WebInit PROVE RequestsIInv
  OBVIOUS
<1> USE DEF WebInit, All
<1>1. RequestsTypeOK
  <2>1. IdleConn \in Connections
    BY IdleTyped
  <2>2. worksets \in [All -> SUBSET Nat] /\ newId \in [All -> Nat] /\ granted \in [All -> Nat]
    OBVIOUS
  <2>3. conn \in [Conns -> Connections]
    BY <2>1
  <2> QED  BY <2>2, <2>3 DEF RequestsTypeOK
<1>2. TicketsFresh /\ DataKept
  BY DEF TicketsFresh, DataKept, IdleConn, Begun
<1>3. IdsBelow /\ CookiesKnown /\ UploadsNamed
  <2>1. IdsBelow
    BY SMT DEF IdsBelow
  <2> QED  BY <2>1 DEF CookiesKnown, UploadsNamed, Req, IdleConn, Begun, NoRequest
<1> QED  BY <1>1, <1>2, <1>3 DEF RequestsIInv, HealthyServerStaysUp

LEMMA CreateSessionKeeps ==
    ASSUME RequestsIInv, NEW s \in Users, CreateSessionAndTicket(s)
    PROVE  RequestsIInv'
<1> USE DEF RequestsIInv, CreateSessionAndTicket
<1>1. RequestsTypeOK'
  BY DEF RequestsTypeOK
<1>2. TicketsFresh'
  BY DEF TicketsFresh, RequestsTypeOK, All
<1>3. CookiesKnown' /\ UploadsNamed'
  <2>1. \A c \in Conns : Req(c)' = Req(c)
    BY DEF Req
  <2>2. ASSUME NEW c \in Conns, conn[c].pc = "uploading"
        PROVE  SessionOf(Req(c))' = SessionOf(Req(c))
    <3>1. Req(c).cookie \in sessions \union {Guest, NoSession}
      BY <2>2 DEF CookiesKnown, UploadsNamed
    <3>2. Req(c).cookie # s \/ s \in sessions
      BY <3>1, SessionsAssumption
    <3> QED  BY <2>1, <3>2 DEF SessionOf
  <2> QED  BY <2>1, <2>2 DEF CookiesKnown, UploadsNamed
<1> QED  BY <1>1, <1>2, <1>3 DEF DataKept, IdsBelow, HealthyServerStaysUp, Req

LEMMA AcceptKeeps ==
    ASSUME RequestsIInv, NEW c \in Conns, Accept(c)
    PROVE  RequestsIInv'
<1>1. PICK kind \in Kinds, post \in BOOLEAN, s \in All \union {NoSession}, id \in 0..MaxWorksets, n \in 0..MaxChunks :
        /\ kind # "ticket" => s \in {NoSession} \union {u \in All : granted[u] > 0}
        /\ conn' = [conn EXCEPT ![c] =
                      Begun("new", [kind |-> kind, post |-> post, cookie |-> s, id |-> id, chunks |-> n])]
  BY DEF Accept
<1> DEFINE new == Begun("new", [kind |-> kind, post |-> post, cookie |-> s, id |-> id, chunks |-> n])
<1>2. /\ new \in Connections /\ new.kept = 0 /\ new.received = 0 /\ new.pc = "new"
      /\ new.req.kind # "ticket" => new.req.cookie \in sessions \union {Guest, NoSession}
  <2>1. id \in Nat /\ n \in Nat
    BY LimitsAssumption
  <2>2. kind # "ticket" => s \in sessions \union {NoSession}
    BY <1>1 DEF RequestsIInv, TicketsFresh
  <2> QED  BY <2>1, <2>2 DEF Begun, Connections, Requests, Places
<1>3. UNCHANGED <<sessions, tickets, guestOpen, worksets, loaded, newId, granted, crashed>> /\ ~crashed
  BY DEF Accept, At
<1> HIDE DEF new
<1>4. RequestsTypeOK'
  BY <1>1, <1>2, <1>3 DEF RequestsIInv, RequestsTypeOK, new
<1>5. DataKept'
  BY <1>1, <1>2 DEF RequestsIInv, DataKept, RequestsTypeOK, new
<1>6. CookiesKnown' /\ UploadsNamed'
  <2>1. conn'[c] = new /\ \A d \in Conns \ {c} : conn'[d] = conn[d]
    BY <1>1 DEF RequestsIInv, RequestsTypeOK, new
  <2>2. newId' \in [All -> Nat] /\ \A u \in All : newId[u] <= newId'[u]
    BY <1>3 DEF RequestsIInv, RequestsTypeOK
  <2> QED  BY <1>2, <1>3, <2>1, <2>2, Carried
<1> QED  BY <1>3, <1>4, <1>5, <1>6 DEF RequestsIInv, TicketsFresh, IdsBelow, HealthyServerStaysUp

LEMMA AnswerTicketKeeps ==
    ASSUME RequestsIInv, NEW c \in Conns, AnswerTicket(c)
    PROVE  RequestsIInv'
<1> DEFINE s == Req(c).cookie
<1>1. CASE s \in tickets
  <2>1. /\ granted' = [granted EXCEPT ![s] = @ + 1] /\ tickets' = tickets \ {s} /\ Reply(c, 302)
        /\ UNCHANGED <<sessions, guestOpen, worksets, loaded, newId, crashed>> /\ ~crashed
    BY <1>1 DEF AnswerTicket, At
  <2>2. s \in All
    BY <1>1 DEF RequestsIInv, RequestsTypeOK, All
  <2>3. RequestsTypeOK' /\ DataKept'
    BY <2>1, <2>2, Replied DEF RequestsIInv, RequestsTypeOK
  <2>4. TicketsFresh'
    BY <1>1, <2>1, <2>2 DEF RequestsIInv, RequestsTypeOK, TicketsFresh, All
  <2>5. CookiesKnown' /\ UploadsNamed'
    <3>1. newId' \in [All -> Nat] /\ \A u \in All : newId[u] <= newId'[u]
      BY <2>1 DEF RequestsIInv, RequestsTypeOK
    <3> QED  BY <2>1, <3>1, RepliedCarries
  <2> QED  BY <2>1, <2>3, <2>4, <2>5 DEF RequestsIInv, IdsBelow, HealthyServerStaysUp
<1>2. CASE s \notin tickets
  <2>1. Reply(c, 403) /\ UNCHANGED <<sessions, tickets, granted, guestOpen, worksets, loaded, newId, crashed>> /\ ~crashed
    BY <1>2 DEF AnswerTicket, At
  <2>2. CookiesKnown' /\ UploadsNamed'
    <3>1. newId' \in [All -> Nat] /\ \A u \in All : newId[u] <= newId'[u]
      BY <2>1 DEF RequestsIInv, RequestsTypeOK
    <3> QED  BY <2>1, <3>1, RepliedCarries
  <2> QED  BY <2>1, <2>2, Replied DEF RequestsIInv, RequestsTypeOK, TicketsFresh, IdsBelow, HealthyServerStaysUp
<1> QED  BY <1>1, <1>2

LEMMA FirstCallKeeps ==
    ASSUME RequestsIInv, NEW c \in Conns, FirstCall(c)
    PROVE  RequestsIInv'
<1> DEFINE r == Req(c)
           s == SessionOf(r)
<1>1. r \in Requests /\ Status(r) \in Nat /\ s \in All \union {NoSession} /\ ~crashed
  BY StatusTyped, SessionFound DEF RequestsIInv, RequestsTypeOK, Connections, Req, FirstCall, At
<1>2. UNCHANGED <<sessions, tickets, guestOpen, granted>>
  BY DEF FirstCall
<1>3. /\ worksets' \in [All -> SUBSET Nat] /\ newId' \in [All -> Nat] /\ IdsBelow'
      /\ \A u \in All : newId[u] <= newId'[u]
  <2>1. CASE r.kind = "create" /\ Status(r) = 200
    <3>1. s # NoSession
      BY <2>1, CreatedInSession
    <3>2. Create(s) /\ s \in All
      BY <2>1, <3>1, <1>1 DEF FirstCall
    <3>3. /\ worksets' = [worksets EXCEPT ![s] = @ \union {newId[s]}]
          /\ newId' = [newId EXCEPT ![s] = @ + 1]
      BY <3>2 DEF Create
    <3> QED  BY <3>2, <3>3, SMT DEF RequestsIInv, RequestsTypeOK, IdsBelow
  <2>2. CASE ~(r.kind = "create" /\ Status(r) = 200)
    BY <2>2 DEF FirstCall, RequestsIInv, RequestsTypeOK, IdsBelow
  <2> QED  BY <2>1, <2>2
<1>4. loaded' \in [All -> SUBSET Nat]
  <2>1. r.id \in Nat /\ loaded \in [All -> SUBSET Nat]
    BY <1>1 DEF Requests, RequestsIInv, RequestsTypeOK
  <2>2. loaded' = loaded \/ loaded' = [loaded EXCEPT ![s] = @ \union {r.id}]
    BY DEF FirstCall
  <2> QED  BY <2>1, <2>2
<1>5. /\ conn' \in [Conns -> Connections]
      /\ DataKept' /\ CookiesKnown' /\ UploadsNamed'
  <2>1. \/ UNCHANGED conn
        \/ conn' = [conn EXCEPT ![c].pc = "uploading"] /\ Status(r) = 0
        \/ Reply(c, Status(r))
    BY DEF FirstCall
  <2>2. CASE UNCHANGED conn
    <3>1. CookiesKnown' /\ UploadsNamed'
      BY <1>2, <1>3, <2>2, Carried DEF Req
    <3> QED  BY <2>2, <3>1 DEF RequestsIInv, RequestsTypeOK, Connections, DataKept
  <2>3. CASE conn' = [conn EXCEPT ![c].pc = "uploading"] /\ Status(r) = 0
    <3>1. conn' \in [Conns -> Connections] /\ DataKept'
      BY <2>3 DEF RequestsIInv, RequestsTypeOK, Connections, DataKept, Places
    <3>2. \A d \in Conns : Req(d)' = Req(d) /\ (d # c => conn'[d] = conn[d])
      BY <2>3 DEF Req, RequestsIInv, RequestsTypeOK, Connections
    <3>3. CookiesKnown'
      BY <1>2, <3>2 DEF CookiesKnown, RequestsIInv
    <3>4. s \in All /\ r.kind # "ticket" /\ r.id \in worksets[s]
      BY <1>1, <2>3, StatusSays
    <3>5. r.id \in 0..(newId[s] - 1)
      BY <3>4 DEF RequestsIInv, IdsBelow
    <3>6. ASSUME NEW d \in Conns, (conn[d].pc = "uploading")'
          PROVE  (/\ Req(d).kind # "ticket" /\ SessionOf(Req(d)) \in All
                  /\ Req(d).id \in 0..(newId[SessionOf(Req(d))] - 1))'
      <4> DEFINE u == SessionOf(Req(d))
      <4>1. Req(d).kind # "ticket" /\ u \in All /\ Req(d).id \in 0..(newId[u] - 1)
        BY <3>2, <3>4, <3>5, <3>6 DEF RequestsIInv, UploadsNamed
      <4>2. u' = u /\ newId[u] \in Nat /\ newId'[u] \in Nat /\ newId[u] <= newId'[u]
        BY <1>2, <1>3, <3>2, <4>1 DEF SessionOf, RequestsIInv, RequestsTypeOK
      <4>3. Req(d).id \in 0..(newId'[u] - 1)
        <5> HIDE DEF u
        <5> QED  BY <4>1, <4>2
      <4> QED  BY <3>2, <4>1, <4>2, <4>3
    <3> QED  BY <3>1, <3>3, <3>6 DEF UploadsNamed
  <2>4. CASE Reply(c, Status(r))
    BY <2>4, <1>1, <1>2, <1>3, Replied, RepliedCarries
  <2> QED  BY <2>1, <2>2, <2>3, <2>4
<1>6. HealthyServerStaysUp' /\ crashed' \in BOOLEAN
  <2>1. CASE Fatal(r)
    <3>1. Status(r) = 200 /\ crashed' /\ UNCHANGED conn
      BY <2>1 DEF FirstCall, Fatal
    <3>2. (r.kind = "list" /\ Gap(s)) \/ (r.kind \in Readings /\ r.id \notin loaded[s]) \/ r.kind = "get_axiom_tree"
      BY <2>1 DEF Fatal
    <3>3. r.kind # "create" /\ r.kind # "load" /\ r.kind # "static"
      BY <3>2 DEF Readings
    <3>4. s \in All /\ UNCHANGED <<worksets, loaded, newId>>
      BY <1>1, <3>1, <3>3, StatusSays DEF FirstCall
    <3>5. CASE r.kind = "list" /\ Gap(s)
      <4>1. newId[s] \in Nat
        BY <3>4 DEF RequestsIInv, RequestsTypeOK
      <4>2. worksets[s] # 0..(newId[s] - 1)
        BY <3>4, <3>5, <4>1, NoGap
      <4> QED  BY <3>1, <3>4, <4>2 DEF HealthyServerStaysUp
    <3>6. CASE r.kind \in Readings /\ r.id \notin loaded[s]
      <4>1. r.id \in worksets[s]
        BY <3>1, <3>6, StatusSays
      <4>2. loaded[s] # worksets[s]
        BY <3>6, <4>1
      <4> QED  BY <3>1, <3>4, <4>2 DEF HealthyServerStaysUp
    <3>7. CASE r.kind = "get_axiom_tree"
      BY <3>1, <3>7 DEF HealthyServerStaysUp, FirstCall, At, Req
    <3> QED  BY <3>1, <3>2, <3>5, <3>6, <3>7
  <2>2. CASE ~Fatal(r)
    <3>1. UNCHANGED crashed
      BY <2>2 DEF FirstCall
    <3>2. crashed \in BOOLEAN
      BY DEF RequestsIInv, RequestsTypeOK
    <3> QED  BY <3>1, <3>2, <1>1 DEF HealthyServerStaysUp
  <2> QED  BY <2>1, <2>2
<1> QED  BY <1>2, <1>3, <1>4, <1>5, <1>6 DEF RequestsIInv, RequestsTypeOK, TicketsFresh

LEMMA UploadKeeps ==
    ASSUME RequestsIInv, NEW c \in Conns, Upload(c)
    PROVE  RequestsIInv'
<1> DEFINE new == [pc |-> "uploading", req |-> Req(c), status |-> 0,
                   received |-> conn[c].received + 1, kept |-> Kept(conn[c].kept)]
<1>1. /\ conn' = [conn EXCEPT ![c] = new]
      /\ UNCHANGED <<sessions, tickets, guestOpen, worksets, loaded, newId, granted, crashed>>
  BY DEF Upload
<1>2. /\ new \in Connections
      /\ new.kept <= new.received
      /\ new.kept < new.received => new.kept > MaxPostChunks
  <2>1. conn[c] \in Connections
    BY DEF RequestsIInv, RequestsTypeOK
  <2>2. conn[c].received \in Nat /\ conn[c].kept \in Nat /\ Req(c) \in Requests
    BY <2>1 DEF Connections, Req
  <2>3. conn[c].kept <= conn[c].received /\ (conn[c].kept < conn[c].received => conn[c].kept > MaxPostChunks)
    BY DEF RequestsIInv, DataKept
  <2> QED  BY <2>2, <2>3, LimitsAssumption DEF Connections, Places, Kept
<1>3. new.pc = "uploading" /\ new.req = Req(c) /\ conn[c].pc = "uploading" /\ ~crashed
  BY DEF Upload, At
<1> HIDE DEF new
<1>4. RequestsTypeOK'
  BY <1>1, <1>2 DEF RequestsIInv, RequestsTypeOK
<1>5. DataKept'
  BY <1>1, <1>2 DEF RequestsIInv, RequestsTypeOK, DataKept
<1>6. CookiesKnown' /\ UploadsNamed'
  <2>1. conn'[c] = new /\ \A d \in Conns \ {c} : conn'[d] = conn[d]
    BY <1>1 DEF RequestsIInv, RequestsTypeOK
  <2>2. newId' \in [All -> Nat] /\ \A u \in All : newId[u] <= newId'[u]
    BY <1>1 DEF RequestsIInv, RequestsTypeOK
  <2> QED  BY <1>1, <1>3, <2>1, <2>2, Carried
<1> QED  BY <1>1, <1>3, <1>4, <1>5, <1>6 DEF RequestsIInv, TicketsFresh, IdsBelow, HealthyServerStaysUp

LEMMA LastCallKeeps ==
    ASSUME RequestsIInv, NEW c \in Conns, LastCall(c)
    PROVE  RequestsIInv'
<1> DEFINE r == Req(c)
           s == SessionOf(r)
<1>1. /\ conn[c].pc = "uploading" /\ ~crashed
      /\ UNCHANGED <<sessions, tickets, guestOpen, newId, granted>>
      /\ worksets' = IF r.kind = "destroy" THEN [worksets EXCEPT ![s] = @ \ {r.id}] ELSE worksets
      /\ loaded' = IF r.kind = "destroy" THEN [loaded EXCEPT ![s] = @ \ {r.id}] ELSE loaded
  BY DEF LastCall, At
<1>2. PICK symbols \in IF r.kind = "set_antidists" /\ r.chunks > 0 THEN BOOLEAN ELSE {FALSE} :
         /\ crashed' \in IF r.kind # "destroy" /\ Freed(s, r.id) THEN BOOLEAN
                         ELSE {symbols /\ r.id \notin loaded[s]}
         /\ IF crashed' THEN UNCHANGED conn
            ELSE IF r.kind = "set_antidists" /\ ~symbols THEN Reply(c, 404)
            ELSE IF r.kind = "set_antidists" THEN \E status \in {200, 404} : Reply(c, status)
            ELSE Reply(c, 200)
  BY DEF LastCall
<1>3. s \in All /\ r.id \in 0..(newId[s] - 1)
  BY <1>1 DEF RequestsIInv, UploadsNamed
<1>4. worksets' \in [All -> SUBSET Nat] /\ loaded' \in [All -> SUBSET Nat] /\ IdsBelow'
  BY <1>1 DEF RequestsIInv, RequestsTypeOK, IdsBelow
<1>5. newId' \in [All -> Nat] /\ \A u \in All : newId[u] <= newId'[u]
  BY <1>1 DEF RequestsIInv, RequestsTypeOK
<1>6. conn' \in [Conns -> Connections] /\ DataKept' /\ CookiesKnown' /\ UploadsNamed'
  <2>1. CASE UNCHANGED conn
    <3>1. CookiesKnown' /\ UploadsNamed'
      BY <1>1, <1>5, <2>1, Carried DEF Req
    <3> QED  BY <2>1, <3>1 DEF RequestsIInv, RequestsTypeOK, DataKept
  <2>2. CASE \E status \in {200, 404} : Reply(c, status)
    <3>1. PICK status \in {200, 404} : Reply(c, status)
      BY <2>2
    <3> QED  BY <1>1, <1>5, <3>1, Replied, RepliedCarries
  <2> QED  BY <1>2, <2>1, <2>2
<1>7. crashed' \in BOOLEAN
  BY <1>2
<1>8. HealthyServerStaysUp'
  <2>1. SUFFICES ASSUME crashed' PROVE HealthyServerStaysUp'
    BY DEF HealthyServerStaysUp
  <2>2. r.kind # "destroy" /\ (r.id \notin worksets[s] \/ r.id \notin loaded[s])
    BY <1>2, <2>1 DEF Freed
  <2>3. UNCHANGED <<worksets, loaded, newId>>
    BY <1>1, <2>2
  <2>4. worksets[s] # 0..(newId[s] - 1) \/ loaded[s] # worksets[s]
    BY <1>3, <2>2
  <2> QED  BY <1>3, <2>3, <2>4 DEF HealthyServerStaysUp
<1> QED  BY <1>1, <1>4, <1>5, <1>6, <1>7, <1>8 DEF RequestsIInv, RequestsTypeOK, TicketsFresh

LEMMA LeaveKeeps ==
    ASSUME RequestsIInv, NEW c \in Conns, Finish(c) \/ HangUp(c)
    PROVE  RequestsIInv'
<1>1. /\ conn' = [conn EXCEPT ![c] = IdleConn] /\ ~crashed
      /\ UNCHANGED <<sessions, tickets, guestOpen, worksets, loaded, newId, granted, crashed>>
  BY DEF Finish, HangUp, At
<1>2. RequestsTypeOK' /\ DataKept'
  BY <1>1, IdleTyped DEF RequestsIInv, RequestsTypeOK, DataKept, IdleConn, Begun
<1>3. CookiesKnown' /\ UploadsNamed'
  <2>1. /\ conn'[c] = IdleConn /\ \A d \in Conns \ {c} : conn'[d] = conn[d]
        /\ newId' \in [All -> Nat] /\ \A u \in All : newId[u] <= newId'[u]
    BY <1>1 DEF RequestsIInv, RequestsTypeOK
  <2>2. IdleConn.pc # "uploading" /\ IdleConn.req.cookie = NoSession
    BY DEF IdleConn, Begun, NoRequest
  <2> QED  BY <1>1, <2>1, <2>2, Carried
<1> QED  BY <1>1, <1>2, <1>3 DEF RequestsIInv, TicketsFresh, IdsBelow, HealthyServerStaysUp

LEMMA NextIInv == RequestsIInv /\ [WebNext]_webVars => RequestsIInv'
<1> SUFFICES ASSUME RequestsIInv, [WebNext]_webVars PROVE RequestsIInv'
  OBVIOUS
<1>1. CASE UNCHANGED webVars
  BY <1>1 DEF webVars, RequestsIInv, RequestsTypeOK, TicketsFresh, DataKept, IdsBelow, CookiesKnown,
     UploadsNamed, SessionOf, Req, HealthyServerStaysUp
<1>2. CASE WebNext
  BY <1>2, CreateSessionKeeps, AcceptKeeps, AnswerTicketKeeps, FirstCallKeeps, UploadKeeps,
     LastCallKeeps, LeaveKeeps DEF WebNext
<1> QED  BY <1>1, <1>2

LEMMA Invariance == WebSpec => []RequestsIInv
BY InitIInv, NextIInv, PTL DEF WebSpec

-----------------------------------------------------------------------------
(* However many connections present tickets at once, no session is told to *)
(* two of them.                                                            *)
THEOREM TicketsGrantOnce == WebSpec => []TicketGrantsOnce
<1>1. RequestsIInv => TicketGrantsOnce
  BY DEF RequestsIInv, TicketsFresh, TicketGrantsOnce
<1> QED  BY <1>1, Invariance, PTL

(* The callback of a POST request sees all the data, or it was too much,   *)
(* whatever the maximum and the number of pieces.                          *)
THEOREM PostDataIsComplete == WebSpec => []PostDataComplete
<1>1. RequestsIInv => PostDataComplete
  BY LimitsAssumption DEF RequestsIInv, RequestsTypeOK, Connections, DataKept, PostDataComplete
<1> QED  BY <1>1, Invariance, PTL

(* With the requests modelled: without destroyed and unloaded worksets, and *)
(* axioms whose proof is wanted, no exception and no null or dangling       *)
(* pointer ends the server, however many connections there are.             *)
THEOREM ServerStaysUp == WebSpec => []HealthyServerStaysUp
<1>1. RequestsIInv => HealthyServerStaysUp
  BY DEF RequestsIInv
<1> QED  BY <1>1, Invariance, PTL

(* A new workset never gets an identifier that was in use before.          *)
THEOREM IdsStayFresh == WebSpec => IdsNeverReused
<1>1. ASSUME RequestsIInv, [WebNext]_webVars
      PROVE  [\A s \in All : \A id \in worksets'[s] \ worksets[s] : id >= newId[s]]_webVars
  <2> SUFFICES ASSUME NEW s \in All, NEW id \in worksets'[s] \ worksets[s], WebNext
               PROVE  id >= newId[s]
    BY <1>1
  <2>1. worksets' # worksets
    OBVIOUS
  <2>2. CASE \E c \in Conns : FirstCall(c)
    <3>1. PICK c \in Conns : FirstCall(c)
      BY <2>2
    <3>2. Create(SessionOf(Req(c)))
      BY <2>1, <3>1 DEF FirstCall
    <3>3. worksets' = [worksets EXCEPT ![SessionOf(Req(c))] = @ \union {newId[SessionOf(Req(c))]}]
      BY <3>2 DEF Create
    <3>4. worksets \in [All -> SUBSET Nat] /\ newId[s] \in Nat
      BY <1>1 DEF RequestsIInv, RequestsTypeOK
    <3>5. id = newId[s]
      BY <3>3, <3>4
    <3> QED  BY <3>4, <3>5
  <2>3. CASE \E c \in Conns : LastCall(c)
    <3>1. PICK c \in Conns : LastCall(c)
      BY <2>3
    <3>2. worksets' = [worksets EXCEPT ![SessionOf(Req(c))] = @ \ {Req(c).id}]
      BY <2>1, <3>1 DEF LastCall
    <3> QED  BY <3>2, <1>1 DEF RequestsIInv, RequestsTypeOK
  <2> QED  BY <2>1, <2>2, <2>3 DEF WebNext, CreateSessionAndTicket, Accept, AnswerTicket, Upload, Finish, HangUp
<1> QED  BY <1>1, Invariance, PTL DEF WebSpec, IdsNeverReused

=============================================================================
