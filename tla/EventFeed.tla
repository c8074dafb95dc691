----------------------------- MODULE EventFeed ------------------------------
(***************************************************************************)
(* How the browser learns of a change (web/workset.cpp, ts/workset.ts,     *)
(* ts/tree_workset.ts).  A step that changes appends an event to the queue *)
(* of its workset.  The browser keeps one long poll open; the server       *)
(* answers it with the first event, or with `nothing' after a second.  For *)
(* every event the browser fetches the step anew and redraws it.           *)
(*                                                                         *)
(* Loading a workset, again or for the first time, makes a new client      *)
(* object with its own poll and its own view; the old one stops, but its   *)
(* poll is not taken back.  Requests and answers may be lost, and the      *)
(* answers of several fetches may overtake each other.                     *)
(***************************************************************************)
EXTENDS Naturals, Sequences, FiniteSets

CONSTANTS
    Steps,
    Clients,    \* bound: the client objects made for the workset
    MaxUpdates, \* bound: the changes of the steps
    MaxLost     \* bound: the answers that are lost

Nothing == "nothing"    \* the event of an answer without an event

ASSUME StepsAssumption == Nothing \notin Steps

VARIABLES
    version,    \* step -> how often it has changed
    queue,      \* Workset::queue, of the steps updated
    receiving,  \* client -> receiving_events, or "new" before it is loaded
    poll,       \* client -> where its long poll is
    event,      \* client -> the event its answer carries
    mapped,     \* client -> the steps in remote_id_map
    fetches,    \* requests for a step that the server has not answered
    answers,    \* answers of fetches on their way, with the version they carry
    view,       \* client -> step -> the version it shows
    excused,    \* the pairs of client and step whose event was lost, or whose answers overtook
    lost

feedVars == <<version, queue, receiving, poll, event, mapped, fetches, answers, view, excused, lost>>

Sum(f) == LET S[T \in SUBSET DOMAIN f] == IF T = {} THEN 0
                 ELSE LET x == CHOOSE x \in T : TRUE IN f[x] + S[T \ {x}] IN S[DOMAIN f]

Loaded(c) == receiving[c] # "new"

FeedInit ==
    /\ version = [s \in Steps |-> 0]
    /\ queue = <<>>
    /\ receiving = [c \in Clients |-> "new"]
    /\ poll = [c \in Clients |-> "none"]
    /\ event = [c \in Clients |-> Nothing]
    /\ mapped = [c \in Clients |-> {}]
    /\ fetches = {} /\ answers = {} /\ excused = {} /\ lost = 0
    /\ view = [c \in Clients |-> [s \in Steps |-> 0]]

-----------------------------------------------------------------------------
(* maybe_notify_update, under the mutex of the step, and add_to_queue: one of the waiting polls is woken. *)
Update(s) ==
    /\ Sum(version) < MaxUpdates
    /\ version' = [version EXCEPT ![s] = @ + 1]
    /\ queue' = Append(queue, s)
    /\ LET waiting == {c \in Clients : poll[c] = "waiting"} IN
       IF waiting = {} THEN UNCHANGED poll
       ELSE \E c \in waiting : poll' = [poll EXCEPT ![c] = "woken"]
    /\ UNCHANGED <<receiving, event, mapped, fetches, answers, view, excused, lost>>

Answer(c, e) == /\ poll' = [poll EXCEPT ![c] = "answered"]
                /\ event' = [event EXCEPT ![c] = e]

(* The callback of `queue' looks at the queue when it begins and when it is woken. *)
ServePoll(c) ==
    /\ poll[c] \in {"asked", "woken"}
    /\ IF queue = <<>>
       THEN poll' = [poll EXCEPT ![c] = "waiting"] /\ UNCHANGED <<queue, event>>
       ELSE Answer(c, Head(queue)) /\ queue' = Tail(queue)
    /\ UNCHANGED <<version, receiving, mapped, fetches, answers, view, excused, lost>>

(* The second is over, perhaps just after the poll was woken: the queue is not looked at again. *)
PollTimeout(c) ==
    /\ poll[c] \in {"waiting", "woken"}
    /\ Answer(c, Nothing)
    /\ UNCHANGED <<version, queue, receiving, mapped, fetches, answers, view, excused, lost>>

-----------------------------------------------------------------------------
(* load_workset and workset_loaded: the former object stops receiving, the new one begins. *)
Load(c) ==
    /\ receiving[c] = "new"
    /\ receiving' = [d \in Clients |-> IF d = c THEN "yes"
                                      ELSE IF receiving[d] = "yes" THEN "no" ELSE receiving[d]]
    /\ poll' = [poll EXCEPT ![c] = "asked"]
    /\ UNCHANGED <<version, queue, event, mapped, fetches, answers, view, excused, lost>>

(* _load_step enters a step in the map before it fetches it. *)
LoadStep(c, s) ==
    /\ Loaded(c) /\ s \notin mapped[c]
    /\ mapped' = [mapped EXCEPT ![c] = @ \union {s}]
    /\ fetches' = fetches \union {<<c, s>>}
    /\ UNCHANGED <<version, queue, receiving, poll, event, answers, view, excused, lost>>

(* receive_event polls again, whatever became of the answer. *)
PollAgain(c) == poll' = [poll EXCEPT ![c] = IF receiving[c] = "yes" THEN "asked" ELSE "none"]

ReceiveEvent_Ignored(c) ==
    /\ poll[c] = "answered"
    /\ PollAgain(c)
    /\ fetches' = IF receiving[c] = "yes" /\ event[c] \in mapped[c] /\ \A a \in answers : a.step # event[c]
                  THEN fetches \union {<<c, event[c]>>} ELSE fetches
    /\ excused' = IF receiving[c] = "yes" THEN excused ELSE excused \union (Clients \X {event[c]})
    /\ UNCHANGED <<version, queue, receiving, event, mapped, answers, view, lost>>

(* The answer reaches the browser.  An object that has stopped receiving   *)
(* drops the event, and nobody else will see it.                           *)
ReceiveEvent(c) ==
    /\ poll[c] = "answered"
    /\ PollAgain(c)
    /\ fetches' = IF receiving[c] = "yes" /\ event[c] \in mapped[c]
                  THEN fetches \union {<<c, event[c]>>} ELSE fetches
    /\ excused' = IF receiving[c] = "yes" THEN excused ELSE excused \union (Clients \X {event[c]})
    /\ UNCHANGED <<version, queue, receiving, event, mapped, answers, view, lost>>

(* The answer is lost, and its event with it: it has left the queue.  The  *)
(* promise is rejected, caught, and the browser polls again.               *)
LosePoll(c) ==
    /\ poll[c] = "answered" /\ lost < MaxLost
    /\ lost' = lost + 1
    /\ PollAgain(c)
    /\ excused' = excused \union (Clients \X {event[c]})
    /\ UNCHANGED <<version, queue, receiving, event, mapped, fetches, answers, view>>

-----------------------------------------------------------------------------
(* The server answers a fetch with what the step is now. *)
ServeFetch(c, s) ==
    /\ <<c, s>> \in fetches
    /\ fetches' = fetches \ {<<c, s>>}
    /\ answers' = answers \union {[client |-> c, step |-> s, version |-> version[s]]}
    /\ UNCHANGED <<version, queue, receiving, poll, event, mapped, view, excused, lost>>

(* reload stores what the answer says, and redraw_node shows it, even if a later answer has come before. *)
ReloadDone(a) ==
    /\ a \in answers
    /\ answers' = answers \ {a}
    /\ view' = [view EXCEPT ![a.client][a.step] = a.version]
    /\ excused' = IF a.version < view[a.client][a.step]
                  THEN excused \union {<<a.client, a.step>>} ELSE excused
    /\ UNCHANGED <<version, queue, receiving, poll, event, mapped, fetches, lost>>

LoseFetch(a) ==
    /\ a \in answers /\ lost < MaxLost
    /\ lost' = lost + 1
    /\ answers' = answers \ {a}
    /\ excused' = excused \union {<<a.client, a.step>>}
    /\ UNCHANGED <<version, queue, receiving, poll, event, mapped, fetches, view>>

FeedNext ==
    \/ \E s \in Steps : Update(s)
    \/ \E c \in Clients : \/ ServePoll(c) \/ PollTimeout(c) \/ Load(c)
                          \/ ReceiveEvent(c) \/ LosePoll(c)
    \/ \E c \in Clients, s \in Steps : LoadStep(c, s) \/ ServeFetch(c, s)
    \/ \E a \in answers : ReloadDone(a) \/ LoseFetch(a)

(* Threads of the server run, a poll lasts no longer than its second, and  *)
(* answers that are not lost arrive.                                       *)
FeedFairness ==
    /\ \A c \in Clients : /\ WF_feedVars(ServePoll(c))
                          /\ WF_feedVars(PollTimeout(c))
                          /\ WF_feedVars(ReceiveEvent(c))
    /\ \A c \in Clients, s \in Steps : WF_feedVars(LoadStep(c, s)) /\ WF_feedVars(ServeFetch(c, s))
    /\ \A c \in Clients, s \in Steps : WF_feedVars(\E a \in answers : a.client = c /\ a.step = s /\ ReloadDone(a))

FeedSpec == FeedInit /\ [][FeedNext]_feedVars /\ FeedFairness

-----------------------------------------------------------------------------
OnItsWay(c, s) ==
    \/ \E i \in DOMAIN queue : queue[i] = s
    \/ \E d \in Clients : poll[d] = "answered" /\ event[d] = s
    \/ <<c, s>> \in fetches
    \/ [client |-> c, step |-> s, version |-> version[s]] \in answers

(* A view that shows an older status than the step has is not forgotten:   *)
(* an event, a fetch, or the answer with the present status is on its way, *)
(* unless an answer was lost or overtaken, or an object that no longer     *)
(* receives took the event.                                                *)
StaleViewsArePursued ==
    \A c \in Clients, s \in Steps :
        s \in mapped[c] /\ receiving[c] = "yes" /\ view[c][s] # version[s]
            => OnItsWay(c, s) \/ <<c, s>> \in excused

(* The view catches up with every change, in the end. *)
ViewCatchesUp ==
    \A c \in Clients, s \in Steps :
        <>[](receiving[c] = "yes" => view[c][s] = version[s] \/ <<c, s>> \in excused)

=============================================================================
