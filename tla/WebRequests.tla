---------------------------- MODULE WebRequests -----------------------------
(***************************************************************************)
(* Requests to the server: the callbacks that libmicrohttpd makes on the   *)
(* thread of a connection (web/httpd_microhttpd.cpp, web/httpd.h), the     *)
(* endpoint that knows sessions and tickets (web/web.cpp), and the         *)
(* dispatch of a workset (web/workset.cpp).  A request is answered by the  *)
(* first call, or, when it waits for POST data, by the last one; in        *)
(* between come calls with pieces of the data.  Only the exception         *)
(* SendError becomes an answer: any other ends the server, and so does a   *)
(* null pointer.  The requests on a step are not here.                     *)
(*                                                                         *)
(* A ticket is created with its session and named like it.                 *)
(***************************************************************************)
EXTENDS Naturals, FiniteSets

CONSTANTS
    Conns,          \* connections, each with its thread
    Users,          \* sessions that the main program may create
    Guest, NoSession,
    MaxWorksets,    \* bound: the worksets created in a session
    MaxChunks,      \* bound: the pieces of POST data of a request
    MaxPostChunks   \* max_post_size, in pieces

ASSUME SessionsAssumption == {Guest, NoSession} \intersect Users = {} /\ Guest # NoSession
ASSUME LimitsAssumption   == {MaxWorksets, MaxChunks, MaxPostChunks} \subseteq Nat

VARIABLES
    sessions,   \* the sessions in the map
    tickets,    \* the tickets not used yet
    guestOpen,  \* whether the server has a guest session
    worksets,   \* session -> the identifiers of its worksets
    loaded,     \* session -> those that have a library and a toolbox
    newId,      \* session -> the identifier of its next workset
    conn,       \* connection -> its request and how far it has come
    granted,    \* session -> how many answers have carried its cookie
    crashed     \* an exception has left through libmicrohttpd

webVars == <<sessions, tickets, guestOpen, worksets, loaded, newId, conn, granted, crashed>>

All == Users \union {Guest}

NoRequest == [kind |-> "none", post |-> FALSE, cookie |-> NoSession, id |-> 0, chunks |-> 0]
Begun(pc, req) == [pc |-> pc, req |-> req, received |-> 0, kept |-> 0, status |-> 0]
IdleConn  == Begun("idle", NoRequest)

(* What the URL asks for: a page, a call on the session, or one on a       *)
(* workset.  `get_sentence' stands for every reading of the library but    *)
(* that of the proof of an axiom, `get_axiom_tree'.                        *)
Pages     == {"ticket", "static", "root", "version", "create", "list"}
Readings  == {"get_sentence", "get_axiom_tree"}
ForPost   == {"queue", "destroy", "set_antidists"}
OnWorkset == {"load", "get_context"} \union Readings \union ForPost
Kinds     == Pages \union OnWorkset

Req(c)  == conn[c].req
At(c, pc) == conn[c].pc = pc /\ ~crashed

WebInit ==
    /\ guestOpen \in BOOLEAN
    /\ sessions = {} /\ tickets = {}
    /\ worksets = [s \in All |-> IF s = Guest THEN {0} ELSE {}] /\ loaded = worksets
    /\ newId = [s \in All |-> IF s = Guest THEN 1 ELSE 0]
    /\ conn = [c \in Conns |-> IdleConn]
    /\ granted = [s \in All |-> 0]
    /\ crashed = FALSE

(* create_session_and_ticket, when the program starts and at its prompt *)
CreateSessionAndTicket(s) ==
    /\ s \in Users \ sessions
    /\ sessions' = sessions \union {s}
    /\ tickets' = tickets \union {s}
    /\ UNCHANGED <<guestOpen, worksets, loaded, newId, conn, granted, crashed>>

(* A browser sends the cookie it was given, if any, and data where it is   *)
(* looked at.                                                              *)
Accept(c) ==
    /\ At(c, "idle")
    /\ \E kind \in Kinds, post \in BOOLEAN, s \in All \union {NoSession}, id \in 0..MaxWorksets, n \in 0..MaxChunks :
          /\ kind \notin OnWorkset => id = 0
          /\ n # 0 => post /\ kind = "set_antidists"
          /\ kind # "ticket" => s \in {NoSession} \union {u \in All : granted[u] > 0}
          /\ conn' = [conn EXCEPT ![c] = Begun("new", [kind |-> kind, post |-> post, cookie |-> s, id |-> id, chunks |-> n])]
    /\ UNCHANGED <<sessions, tickets, guestOpen, worksets, loaded, newId, granted, crashed>>

-----------------------------------------------------------------------------
(* get_session: an unknown cookie is the guest's, when there is one. *)
SessionOf(r) == IF r.cookie \in sessions THEN r.cookie
                ELSE IF guestOpen THEN Guest ELSE NoSession

Reply(c, status) == conn' = [conn EXCEPT ![c].pc = "replying", ![c].status = status]

AnswerTicket_Kept(c) ==
    /\ At(c, "new") /\ Req(c).kind = "ticket" /\ ~Req(c).post
    /\ IF Req(c).cookie \in tickets
       THEN granted' = [granted EXCEPT ![Req(c).cookie] = @ + 1] /\ Reply(c, 302) /\ UNCHANGED tickets
       ELSE Reply(c, 403) /\ UNCHANGED <<tickets, granted>>
    /\ UNCHANGED <<sessions, guestOpen, worksets, loaded, newId, crashed>>

(* The cookie of the request stands for the ticket in the URL.  The session *)
(* of a ticket is told once: the ticket is erased under the same mutex.     *)
AnswerTicket(c) ==
    /\ At(c, "new") /\ Req(c).kind = "ticket" /\ ~Req(c).post
    /\ IF Req(c).cookie \in tickets
       THEN /\ granted' = [granted EXCEPT ![Req(c).cookie] = @ + 1]
            /\ tickets' = tickets \ {Req(c).cookie}
            /\ Reply(c, 302)
       ELSE Reply(c, 403) /\ UNCHANGED <<tickets, granted>>
    /\ UNCHANGED <<sessions, guestOpen, worksets, loaded, newId, crashed>>

(* What WebEndpoint::answer, Session::answer_api1 and Workset::answer_api1 *)
(* answer without changing anything: 0 is no answer yet.                   *)
Status(r) ==
    LET s == SessionOf(r) IN
    IF r.kind = "static" /\ ~r.post THEN 200
    ELSE IF s = NoSession THEN 403
    ELSE IF r.kind = "root" /\ ~r.post THEN 302
    ELSE CASE r.kind \in {"static", "root", "ticket"} -> 404
           [] r.kind \in {"version", "list"} -> 200
           [] r.kind = "create" -> IF s = Guest THEN 403 ELSE 200
           [] OTHER -> IF r.id \notin worksets[s] THEN 404
                       ELSE IF r.kind \notin ForPost THEN 200
                       ELSE IF r.post THEN 0 ELSE 405

Gap_FromOne(s) == worksets[s] # 1..Cardinality(worksets[s])

(* json_list_worksets counts from 0 and throws when it meets a gap. *)
Gap(s) == worksets[s] # 0..(Cardinality(worksets[s]) - 1)

(* create_workset *)
Create_Reuse(s) ==
    /\ Cardinality(worksets[s]) < MaxWorksets /\ newId[s] < MaxWorksets
    /\ worksets' = [worksets EXCEPT ![s] = @ \union {Cardinality(@)}]
    /\ newId' = [newId EXCEPT ![s] = @ + 1]

Create(s) ==
    /\ newId[s] < MaxWorksets
    /\ worksets' = [worksets EXCEPT ![s] = @ \union {newId[s]}]
    /\ newId' = [newId EXCEPT ![s] = @ + 1]

(* Calls that throw, or read the library through a null pointer; an axiom  *)
(* has no proof to make an executor of.                                    *)
Fatal(r) ==
    LET s == SessionOf(r) IN
    /\ Status(r) = 200
    /\ \/ r.kind = "list" /\ Gap(s)
       \/ r.kind \in Readings /\ r.id \notin loaded[s]
       \/ r.kind = "get_axiom_tree"

(* The first call of answer_wrapper makes the callback object and passes it *)
(* to the endpoint; loading is one step, under the mutex of the workset.    *)
FirstCall(c) ==
    LET r == Req(c) s == SessionOf(r) IN
    /\ At(c, "new") /\ (r.kind = "ticket" => r.post)
    /\ IF r.kind = "create" /\ Status(r) = 200
       THEN Create(s) ELSE UNCHANGED <<worksets, newId>>
    /\ loaded' = IF r.kind = "load" /\ Status(r) = 200
                 THEN [loaded EXCEPT ![s] = @ \union {r.id}] ELSE loaded
    /\ IF Fatal(r)
       THEN crashed' = TRUE /\ UNCHANGED conn
       ELSE /\ UNCHANGED crashed
            /\ IF Status(r) = 0
               THEN conn' = [conn EXCEPT ![c].pc = "uploading"]
               ELSE Reply(c, Status(r))
    /\ UNCHANGED <<sessions, tickets, guestOpen, granted>>

Kept_Strict(n) == IF n >= MaxPostChunks - 1 THEN n ELSE n + 1

(* A piece of data is dropped when those before it are already too many. *)
Kept(n) == IF n > MaxPostChunks THEN n ELSE n + 1

Upload(c) ==
    /\ At(c, "uploading") /\ conn[c].received < Req(c).chunks
    /\ conn' = [conn EXCEPT ![c] = [pc |-> "uploading", req |-> Req(c), status |-> 0,
                                   received |-> @.received + 1, kept |-> Kept(@.kept)]]
    /\ UNCHANGED <<sessions, tickets, guestOpen, worksets, loaded, newId, granted, crashed>>

(* The callback of `destroy' holds its workset until the request is over;  *)
(* the others have a bare pointer to theirs.                               *)
Freed(s, id) ==
    /\ id \notin worksets[s]
    /\ \A d \in Conns :
          ~ /\ Req(d).kind = "destroy" /\ Req(d).id = id /\ SessionOf(Req(d)) = s
            /\ conn[d].pc = "uploading" \/ (conn[d].pc = "replying" /\ conn[d].status = 200)

(* All the data has come: the callback runs.  `destroy' says `success' also *)
(* when another request has erased the workset.  On a workset that is gone  *)
(* anything may happen; `set_antidists' looks symbols up in the toolbox if  *)
(* its data has any.                                                        *)
LastCall(c) ==
    LET r == Req(c) s == SessionOf(r) IN
    /\ At(c, "uploading") /\ conn[c].received = r.chunks
    /\ worksets' = IF r.kind = "destroy" THEN [worksets EXCEPT ![s] = @ \ {r.id}] ELSE worksets
    /\ loaded' = IF r.kind = "destroy" THEN [loaded EXCEPT ![s] = @ \ {r.id}] ELSE loaded
    /\ \E symbols \in IF r.kind = "set_antidists" /\ r.chunks > 0 THEN BOOLEAN ELSE {FALSE} :
          /\ crashed' \in IF r.kind # "destroy" /\ Freed(s, r.id) THEN BOOLEAN
                          ELSE {symbols /\ r.id \notin loaded[s]}
          /\ IF crashed' THEN UNCHANGED conn
             ELSE IF r.kind = "set_antidists" /\ ~symbols THEN Reply(c, 404)
             ELSE IF r.kind = "set_antidists" THEN \E status \in {200, 404} : Reply(c, status)
             ELSE Reply(c, 200)
    /\ UNCHANGED <<sessions, tickets, guestOpen, newId, granted>>

(* The reader has sent the answer; cleanup_wrapper deletes the object. *)
Finish(c) ==
    /\ At(c, "replying")
    /\ conn' = [conn EXCEPT ![c] = IdleConn]
    /\ UNCHANGED <<sessions, tickets, guestOpen, worksets, loaded, newId, granted, crashed>>

(* The client goes away before it has sent everything. *)
HangUp(c) ==
    /\ At(c, "uploading") /\ conn[c].received < Req(c).chunks
    /\ conn' = [conn EXCEPT ![c] = IdleConn]
    /\ UNCHANGED <<sessions, tickets, guestOpen, worksets, loaded, newId, granted, crashed>>

WebNext ==
    \/ \E s \in Users : CreateSessionAndTicket(s)
    \/ \E c \in Conns : \/ Accept(c) \/ AnswerTicket(c) \/ FirstCall(c) \/ Upload(c)
                        \/ LastCall(c) \/ Finish(c) \/ HangUp(c)

WebSpec == WebInit /\ [][WebNext]_webVars

-----------------------------------------------------------------------------
(* Connections that present the same ticket at the same time do not both   *)
(* get its session.                                                        *)
TicketGrantsOnce == \A s \in All : granted[s] <= 1

(* The identifier of a workset that was destroyed never names another one: *)
(* a browser that still holds it gets a 404.                               *)
IdsNeverReused ==
    [][\A s \in All : \A id \in worksets'[s] \ worksets[s] : id >= newId[s]]_webVars

(* POST data is complete when the callback sees it, or it was too much:    *)
(* then the callback runs all the same.                                    *)
PostDataComplete ==
    \A c \in Conns : conn[c].kept < conn[c].received => conn[c].received > MaxPostChunks

(* With the requests modelled here, a server goes down only after a        *)
(* workset was destroyed (its listing throws, or the callback of a request *)
(* already begun is left with it), while one is not loaded (its library    *)
(* and toolbox are null), or when the proof of an axiom is asked for.      *)
HealthyServerStaysUp ==
    crashed => \/ \E s \in All : worksets[s] # 0..(newId[s] - 1) \/ loaded[s] # worksets[s]
               \/ \E c \in Conns : conn[c].pc = "new" /\ Req(c).kind = "get_axiom_tree"

=============================================================================
