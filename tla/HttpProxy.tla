----------------------------- MODULE HttpProxy -----------------------------
(***************************************************************************)
(* HTTP requests: httpListener of lib/proxy/http.js, from the router's     *)
(* answer to the end of the response, with the error pages of              *)
(* lib/core/render.js and the uses of the worker's entry that a request    *)
(* acquires and releases.  Of the worker it sees its promise, and that the *)
(* connection to it breaks; see ProxySystem.                               *)
(*                                                                         *)
(* The request's socket belongs to the browser, or to the server's timeout *)
(* for sockets without traffic: it may break between any two steps.        *)
(***************************************************************************)
EXTENDS Naturals

CONSTANT Requests    \* each used once

VARIABLES
  handler,   \* what httpListener waits for
  writable,  \* req.socket.writable
  response,  \* "open", its "head" is sent, it has "ended", or is "closed"
  answer,    \* what the browser is sent
  tails,     \* error500: the tails of the log being read
  upstream,  \* the connection to the worker: proxyReq
  success,   \* res.proxySuccess
  page,      \* isAppPage
  uses       \* of the entry: "http", and "pending", which may have a timer

httpVars == <<handler, writable, response, answer, tails, upstream, success, page, uses>>

Answers == {"none", "router", "app", "404", "503", "500", "nothing"}

HttpTypeOK ==
  /\ handler \in [Requests -> {"none", "routing", "waiting", "done"}]
  /\ writable \in [Requests -> BOOLEAN]
  /\ response \in [Requests -> {"open", "head", "ended", "closed"}]
  /\ answer \in [Requests -> Answers]
  /\ tails \in [Requests -> 0 .. 2]
  /\ upstream \in [Requests -> {"none", "open", "over"}]
  /\ success \in [Requests -> BOOLEAN]
  /\ page \in [Requests -> BOOLEAN]
  /\ uses \in [Requests -> SUBSET {"http", "pending", "timed"}]

HttpInit ==
  /\ handler = [r \in Requests |-> "none"]
  /\ writable = [r \in Requests |-> TRUE]
  /\ response = [r \in Requests |-> "open"]
  /\ answer = [r \in Requests |-> "none"]
  /\ tails = [r \in Requests |-> 0]
  /\ upstream = [r \in Requests |-> "none"]
  /\ success = [r \in Requests |-> FALSE]
  /\ page \in [Requests -> BOOLEAN]
  /\ uses = [r \in Requests |-> {}]

Over(r) == response[r] \in {"ended", "closed"}

(***************************************************************************)
(* Answers that the server writes.                                         *)
(***************************************************************************)

\* The response is sent, all of it, unless its head has been: by what.
Send(r, what) ==
  /\ response' = [response EXCEPT ![r] = IF @ = "closed" THEN @ ELSE "ended"]
  /\ answer' = [answer EXCEPT ![r] = what]

\* error500: nothing is sent before the tail of the log has been read.
Error500(r) == tails' = [tails EXCEPT ![r] = @ + 1]

\* render.sendPage in httpListener.  It throws if a template cannot be read, or
\* cannot be used, of which it learns when the head has been written.  Then it
\* is error500's turn.
SendPage(r, status) ==
  \/ Send(r, status) /\ UNCHANGED tails
  \/ Error500(r) /\ UNCHANGED <<response, answer>>
  \/ /\ Error500(r)
     /\ response' = [response EXCEPT ![r] = "head"]
     /\ answer' = [answer EXCEPT ![r] = status]

\* Mutant of LogRead: nothing is done if there is no page.
LogReadOnly(r) ==
  /\ tails[r] > 0
  /\ tails' = [tails EXCEPT ![r] = @ - 1]
  /\ \/ response[r] = "open" /\ Send(r, "500")
     \/ UNCHANGED <<response, answer>>
  /\ UNCHANGED <<handler, writable, upstream, success, page, uses>>

\* error500 goes on: its page is sent unless there is a head already or a
\* template cannot be used; then res.end() is all that is done.
LogRead(r) ==
  /\ tails[r] > 0
  /\ tails' = [tails EXCEPT ![r] = @ - 1]
  /\ \/ response[r] = "open" /\ Send(r, "500")
     \/ response[r] = "open" /\ Send(r, "nothing")
     \/ response[r] = "head" /\ Send(r, answer[r])
     \/ Over(r) /\ UNCHANGED <<response, answer>>
  /\ UNCHANGED <<handler, writable, upstream, success, page, uses>>

(***************************************************************************)
(* httpListener                                                            *)
(***************************************************************************)
Request(r) ==
  /\ handler[r] = "none"
  /\ handler' = [handler EXCEPT ![r] = "routing"]
  /\ UNCHANGED <<writable, response, answer, tails, upstream, success, page, uses>>

\* A response that is over, or about to be, is left alone.
Abort(r) ==
  /\ handler[r] = "routing"
  /\ ~writable[r]
  /\ handler' = [handler EXCEPT ![r] = "done"]
  /\ UNCHANGED <<writable, response, answer, tails, upstream, success, page, uses>>

\* The router has failed, has answered itself, or knows no app.
Unrouted(r) ==
  /\ handler[r] = "routing"
  /\ handler' = [handler EXCEPT ![r] = "done"]
  /\ \/ Error500(r) /\ UNCHANGED <<response, answer>>
     \/ writable[r] /\ Send(r, "router") /\ UNCHANGED tails
     \/ writable[r] /\ SendPage(r, "404")
  /\ UNCHANGED <<writable, upstream, success, page, uses>>

\* getWorker throws: there is no capacity, or something else.
NoWorker(r) ==
  /\ handler[r] = "routing" /\ writable[r]
  /\ handler' = [handler EXCEPT ![r] = "done"]
  /\ \/ SendPage(r, "503")
     \/ Error500(r) /\ UNCHANGED <<response, answer>>
  /\ UNCHANGED <<writable, upstream, success, page, uses>>

\* A worker is acquired, and released when the response is over.
GetWorker(r) ==
  /\ handler[r] = "routing" /\ writable[r]
  /\ handler' = [handler EXCEPT ![r] = "waiting"]
  /\ uses' = [uses EXCEPT ![r] = IF page[r] THEN {"http", "pending"} ELSE {"http"}]
  /\ UNCHANGED <<writable, response, answer, tails, upstream, success, page>>

\* Mutant of Resolved: the request is proxied though its socket has gone.
ResolvedAnyhow(r) ==
  /\ handler[r] = "waiting"
  /\ handler' = [handler EXCEPT ![r] = "done"]
  /\ upstream' = [upstream EXCEPT ![r] = "open"]
  /\ UNCHANGED <<writable, response, answer, tails, success, page, uses>>

\* The worker's handle is there: proxy.web.
Resolved(r) ==
  /\ handler[r] = "waiting"
  /\ handler' = [handler EXCEPT ![r] = "done"]
  /\ upstream' = [upstream EXCEPT ![r] = IF writable[r] THEN "open" ELSE @]
  /\ UNCHANGED <<writable, response, answer, tails, success, page, uses>>

\* There is no worker, or not even its directory.  (A template that cannot be
\* used then throws where nobody catches it, which ends the server.)
Rejected(r) ==
  /\ handler[r] = "waiting"
  /\ handler' = [handler EXCEPT ![r] = "done"]
  /\ \/ Error500(r) /\ UNCHANGED <<response, answer>>
     \/ ~Over(r) /\ Send(r, "404") /\ UNCHANGED tails
     \/ Over(r) /\ UNCHANGED <<response, answer, tails>>
  /\ UNCHANGED <<writable, upstream, success, page, uses>>

(***************************************************************************)
(* The proxied request.                                                    *)
(***************************************************************************)

\* proxyRes
AppResponds(r) ==
  /\ upstream[r] = "open" /\ response[r] = "open"
  /\ response' = [response EXCEPT ![r] = "head"]
  /\ answer' = [answer EXCEPT ![r] = "app"]
  /\ success' \in {success, [success EXCEPT ![r] = TRUE]}
  /\ UNCHANGED <<handler, writable, tails, upstream, page, uses>>

\* The whole response has been passed on.
AppEnds(r) ==
  /\ upstream[r] = "open" /\ response[r] = "head"
  /\ Send(r, "app")
  /\ upstream' = [upstream EXCEPT ![r] = "over"]
  /\ UNCHANGED <<handler, writable, tails, success, page, uses>>

\* The connection cannot be made or breaks, and the proxy emits an error.
ProxyFails(r) ==
  /\ upstream[r] = "open"
  /\ upstream' = [upstream EXCEPT ![r] = "over"]
  /\ Error500(r)
  /\ UNCHANGED <<handler, writable, response, answer, success, page, uses>>

\* It is closed when the head has been passed on, and no error is emitted.
ProxyStops(r) ==
  /\ upstream[r] = "open" /\ response[r] = "head"
  /\ upstream' = [upstream EXCEPT ![r] = "over"]
  /\ UNCHANGED <<handler, writable, response, answer, tails, success, page, uses>>

(***************************************************************************)
(* The end of a response.                                                  *)
(***************************************************************************)

\* The browser goes away, or nothing has moved for the time of socketTimeout.
Breaks(r) ==
  /\ handler[r] # "none" /\ writable[r]
  /\ writable' = [writable EXCEPT ![r] = FALSE]
  /\ UNCHANGED <<handler, response, answer, tails, upstream, success, page, uses>>

\* cleanup
Cleanup(r) ==
  uses' = [uses EXCEPT ![r] =
             IF "http" \notin @ THEN @
             ELSE IF page[r] /\ success[r] THEN {"timed"} ELSE {}]

\* The response's "finish" event
Finish(r) ==
  /\ response[r] = "ended" /\ "http" \in uses[r]
  /\ Cleanup(r)
  /\ UNCHANGED <<handler, writable, response, answer, tails, upstream, success, page>>

\* Its "close" event; what is proxied is aborted, and the request may emit an
\* error.
Close(r) ==
  /\ ~writable[r] /\ response[r] # "closed"
  /\ response' = [response EXCEPT ![r] = "closed"]
  /\ Cleanup(r)
  /\ upstream' = [upstream EXCEPT ![r] = IF @ = "open" THEN "over" ELSE @]
  /\ \/ UNCHANGED tails
     \/ upstream[r] # "none" /\ Error500(r)
  /\ UNCHANGED <<handler, writable, answer, success, page>>

\* Steps that need no worker.
HttpStep(r) ==
  \/ Request(r) \/ Abort(r) \/ Unrouted(r) \/ NoWorker(r) \/ LogRead(r)
  \/ AppResponds(r) \/ AppEnds(r) \/ ProxyFails(r) \/ ProxyStops(r)
  \/ Breaks(r) \/ Finish(r) \/ Close(r)

(***************************************************************************)
(* As long as a request is proxied the worker's entry counts it, so that   *)
(* the worker is not taken for idle; when its response is over, no use is  *)
(* left but the reservation of a page that was delivered, which has a      *)
(* timer.                                                                  *)
(***************************************************************************)
RequestsAreCounted ==
  \A r \in Requests :
    /\ upstream[r] = "open" => "http" \in uses[r]
    /\ "pending" \in uses[r] => "http" \in uses[r]
    /\ "http" \in uses[r] => response[r] # "closed"
    /\ "timed" \in uses[r] => success[r] /\ answer[r] = "app"

\* What makes this inductive: how far a request has got, and what may still
\* write to its response.
Progress(r) ==
  /\ writable[r] => response[r] # "closed"
  /\ handler[r] # "done" => /\ upstream[r] = "none" /\ tails[r] = 0 /\ ~success[r]
                            /\ response[r] \in {"open", "closed"}
  /\ handler[r] = "waiting" /\ response[r] # "closed" => "http" \in uses[r]
  /\ upstream[r] = "open" => tails[r] = 0 /\ response[r] \in {"open", "head"}
  /\ tails[r] = 2 => upstream[r] = "over" /\ response[r] = "closed"
  /\ success[r] => answer[r] = "app" /\ response[r] # "open"

HttpInv == HttpTypeOK /\ RequestsAreCounted /\ \A r \in Requests : Progress(r)

=============================================================================
