------------------------ MODULE ConditionalDocument -------------------------
(***************************************************************************)
(* What a client of a resource with conditional writes expects, with       *)
(* nothing said about internal requests, tags or dates: a PUT and a PATCH  *)
(* each take effect in one step or not at all, a PATCH edits the document  *)
(* as it is in that step, and a write with If-Match takes effect only on   *)
(* a document it names.  Patch is shown to implement it.                   *)
(***************************************************************************)
EXTENDS Documents

CONSTANTS Clients, Requests, NoHeader, Star

VARIABLES doc,      \* the resource, or Missing
          request,  \* each client's last request
          answer    \* "none", "pending", "done" or "refused"

documentVars == <<doc, request, answer>>

DocumentInit ==
    /\ doc \in Docs \cup {Missing}
    /\ request \in [Clients -> Requests]
    /\ answer = [c \in Clients |-> "none"]

\* The documents a client that read one of them earlier is ready to replace.
Expects(r, d) ==
    \/ r.ifMatch = NoHeader
    \/ r.ifMatch = Star /\ d # Missing
    \/ /\ r.ifMatch \notin {NoHeader, Star}
       /\ \E tag \in r.ifMatch : ~tag.weak /\ tag.of = d

Ask(c) ==
    /\ answer[c] # "pending"
    /\ \E r \in Requests : request' = [request EXCEPT ![c] = r]
    /\ answer' = [answer EXCEPT ![c] = "pending"]
    /\ UNCHANGED doc

Replace(c) ==
    /\ answer[c] = "pending"
    /\ request[c].method = "PUT"
    /\ Expects(request[c], doc)
    /\ doc' = request[c].body
    /\ answer' = [answer EXCEPT ![c] = "done"]
    /\ UNCHANGED request

Edit(c) ==
    /\ answer[c] = "pending"
    /\ request[c].method = "PATCH"
    /\ doc # Missing
    /\ Expects(request[c], doc)
    /\ Applies(request[c].patch, doc)
    /\ doc' = Apply(request[c].patch, doc)
    /\ answer' = [answer EXCEPT ![c] = "done"]
    /\ UNCHANGED request

Refuse(c) ==
    /\ answer[c] = "pending"
    /\ answer' = [answer EXCEPT ![c] = "refused"]
    /\ UNCHANGED <<doc, request>>

Delete == doc' = Missing /\ UNCHANGED <<request, answer>>

DocumentNext ==
    \/ \E c \in Clients : Ask(c) \/ Replace(c) \/ Edit(c) \/ Refuse(c)
    \/ Delete

DocumentSpec == DocumentInit /\ [][DocumentNext]_documentVars
=============================================================================
