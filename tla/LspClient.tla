----------------------------- MODULE LspClient -----------------------------
(***************************************************************************)
(* A generic LSP runtime: LSPClient with its lspTransport (worker package) *)
(* talking to a language server over two pipes.  The client's mutex admits *)
(* one call at a time; beside it run the reader goroutine, the server, a   *)
(* Close that does not wait for a call, and edits of the source files.     *)
(***************************************************************************)
EXTENDS Integers, Sequences, FiniteSets

CONSTANTS
    Docs,
    Texts,       \* contents a source file can have
    MaxOpenDocs, \* maxLSPOpenDocuments
    Versioned,   \* the server puts the document's version in its publications
    QueueCap,    \* capacity of the response queue
    MaxIds,      \* bound: requests of a process generation
    MaxVersion,  \* bound: versions of an open document
    PipeBound,   \* bound: messages on their way to the server
    ReplyBound   \* bound: messages on their way back

VARIABLES
    disk,      \* the source files
    tr,        \* the transport: stop() ran, the reader closed `done`
    started,   \* LSPClient.started
    openDocs,  \* what the client believes the server has open; version 0: not open
    openOrder, \* open documents, least recently used first
    evicted,   \* documents evicted in this generation (history)
    seqID,
    toServer, toClient, \* the pipes
    srv,       \* the server's documents
    responses, \* the response queue
    mail,      \* transport.diagnostics: the last publication for a watched document
    req        \* the call that holds the mutex, and after it what it returned

lspVars == <<disk, tr, started, openDocs, openOrder, evicted, seqID, toServer, toClient, srv, responses, mail, req>>
pipes == <<toServer, toClient, srv, responses, mail>>

NoText == 0 \* no text at all; also diagnostics' "\x00"
Shut == [v |-> 0, text |-> NoText]
NoMail == [watched |-> FALSE, received |-> FALSE, v |-> 0, text |-> NoText]
NoCall == [step |-> "idle", kind |-> "query", d |-> CHOOSE d \in Docs : TRUE, text |-> NoText,
           v |-> 0, got |-> NoText]
Kinds == {"query", "pull", "push"} \* a query; diagnostics asked for, or published
DocState == [v : 0..MaxVersion, text : Texts \cup {NoText}]
LspTypeOK ==
    /\ disk \in [Docs -> Texts]
    /\ tr \in [stopped : BOOLEAN, done : BOOLEAN] /\ started \in BOOLEAN
    /\ openDocs \in [Docs -> DocState] /\ srv \in [Docs -> DocState]
    /\ openOrder \in Seq(Docs) /\ evicted \subseteq Docs /\ seqID \in 0..MaxIds
    /\ mail \in [Docs -> [watched : BOOLEAN, received : BOOLEAN, v : 0..MaxVersion, text : Texts \cup {NoText}]]
    /\ req \in [step : {"idle", "asked", "watching", "answered"}, kind : Kinds, d : Docs,
                text : Texts \cup {NoText}, v : 0..MaxVersion, got : Texts \cup {NoText}]

Alive == ~tr.done
LspInit ==
    /\ disk \in [Docs -> Texts]
    /\ tr = [stopped |-> TRUE, done |-> TRUE] /\ started = FALSE
    /\ openDocs = [d \in Docs |-> Shut] /\ openOrder = <<>> /\ evicted = {} /\ seqID = 0
    /\ toServer = <<>> /\ toClient = <<>> /\ srv = [d \in Docs |-> Shut] /\ responses = <<>>
    /\ mail = [d \in Docs |-> NoMail] /\ req = NoCall
-----------------------------------------------------------------------------
(* A call: LSPClient.Call, startContext, openDocumentBounded, sendRequest  *)

Msg(op, d, s, id) == [op |-> op, d |-> d, v |-> s.v, text |-> s.text, id |-> id]

\* startContext: the generation a call works with, as a record of what it resets.
NeedsStart == tr.done \/ ~started
Docs0 == IF NeedsStart THEN [d \in Docs |-> Shut] ELSE openDocs
Order0 == IF NeedsStart THEN <<>> ELSE openOrder

\* Mutant: an open document is never sent again.
NextStateStale(d, old) == IF old.v = 0 THEN [v |-> 1, text |-> disk[d]] ELSE old

\* openDocumentBounded: didOpen with version 1, didChange with the next
\* version, or nothing when the content is the same.
NextState(d, old) ==
    IF old.v = 0 THEN [v |-> 1, text |-> disk[d]]
    ELSE IF old.text = disk[d] THEN old
    ELSE [v |-> old.v + 1, text |-> disk[d]]

TouchDoc(s, d) == Append(SelectSeq(s, LAMBDA e : e # d), d)
\* evictOpenDocuments, after a didOpen.
Overdue(s) == IF Len(s) > MaxOpenDocs THEN {Head(s)} ELSE {}

\* The messages of opening d in state `new` when the client believed `old`.
Notices(d, old, new, victims) ==
    (IF new = old THEN <<>>
     ELSE <<Msg(IF old.v = 0 THEN "didOpen" ELSE "didChange", d, new, 0)>>)
    \o (IF victims = {} THEN <<>> ELSE <<Msg("didClose", CHOOSE e \in victims : TRUE, Shut, 0)>>)

Asks(kind) == kind # "push"
InCall == req.step \in {"asked", "watching"}
Ends == req' = NoCall
\* lspTransport.stop: the pipes are closed and the process is killed.
Stop ==
    /\ tr' = [tr EXCEPT !.stopped = TRUE]
    /\ toServer' = <<>> /\ srv' = [d \in Docs |-> Shut]
\* diagnostics forgets the cached content so that a version is always sent.
Forced(kind, s) == IF kind # "query" /\ s.v > 0 THEN [s EXCEPT !.text = NoText] ELSE s

\* A call opens its document and sends its request, or watches for a publication.
CallBegins(kind, d) ==
    LET old == Forced(kind, Docs0[d])
        new == NextState(d, old)
        order == TouchDoc(Order0, d)
        victims == IF old.v = 0 THEN Overdue(order) ELSE {}
        id == (IF NeedsStart THEN 0 ELSE seqID) + (IF Asks(kind) THEN 1 ELSE 0)
        out == Notices(d, old, new, victims)
                   \o (IF Asks(kind) THEN <<Msg("request", d, Shut, id)>> ELSE <<>>)
    IN
    /\ ~InCall /\ (NeedsStart \/ ~tr.stopped)
    /\ new.v <= MaxVersion /\ id <= MaxIds
    /\ tr' = [stopped |-> FALSE, done |-> FALSE] /\ started' = TRUE
    /\ openDocs' = [e \in Docs |-> IF e = d THEN new ELSE IF e \in victims THEN Shut ELSE Docs0[e]]
    /\ openOrder' = SelectSeq(order, LAMBDA e : e \notin victims)
    /\ evicted' = (IF NeedsStart THEN {} ELSE evicted) \cup victims
    /\ seqID' = id
    /\ toServer' = IF NeedsStart THEN out ELSE toServer \o out
    /\ Len(toServer') <= PipeBound
    /\ toClient' = IF NeedsStart THEN <<>> ELSE toClient
    /\ srv' = IF NeedsStart THEN [e \in Docs |-> Shut] ELSE srv
    /\ responses' = IF NeedsStart THEN <<>> ELSE responses
    /\ mail' = [e \in Docs |-> IF kind = "push" /\ e = d THEN [NoMail EXCEPT !.watched = TRUE]
                               ELSE IF NeedsStart THEN NoMail ELSE mail[e]]
    /\ req' = [step |-> IF Asks(kind) THEN "asked" ELSE "watching", kind |-> kind, d |-> d,
               text |-> disk[d], v |-> new.v, got |-> NoText]
    /\ UNCHANGED disk

\* The process does not start, or its initialize fails.
StartFails ==
    /\ ~InCall /\ NeedsStart
    /\ tr' \in [stopped : {TRUE}, done : BOOLEAN] /\ started' = FALSE
    /\ openDocs' = [d \in Docs |-> Shut] /\ openOrder' = <<>> /\ Ends
    /\ UNCHANGED <<disk, evicted, seqID, pipes>>

\* The source cannot be read, or the transport is stopped and its reader has
\* not closed `done` yet: nothing reaches the server.
CallFails(kind, d) ==
    /\ ~InCall /\ ~NeedsStart
    /\ openDocs' = [openDocs EXCEPT ![d] = Forced(kind, @)]
    /\ Ends
    /\ UNCHANGED <<disk, tr, started, openOrder, evicted, seqID, pipes>>

\* request: the head of the response queue, by its id.
TakeResponse ==
    /\ req.step = "asked" /\ responses # <<>>
    /\ responses' = Tail(responses)
    /\ LET r == Head(responses) IN
       \/ r.id # seqID /\ UNCHANGED <<req, seqID, toServer>>
       \/ /\ r.id = seqID /\ r.op = "result"
          /\ req' = [req EXCEPT !.step = "answered", !.v = 0, !.got = r.text] /\ UNCHANGED <<seqID, toServer>>
       \/ /\ r.id = seqID /\ r.op = "modified" /\ seqID < MaxIds /\ ~tr.stopped
          /\ seqID' = seqID + 1 /\ toServer' = Append(toServer, Msg("request", req.d, Shut, seqID'))
          /\ UNCHANGED req
       \/ r.id = seqID /\ r.op = "modified" /\ Ends /\ UNCHANGED <<seqID, toServer>>
    /\ UNCHANGED <<disk, tr, started, openDocs, openOrder, evicted, toClient, srv, mail>>

\* A publication is taken when it has no version or the one just sent.
PublicationFits(m) == m.received /\ m.v \in {0, req.v}

TakeMail ==
    /\ req.step = "watching" /\ PublicationFits(mail[req.d])
    /\ req' = [req EXCEPT !.step = "answered", !.v = 0, !.got = mail[req.d].text]
    /\ mail' = [mail EXCEPT ![req.d] = NoMail]
    /\ UNCHANGED <<disk, tr, started, openDocs, openOrder, evicted, seqID, toServer, toClient, srv, responses>>

\* The call's context ends: a pending request stops its process generation, a
\* wait for a publication does not.
Cancelled ==
    /\ InCall /\ Ends
    /\ IF req.step = "asked" THEN Stop ELSE UNCHANGED <<tr, toServer, srv>>
    /\ mail' = [mail EXCEPT ![req.d] = NoMail]
    /\ UNCHANGED <<disk, started, openDocs, openOrder, evicted, seqID, toClient, responses>>

\* The call sees `done`.
SeesExit ==
    /\ InCall /\ tr.done /\ Ends
    /\ mail' = [mail EXCEPT ![req.d] = NoMail]
    /\ UNCHANGED <<disk, tr, started, openDocs, openOrder, evicted, seqID, toServer, toClient, srv, responses>>
-----------------------------------------------------------------------------
(* Beside the call                                                         *)

Edit(d, t) ==
    /\ disk[d] # t /\ disk' = [disk EXCEPT ![d] = t]
    /\ UNCHANGED <<tr, started, openDocs, openOrder, evicted, seqID, pipes, req>>

\* The server handles its next message.
ServerReads ==
    /\ ~tr.stopped /\ toServer # <<>> /\ Len(toClient) < ReplyBound
    /\ toServer' = Tail(toServer)
    /\ LET m == Head(toServer) IN
       \/ m.op # "request" /\ srv' = [srv EXCEPT ![m.d] = [v |-> m.v, text |-> m.text]] /\ UNCHANGED toClient
       \/ /\ m.op = "request" /\ UNCHANGED srv
          /\ \E op \in {"result", "modified"} : toClient' = Append(toClient, Msg(op, m.d, srv[m.d], m.id))
    /\ UNCHANGED <<disk, tr, started, openDocs, openOrder, evicted, seqID, responses, mail, req>>

\* A response nobody asked for: an unknown or repeated id.
ServerStrays ==
    /\ ~tr.stopped /\ Len(toClient) < ReplyBound
    /\ toClient' = Append(toClient, Msg("result", NoCall.d, Shut, 0))
    /\ UNCHANGED <<disk, tr, started, openDocs, openOrder, evicted, seqID, toServer, srv, responses, mail, req>>

\* The server publishes what it finds in a document it has open.
ServerPublishes(d) ==
    /\ ~tr.stopped /\ srv[d].v > 0 /\ Len(toClient) < ReplyBound
    /\ toClient' = Append(toClient, Msg("publish", d, [srv[d] EXCEPT !.v = IF Versioned THEN @ ELSE 0], 0))
    /\ UNCHANGED <<disk, tr, started, openDocs, openOrder, evicted, seqID, toServer, srv, responses, mail, req>>

\* newLSPTransport's reader: publications go to the mailbox of a watched
\* document, responses to the queue; a full queue ends the generation.
ReaderReads ==
    /\ ~tr.done /\ toClient # <<>>
    /\ toClient' = Tail(toClient)
    /\ LET m == Head(toClient) IN
       \/ /\ m.op = "publish"
          /\ mail' = IF mail[m.d].watched
                     THEN [mail EXCEPT ![m.d] = [watched |-> TRUE, received |-> TRUE, v |-> m.v, text |-> m.text]]
                     ELSE mail
          /\ UNCHANGED <<tr, toServer, srv, responses>>
       \/ /\ m.op # "publish" /\ Len(responses) < QueueCap
          /\ responses' = Append(responses, m) /\ UNCHANGED <<tr, toServer, srv, mail>>
       \/ /\ m.op # "publish" /\ Len(responses) >= QueueCap
          /\ tr' = [stopped |-> TRUE, done |-> TRUE] /\ toServer' = <<>> /\ srv' = [d \in Docs |-> Shut]
          /\ UNCHANGED <<responses, mail>>
    /\ UNCHANGED <<disk, started, openDocs, openOrder, evicted, seqID, req>>

ReaderExits ==
    /\ tr.stopped /\ ~tr.done /\ tr' = [tr EXCEPT !.done = TRUE]
    /\ toClient' = <<>>
    /\ UNCHANGED <<disk, started, openDocs, openOrder, evicted, seqID, toServer, srv, responses, mail, req>>

\* The process dies and cmd.Wait stops the transport; or Close gives a busy
\* client a second and stops it.
ProcessEnds ==
    /\ ~tr.stopped /\ Stop
    /\ UNCHANGED <<disk, started, openDocs, openOrder, evicted, seqID, toClient, responses, mail, req>>

\* Close with the mutex.
CloseClient ==
    /\ ~InCall /\ started
    /\ Stop /\ started' = FALSE
    /\ openDocs' = [d \in Docs |-> Shut] /\ openOrder' = <<>>
    /\ UNCHANGED <<disk, evicted, seqID, toClient, responses, mail, req>>

LspNext ==
    \/ \E kind \in Kinds, d \in Docs : CallBegins(kind, d) \/ CallFails(kind, d)
    \/ StartFails \/ TakeResponse \/ TakeMail \/ Cancelled \/ SeesExit
    \/ \E d \in Docs, t \in Texts : Edit(d, t)
    \/ ServerReads \/ ServerStrays \/ \E d \in Docs : ServerPublishes(d)
    \/ ReaderReads \/ ReaderExits \/ ProcessEnds \/ CloseClient
LspSpec == LspInit /\ [][LspNext]_lspVars
-----------------------------------------------------------------------------
\* An answer a call accepts was computed from the text this call read from
\* disk: by ids, by the order of the pipe and by ending the generation of a
\* cancelled request, whatever edits, restarts and evictions came before.
\* Published diagnostics are so if the server versions them and the document
\* was not evicted and opened again, from version 1.
AnswerIsFresh ==
    (req.step = "answered" /\ (req.kind = "push" => Versioned /\ req.d \notin evicted))
        => req.got = req.text
=============================================================================
