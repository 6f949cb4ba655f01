------------------------------ MODULE Requests ------------------------------
(***************************************************************************)
(* The requests of a device that has a wallet: client.Sign with the        *)
(* server's SignHandler, client.Export with ExportHandler, and the access  *)
(* tokens that admit them.                                                 *)
(* Sources: client/client.go, server/handlers.go, server/tss_sign.go,      *)
(* server/tss_recover.go, server/vault/wallet.go, utils/tss/tssManager.go  *)
(* and utils/tss/serviceSigner.go.                                         *)
(*                                                                         *)
(* Each call gets a fresh token, so the token of a call is named by it. Of *)
(* the rounds of a signature only the last message of each side is         *)
(* modelled, as in Dkg.                                                    *)
(***************************************************************************)
EXTENDS Naturals, Sequences

CONSTANTS Signs, Exports,  \* calls of client.Sign and of client.Export
          Prompt,          \* no context ends between two reads of its connection
          MaxFaults        \* bound on the failures of a behaviour

Calls == Signs \cup Exports

ASSUME RequestsAssumption ==
    /\ Signs \cap Exports = {}
    /\ Prompt \in BOOLEAN
    /\ MaxFaults \in Nat

Sides    == {"client", "server"}
Other(s) == IF s = "client" THEN "server" ELSE "client"

VARIABLES
    tokens,    \* _cache: the calls whose access token is there
    main,      \* main[c]: the goroutine of the client's call and the handler
    receive,   \* receive[c][s]: tss.Receive of side s: in Read, or at its select
    send,      \* send[c][s]: tss.Send of side s
    slow,      \* the signatures that may outlive the minute of their contexts
    devMode,   \* DevMode of the configuration of the server
    expired,   \* expired[c]: the sides whose context is over
    errs,      \* errs[c]: the goroutines of the client that left an error
    conn,      \* conn[c]: the websocket connection
    wire,      \* wire[c][s]: messages in flight to side s
    tss,       \* tss[c][s]: the signing process of side s
    made, sent, got,  \* the last TSS messages, as in Dkg
    response,  \* response[c]: the body of the answer to an export
    faults     \* failures so far

goVars  == <<receive, send, expired, errs>>
netVars == <<conn, wire>>
tssVars == <<tss, made, sent, got>>
live    == <<tokens, main, goVars, netVars, tssVars, response, faults>>
vars    == <<slow, devMode, live>>

\* The type invariant: the states that the requests can be in.
TypeOK ==
    /\ slow     \subseteq Signs
    /\ devMode  \in BOOLEAN
    /\ tokens   \subseteq Calls
    /\ main     \in [Calls ->
          [client : {"idle", "token", "dialled", "tss", "wait", "post", "ok", "err"},
           server : {"none", "tss", "sleep", "closed", "export", "done", "ret"}]]
    /\ receive  \in [Calls -> [Sides -> {"off", "read", "top", "ret"}]]
    /\ send     \in [Calls -> [Sides -> {"off", "run", "ret"}]]
    /\ expired  \in [Calls -> SUBSET Sides]
    /\ errs     \in [Calls -> SUBSET {"Receive", "Send"}]
    /\ conn     \in [Calls -> {"none", "open", "over"}]
    /\ wire     \in [Calls -> [Sides -> Seq({"tss", "end"})]]
    /\ tss      \in [Calls -> [Sides -> {"off", "run", "done", "failed"}]]
    /\ made     \in [Calls -> SUBSET Sides]
    /\ sent     \in [Calls -> SUBSET Sides]
    /\ got      \in [Calls -> SUBSET Sides]
    /\ response \in [Calls -> {"none", "key", "text"}]
    /\ faults   \in 0..MaxFaults

Init ==
    /\ slow     \in SUBSET Signs
    /\ devMode  \in BOOLEAN
    /\ tokens   = {}
    /\ main     = [c \in Calls |-> [client |-> "idle", server |-> "none"]]
    /\ receive  = [c \in Calls |-> [s \in Sides |-> "off"]]
    /\ send     = [c \in Calls |-> [s \in Sides |-> "off"]]
    /\ expired  = [c \in Calls |-> {}]
    /\ errs     = [c \in Calls |-> {}]
    /\ conn     = [c \in Calls |-> "none"]
    /\ wire     = [c \in Calls |-> [s \in Sides |-> <<>>]]
    /\ tss      = [c \in Calls |-> [s \in Sides |-> "off"]]
    /\ made     = [c \in Calls |-> {}]
    /\ sent     = [c \in Calls |-> {}]
    /\ got      = [c \in Calls |-> {}]
    /\ response = [c \in Calls |-> "none"]
    /\ faults   = 0

-----------------------------------------------------------------------------
Fault == faults < MaxFaults /\ faults' = faults + 1

\* Side s closes the connection, with whatever status: the reader of the other
\* side treats them alike.
Close(c, s) ==
    /\ conn' = [conn EXCEPT ![c] = "over"]
    /\ wire' = IF conn[c] = "open"
               THEN [wire EXCEPT ![c][Other(s)] = Append(@, "end")]
               ELSE wire

ClientGoes(c, state) == main' = [main EXCEPT ![c].client = state]

HandlerGoes(c, state) == main' = [main EXCEPT ![c].server = state]

\* A goroutine of side s writes to errs.  The handler never reads its own.
Report(c, s, g) ==
    errs' = IF s = "client" THEN [errs EXCEPT ![c] = @ \cup {g}] ELSE errs

\* Side s has not returned.
Running(c, s) == IF s = "client" THEN main[c].client \in {"tss", "wait"}
                                 ELSE main[c].server \in {"tss", "sleep", "closed"}

-----------------------------------------------------------------------------
(* Access tokens.                                                          *)

\* r.URL.Scheme, as net/http sets it: the request line that a client sends names
\* a path and a query only.
UrlScheme == ""

\* The check of a middleware that asks for the scheme.
SchemeAccepted(scheme) == devMode \/ UrlScheme = scheme

\* Mutant of Authorize: the parameters are stored under another key.
AuthorizeOtherKey(c) ==
    /\ main[c].client = "idle"
    /\ SchemeAccepted("https")
    /\ tokens' = tokens \cup {"userId"}
    /\ ClientGoes(c, "token")
    /\ UNCHANGED <<goVars, netVars, tssVars, response, faults>>

\* Mutant of Authorize: the parameters are not stored.
AuthorizeNotStored(c) ==
    /\ main[c].client = "idle"
    /\ SchemeAccepted("https")
    /\ ClientGoes(c, "token")
    /\ UNCHANGED <<tokens, goVars, netVars, tssVars, response, faults>>

\* getAccessToken and AuthorizeHandler, behind identityMiddleware.
Authorize(c) ==
    /\ main[c].client = "idle"
    /\ SchemeAccepted("https")
    /\ tokens' = tokens \cup {c}
    /\ ClientGoes(c, "token")
    /\ UNCHANGED <<goVars, netVars, tssVars, response, faults>>

\* identityMiddleware refuses an unsecure connection.
SchemeRefused(c) ==
    /\ main[c].client = "idle"
    /\ ~SchemeAccepted("https")
    /\ ClientGoes(c, "err")
    /\ UNCHANGED <<tokens, goVars, netVars, tssVars, response, faults>>

\* identityMiddleware refuses: no configuration, or the provider does not know
\* the user.
IdentityRefused(c) ==
    /\ main[c].client = "idle"
    /\ SchemeAccepted("https")
    /\ Fault
    /\ ClientGoes(c, "err")
    /\ UNCHANGED <<tokens, goVars, netVars, tssVars, response>>

\* The answer with the token is lost: getAuthDataFromServer fails.
TokenLost(c) ==
    /\ main[c].client = "idle"
    /\ SchemeAccepted("https")
    /\ Fault
    /\ tokens' = tokens \cup {c}
    /\ ClientGoes(c, "err")
    /\ UNCHANGED <<goVars, netVars, tssVars, response>>

\* The token expires after two minutes.
Expire(c) ==
    /\ c \in tokens
    /\ Fault
    /\ tokens' = tokens \ {c}
    /\ UNCHANGED <<main, goVars, netVars, tssVars, response>>

\* authMiddleware lets the request pass, that of /export too only with "wss".
Authenticated(c) == SchemeAccepted("wss") /\ c \in tokens

-----------------------------------------------------------------------------
(* Sign: the connection.                                                   *)

\* Sign dials; SignHandler finds the wallet, creates its signer, accepts the
\* connection and starts Send, Receive and the process.
SignHandler(c) ==
    /\ c \in Signs
    /\ main[c].client = "token"
    /\ IF Authenticated(c)
       THEN /\ main' = [main EXCEPT ![c] = [client |-> "dialled", server |-> "tss"]]
            /\ receive' = [receive EXCEPT ![c]["server"] = "top"]
            /\ send' = [send EXCEPT ![c]["server"] = "run"]
            /\ tss' = [tss EXCEPT ![c]["server"] = "run"]
            /\ conn' = [conn EXCEPT ![c] = "open"]
       ELSE /\ ClientGoes(c, "err")
            /\ UNCHANGED <<receive, send, tss, conn>>
    /\ UNCHANGED <<tokens, expired, errs, wire, made, sent, got, response, faults>>

\* The server is not reached, RetrieveWallet or NewServerSigner fails, or the
\* connection is not accepted: Dial returns an error.
SignHandlerFails(c) ==
    /\ c \in Signs
    /\ main[c].client = "token"
    /\ Fault
    /\ ClientGoes(c, "err")
    /\ UNCHANGED <<tokens, goVars, netVars, tssVars, response>>

\* The client creates its signer and starts Send, Receive and the process.
NewClientSigner(c) ==
    /\ main[c].client = "dialled"
    /\ ClientGoes(c, "tss")
    /\ receive' = [receive EXCEPT ![c]["client"] = "top"]
    /\ send' = [send EXCEPT ![c]["client"] = "run"]
    /\ tss' = [tss EXCEPT ![c]["client"] = "run"]
    /\ UNCHANGED <<tokens, expired, errs, netVars, made, sent, got, response, faults>>

NewClientSignerFails(c) ==
    /\ main[c].client = "dialled"
    /\ Fault
    /\ ClientGoes(c, "err")
    /\ Close(c, "client")
    /\ UNCHANGED <<tokens, goVars, tssVars, response>>

-----------------------------------------------------------------------------
(* Sign: tss.Receive and tss.Send of each side, and their context.         *)

\* Read returns message m.
Reads(c, s, m) ==
    /\ Running(c, s)
    /\ receive[c][s] = "read"
    /\ wire[c][s] # <<>>
    /\ Head(wire[c][s]) = m
    /\ wire' = [wire EXCEPT ![c][s] = Tail(@)]

\* A TSS message is handled; the loop goes back to its select.
ReceiveTss(c, s) ==
    /\ Reads(c, s, "tss")
    /\ got' = [got EXCEPT ![c] = @ \cup {s}]
    /\ receive' = [receive EXCEPT ![c][s] = "top"]
    /\ UNCHANGED <<tokens, main, send, expired, errs, conn, tss, made, sent,
                   response, faults>>

\* stringToMsg or HandleMessage fails.
ReceiveTssFails(c, s) ==
    /\ Reads(c, s, "tss")
    /\ Fault
    /\ receive' = [receive EXCEPT ![c][s] = "ret"]
    /\ Report(c, s, "Receive")
    /\ UNCHANGED <<tokens, main, send, expired, conn, tssVars, response>>

\* Mutant of ReceiveEnds: a closed connection is no error.
ReceiveEndsSilently(c, s) ==
    /\ Reads(c, s, "end")
    /\ receive' = [receive EXCEPT ![c][s] = "ret"]
    /\ UNCHANGED <<tokens, main, send, expired, errs, conn, tssVars, response, faults>>

\* Read fails because the connection is over.
ReceiveEnds(c, s) ==
    /\ Reads(c, s, "end")
    /\ receive' = [receive EXCEPT ![c][s] = "ret"]
    /\ Report(c, s, "Receive")
    /\ UNCHANGED <<tokens, main, send, expired, conn, tssVars, response, faults>>

\* The select of the loop: a context that is over ends it without an error.
ReceiveNext(c, s) ==
    /\ Running(c, s)
    /\ receive[c][s] = "top"
    /\ receive' = [receive EXCEPT ![c][s] = IF s \in expired[c] THEN "ret" ELSE "read"]
    /\ UNCHANGED <<tokens, main, send, expired, errs, netVars, tssVars, response, faults>>

\* Mutant of Deadline: a Read that ends with its context is no error.
DeadlineSilently(c, s) ==
    /\ c \in slow
    /\ Running(c, s) \/ (s = "client" /\ main[c].client = "dialled")
    /\ s \notin expired[c]
    /\ Prompt => receive[c][s] # "top"
    /\ expired' = [expired EXCEPT ![c] = @ \cup {s}]
    /\ IF receive[c][s] = "read"
       THEN receive' = [receive EXCEPT ![c][s] = "ret"] /\ Close(c, s)
       ELSE UNCHANGED <<receive, netVars>>
    /\ UNCHANGED <<tokens, main, send, errs, tssVars, response, faults>>

\* The minute of the context of side s, which the client starts before it
\* dials, is over.  A Read in progress fails and breaks the connection.
Deadline(c, s) ==
    /\ c \in slow
    /\ Running(c, s) \/ (s = "client" /\ main[c].client = "dialled")
    /\ s \notin expired[c]
    /\ Prompt => receive[c][s] # "top"
    /\ expired' = [expired EXCEPT ![c] = @ \cup {s}]
    /\ IF receive[c][s] = "read"
       THEN /\ receive' = [receive EXCEPT ![c][s] = "ret"]
            /\ Report(c, s, "Receive")
            /\ Close(c, s)
       ELSE UNCHANGED <<receive, errs, netVars>>
    /\ UNCHANGED <<tokens, main, send, tssVars, response, faults>>

\* tss.Send takes the last message and writes it; a write to a connection that
\* is over may go unnoticed.
Send(c, s) ==
    /\ Running(c, s)
    /\ send[c][s] = "run"
    /\ s \in made[c] \ sent[c]
    /\ sent' = [sent EXCEPT ![c] = @ \cup {s}]
    /\ wire' = IF conn[c] = "open"
               THEN [wire EXCEPT ![c][Other(s)] = Append(@, "tss")]
               ELSE wire
    /\ UNCHANGED <<tokens, main, goVars, conn, tss, made, got, response, faults>>

\* A write fails, because the connection or the context is over.
SendFails(c, s) ==
    /\ Running(c, s)
    /\ send[c][s] = "run"
    /\ s \notin sent[c]
    /\ conn[c] = "over" \/ s \in expired[c]
    /\ send' = [send EXCEPT ![c][s] = "ret"]
    /\ Report(c, s, "Send")
    /\ Close(c, s)
    /\ UNCHANGED <<tokens, main, receive, expired, tssVars, response, faults>>

\* The select of the loop finds the context over.
SendStops(c, s) ==
    /\ Running(c, s)
    /\ send[c][s] = "run"
    /\ s \in expired[c]
    /\ send' = [send EXCEPT ![c][s] = "ret"]
    /\ UNCHANGED <<tokens, main, receive, expired, errs, netVars, tssVars, response,
                   faults>>

-----------------------------------------------------------------------------
(* Sign: the signing process (the alice library) and the two mains.        *)

\* Side s has everything but the last message of the other side and queues its
\* own.
MakeLast(c, s) ==
    /\ tss[c][s] = "run"
    /\ \A t \in Sides : tss[c][t] # "off"
    /\ receive[c][s] # "ret"
    /\ s \notin made[c]
    /\ made' = [made EXCEPT ![c] = @ \cup {s}]
    /\ UNCHANGED <<tokens, main, goVars, netVars, tss, sent, got, response, faults>>

\* OnStateChanged(StateDone): side s has the signature.
TssDone(c, s) ==
    /\ tss[c][s] = "run"
    /\ s \in made[c] \cap got[c]
    /\ tss' = [tss EXCEPT ![c][s] = "done"]
    /\ UNCHANGED <<tokens, main, goVars, netVars, made, sent, got, response, faults>>

\* OnStateChanged(StateFailed), no result, or PostProcess fails.
TssFails(c, s) ==
    /\ tss[c][s] = "run"
    /\ Fault
    /\ tss' = [tss EXCEPT ![c][s] = "failed"]
    /\ UNCHANGED <<tokens, main, goVars, netVars, made, sent, got, response>>

\* Process returns to Sign.
ClientProcess(c) ==
    /\ main[c].client = "tss"
    /\ \/ /\ tss[c]["client"] = "done"
          /\ ClientGoes(c, "wait")
          /\ UNCHANGED netVars
       \/ /\ tss[c]["client"] = "failed"
          /\ ClientGoes(c, "err")
          /\ Close(c, "client")
    /\ UNCHANGED <<tokens, goVars, tssVars, response, faults>>

\* Mutant of ClientReturn: errs is read while the process is still under way.
ClientReturnEarly(c) ==
    /\ main[c].client \in {"tss", "wait"}
    /\ errs[c] # {}
    /\ ClientGoes(c, "ok")
    /\ Close(c, "client")
    /\ UNCHANGED <<tokens, goVars, tssVars, response, faults>>

\* Sign waits on errs for the end of the connection, whatever the error is,
\* and returns the signature.
ClientReturn(c) ==
    /\ main[c].client = "wait"
    /\ errs[c] # {}
    /\ ClientGoes(c, "ok")
    /\ Close(c, "client")
    /\ UNCHANGED <<tokens, goVars, tssVars, response, faults>>

\* Process returns to SignHandler.
HandlerProcess(c) ==
    /\ main[c].server = "tss"
    /\ \/ /\ tss[c]["server"] = "done"
          /\ HandlerGoes(c, "sleep")
          /\ UNCHANGED netVars
       \/ /\ tss[c]["server"] = "failed"
          /\ HandlerGoes(c, "ret")
          /\ Close(c, "server")
    /\ UNCHANGED <<tokens, goVars, tssVars, response, faults>>

\* Mutant of HandlerClose: without the sleep.
HandlerCloseAtOnce(c) ==
    /\ main[c].server = "sleep"
    /\ HandlerGoes(c, "closed")
    /\ Close(c, "server")
    /\ UNCHANGED <<tokens, goVars, tssVars, response, faults>>

\* After a second, which is enough for tss.Send to empty its queue (it polls
\* every 10 ms), SignHandler closes the connection.
HandlerClose(c) ==
    /\ main[c].server = "sleep"
    /\ "server" \in sent[c] \/ send[c]["server"] = "ret"
    /\ HandlerGoes(c, "closed")
    /\ Close(c, "server")
    /\ UNCHANGED <<tokens, goVars, tssVars, response, faults>>

\* It deletes the token last.
HandlerDelete(c) ==
    /\ main[c].server = "closed"
    /\ HandlerGoes(c, "done")
    /\ tokens' = tokens \ {c}
    /\ UNCHANGED <<goVars, netVars, tssVars, response, faults>>

\* The connection is lost, with the last messages of each direction.
Drop(c) ==
    /\ conn[c] = "open"
    /\ Fault
    /\ conn' = [conn EXCEPT ![c] = "over"]
    /\ \E i \in 0..Len(wire[c]["client"]), j \in 0..Len(wire[c]["server"]) :
          wire' = [wire EXCEPT
                      ![c]["client"] = Append(SubSeq(@, 1, i), "end"),
                      ![c]["server"] = Append(SubSeq(@, 1, j), "end")]
    /\ UNCHANGED <<tokens, main, goVars, tssVars, response>>

-----------------------------------------------------------------------------
(* Export.                                                                 *)

\* Export posts the share; authMiddleware passes the request on or refuses it
\* with a text.
Export(c) ==
    /\ c \in Exports
    /\ main[c].client = "token"
    /\ IF Authenticated(c)
       THEN /\ main' = [main EXCEPT ![c] = [client |-> "post", server |-> "export"]]
            /\ UNCHANGED response
       ELSE /\ ClientGoes(c, "post")
            /\ response' = [response EXCEPT ![c] = "text"]
    /\ UNCHANGED <<tokens, goVars, netVars, tssVars, faults>>

\* ExportHandler recovers the key, deletes the token and answers.
ExportHandler(c) ==
    /\ main[c].server = "export"
    /\ HandlerGoes(c, "done")
    /\ tokens' = tokens \ {c}
    /\ response' = [response EXCEPT ![c] = "key"]
    /\ UNCHANGED <<goVars, netVars, tssVars, faults>>

\* The wallet is not found or the shares do not give its key: an error text.
ExportHandlerFails(c) ==
    /\ main[c].server = "export"
    /\ Fault
    /\ HandlerGoes(c, "ret")
    /\ response' = [response EXCEPT ![c] = "text"]
    /\ UNCHANGED <<tokens, goVars, netVars, tssVars>>

\* Export returns the body, whatever the status of the answer.
ExportReturn(c) ==
    /\ main[c].client = "post"
    /\ response[c] # "none"
    /\ ClientGoes(c, "ok")
    /\ UNCHANGED <<tokens, goVars, netVars, tssVars, response, faults>>

\* The request or its answer is lost.
ExportPostFails(c) ==
    /\ main[c].client = "post"
    /\ Fault
    /\ ClientGoes(c, "err")
    /\ UNCHANGED <<tokens, goVars, netVars, tssVars, response>>

-----------------------------------------------------------------------------
ClientSteps(c) ==
    \/ Authorize(c)
    \/ SchemeRefused(c)
    \/ NewClientSigner(c)
    \/ ClientProcess(c)
    \/ ClientReturn(c)
    \/ Export(c)
    \/ ExportReturn(c)

HandlerSteps(c) ==
    \/ SignHandler(c)
    \/ HandlerProcess(c)
    \/ HandlerClose(c)
    \/ HandlerDelete(c)
    \/ ExportHandler(c)

\* tss.Receive of side s goes on: Read returns, or the select.
ReceiveSteps(c, s) == ReceiveTss(c, s) \/ ReceiveEnds(c, s) \/ ReceiveNext(c, s)

SendSteps(c, s) == Send(c, s) \/ SendFails(c, s) \/ SendStops(c, s)

Failures(c) ==
    \/ IdentityRefused(c)
    \/ TokenLost(c)
    \/ Expire(c)
    \/ SignHandlerFails(c)
    \/ NewClientSignerFails(c)
    \/ Drop(c)
    \/ ExportHandlerFails(c)
    \/ ExportPostFails(c)
    \/ \E s \in Sides : ReceiveTssFails(c, s) \/ TssFails(c, s)

Next ==
    /\ \E c \in Calls :
          \/ ClientSteps(c)
          \/ HandlerSteps(c)
          \/ Failures(c)
          \/ \E s \in Sides : \/ ReceiveSteps(c, s)
                              \/ SendSteps(c, s)
                              \/ MakeLast(c, s)
                              \/ TssDone(c, s)
                              \/ Deadline(c, s)
    /\ UNCHANGED <<slow, devMode>>

\* Each goroutine that can run eventually runs, and time passes.
Fairness ==
    \A c \in Calls :
        /\ WF_live(ClientSteps(c))
        /\ WF_live(HandlerSteps(c))
        /\ \A s \in Sides : /\ WF_live(ReceiveSteps(c, s))
                            /\ WF_live(SendSteps(c, s))
                            /\ WF_live(MakeLast(c, s))
                            /\ WF_live(TssDone(c, s))
                            /\ WF_live(Deadline(c, s))

Spec == Init /\ [][Next]_vars /\ Fairness

-----------------------------------------------------------------------------
(* Properties.                                                             *)

\* While Sign waits on errs for the end of the connection and there is no error
\* yet, one is sure to come: its Receive has not returned and its context is not
\* over, and the end of the connection is on its way or the handler, which closes
\* the connection, has not come to it.  (As for SignatureReturned, no context
\* ends between two reads.)
NeverStranded ==
    Prompt => \A c \in Signs :
        main[c].client = "wait" /\ errs[c] = {} =>
            /\ receive[c]["client"] \in {"top", "read"}
            /\ "client" \notin expired[c]
            /\ \/ \E i \in 1..Len(wire[c]["client"]) : wire[c]["client"][i] = "end"
               \/ conn[c] = "open" /\ main[c].server \in {"tss", "sleep"}

\* Sign returns a signature only when its process has one, to which both sides
\* sent their last message, or made it in the case of the client.
SignedByBoth ==
    \A c \in Signs : main[c].client = "ok" =>
        tss[c]["client"] = "done" /\ Sides \subseteq made[c] /\ "server" \in sent[c]

\* In dev mode, without a failure no request is refused and no handler gives up,
\* whatever the contexts do: the token is in the cache until the handler is done
\* with it, and what Export returns is the key.  Outside dev mode no request gets
\* as far as a token, since r.URL.Scheme is empty (identityMiddleware).
RefusedOnlyOnFault ==
    IF devMode
    THEN faults = 0 => \A c \in Calls :
            /\ main[c].client # "err" /\ main[c].server # "ret"
            /\ c \in Exports /\ main[c].client = "ok" => response[c] = "key"
    ELSE tokens = {} /\ \A c \in Calls : main[c].client \in {"idle", "err"}

\* Without failures a request that got its token (in dev mode) succeeds within its minute, and
\* the server ends with the token deleted.
RequestCompletes ==
    \A c \in Calls :
        main[c].client = "token" /\ c \notin slow
            ~> (main[c].client = "ok" /\ c \notin tokens) \/ faults > 0

\* A Sign whose context ends if nothing else does returns once its process has
\* the signature, however the connection or
\* the server ends ("even if badly closed, we continue as we have the
\* signature").  The code keeps it if no context ends between two reads, which
\* are a moment apart; otherwise both goroutines may find the context over at
\* their select and return without the error that Sign waits for.
SignatureReturned ==
    \A c \in Signs :
        tss[c]["client"] = "done" /\ main[c].client = "tss" /\ c \in slow
            ~> main[c].client = "ok"
=============================================================================
