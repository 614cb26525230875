------------------------------- MODULE Routing ------------------------------
(***************************************************************************)
(* The routing system of a node: how the routers that a "custom"           *)
(* configuration describes are made (routing/delegated.go), and the        *)
(* routing commands, which stream the events of a query                    *)
(* (core/commands/routing.go, dht.go).                                     *)
(***************************************************************************)
EXTENDS Integers, Sequences, FiniteSets

CONSTANTS
    RtNames,      \* router names
    RtMethods,    \* method names (MethodNameList)
    RtConfigs,    \* configurations of one router, see RtRouters
    QcRoots,      \* roots to provide: the keys of the DAG below each, a sequence
    QcEvents,     \* events a query finds (a bound)
    QcBuffer      \* capacity of the channel of events

ASSUME RoutingAssumption ==
    /\ IsFiniteSet(RtNames) /\ RtNames # {} /\ IsFiniteSet(RtMethods)
    /\ \A c \in RtConfigs : c.kids \in Seq(RtNames) /\ (c.type # "parallel" => c.kids = <<>>)
    /\ QcRoots \in Seq((SUBSET UNION {QcRoots[i] : i \in DOMAIN QcRoots}) \ {{}})
    /\ QcEvents \in Nat /\ QcBuffer \in Nat \ {0}

-----------------------------------------------------------------------------
(* Parse: a depth-first construction with the routers made so far and the  *)
(* ones on the way.                                                        *)

VARIABLES
    rtPc,         \* "check", "methods", "parse", "ok", "error"
    rtConf,       \* router name to [type, kids]; type "none" when it is missing
    rtMeth,       \* method to router name, or "absent"
    rtTodo,       \* methods still to be looked at
    rtVisited,    \* visited, of the present method
    rtCreated,    \* createdRouters
    rtStack,      \* calls of parse: <<name, next kid>>, 0 when not entered
    rtKind        \* Routing.Type

rtVars == <<rtPc, rtConf, rtMeth, rtTodo, rtVisited, rtCreated, rtStack, rtKind>>
parseVars == <<rtVisited, rtCreated, rtStack>>

RtInit ==
    /\ rtPc = "check" /\ rtKind \in {"dht", "auto", "custom", "none"}
    /\ IF rtKind = "custom"
       THEN rtConf \in [RtNames -> RtConfigs] /\ rtMeth \in [RtMethods -> RtNames \cup {"absent"}]
       ELSE rtConf = [n \in RtNames |-> [type |-> "dht", kids |-> <<>>]] /\ rtMeth = [m \in RtMethods |-> "absent"]
    /\ rtTodo = RtMethods /\ rtVisited = {} /\ rtCreated = {} /\ rtStack = <<>>

\* Methods.Check; the other types take no part in Parse.
RtCheck ==
    /\ rtPc = "check"
    /\ rtPc' = IF rtKind # "custom" THEN "ok"
               ELSE IF \E m \in RtMethods : rtMeth[m] = "absent" THEN "error"
               ELSE "methods"
    /\ UNCHANGED <<rtConf, rtMeth, rtTodo, parseVars, rtKind>>

\* Parse looks at the methods in the order of a map.
Parse ==
    /\ rtPc = "methods"
    /\ IF rtTodo = {} THEN rtPc' = "ok" /\ UNCHANGED <<rtTodo, rtVisited, rtStack>>
       ELSE \E m \in rtTodo :
               /\ rtTodo' = rtTodo \ {m} /\ rtVisited' = {}
               /\ rtStack' = << <<rtMeth[m], 0>> >> /\ rtPc' = "parse"
    /\ UNCHANGED <<rtConf, rtMeth, rtCreated, rtKind>>

Return == IF Len(rtStack) = 1 THEN "methods" ELSE "parse"
Pop == SubSeq(rtStack, 1, Len(rtStack) - 1)
Top == rtStack[Len(rtStack)]
Call(n, frame) == Append([rtStack EXCEPT ![Len(rtStack)] = frame], <<n, 0>>)

\* Mutant: the loop check comes before the look in createdRouters.
ParseRouter_LoopFirst ==
    /\ rtPc = "parse" /\ Top[2] = 0
    /\ LET n == Top[1] IN
       IF n \in rtVisited THEN rtPc' = "error" /\ UNCHANGED parseVars
       ELSE IF n \in rtCreated THEN rtPc' = Return /\ rtStack' = Pop /\ UNCHANGED <<rtVisited, rtCreated>>
       ELSE /\ rtVisited' = rtVisited \cup {n}
            /\ IF rtConf[n].type = "dht"
               THEN rtCreated' = rtCreated \cup {n} /\ rtPc' = Return /\ rtStack' = Pop
               ELSE IF rtConf[n].type = "parallel"
               THEN rtStack' = [rtStack EXCEPT ![Len(rtStack)] = <<n, 1>>] /\ UNCHANGED <<rtPc, rtCreated>>
               ELSE rtPc' = "error" /\ UNCHANGED <<rtCreated, rtStack>>
    /\ UNCHANGED <<rtConf, rtMeth, rtTodo, rtKind>>

\* parse up to its switch, and the routers without kids (http, reframe and DHT
\* are "dht", or "broken" when their parameters are refused).
ParseRouter ==
    /\ rtPc = "parse" /\ Top[2] = 0
    /\ LET n == Top[1] IN
       IF n \in rtCreated THEN rtPc' = Return /\ rtStack' = Pop /\ UNCHANGED <<rtVisited, rtCreated>>
       ELSE IF n \in rtVisited THEN rtPc' = "error" /\ UNCHANGED parseVars
       ELSE /\ rtVisited' = rtVisited \cup {n}
            /\ IF rtConf[n].type = "dht"
               THEN rtCreated' = rtCreated \cup {n} /\ rtPc' = Return /\ rtStack' = Pop
               ELSE IF rtConf[n].type = "parallel"
               THEN rtStack' = [rtStack EXCEPT ![Len(rtStack)] = <<n, 1>>] /\ UNCHANGED <<rtPc, rtCreated>>
               ELSE rtPc' = "error" /\ UNCHANGED <<rtCreated, rtStack>>
    /\ UNCHANGED <<rtConf, rtMeth, rtTodo, rtKind>>

\* The kids of a parallel or sequential router, then the router.
ParseKids ==
    /\ rtPc = "parse" /\ Top[2] > 0
    /\ LET n == Top[1]
           kids == rtConf[n].kids
       IN IF Top[2] <= Len(kids)
          THEN rtStack' = Call(kids[Top[2]], <<n, Top[2] + 1>>) /\ UNCHANGED <<rtPc, rtVisited, rtCreated>>
          ELSE /\ rtCreated' = rtCreated \cup {n} /\ rtPc' = Return /\ rtStack' = Pop
               /\ UNCHANGED rtVisited
    /\ UNCHANGED <<rtConf, rtMeth, rtTodo, rtKind>>

RtNext == RtCheck \/ Parse \/ ParseRouter \/ ParseKids

-----------------------------------------------------------------------------
(* A routing command: a goroutine runs the query and publishes events, the *)
(* command emits them until the channel is closed, which a cancelled       *)
(* context brings about.                                                   *)

VARIABLE qc     \* the command, its goroutine and the channel between them:
                \*   kind     which command
                \*   main     "start", "drain", "wait", then "refused", "nil" or "error"
                \*   worker   the goroutine: "none", "run", "publish", "cancel", "done"
                \*   todo     roots still to be provided; keys, what is left of one
                \*   rec      --recursive; provided, the keys provided
                \*   op       how the query ended: "none", "ok", "error"
                \*   err      the variable, or channel, the error is put in
                \*   ctx      the context is done; gone, because the client went away
                \*   left     events to publish; sent, published
                \*   chan     events in the channel; closed; emitted, received from it

qcVars == <<qc>>

QcInit ==
    qc = [kind |-> "none", main |-> "start", worker |-> "none",
          todo |-> <<>>, keys |-> {}, rec |-> FALSE, provided |-> {},
          op |-> "none", err |-> "nil", ctx |-> "live", gone |-> FALSE,
          left |-> 0, sent |-> 0, chan |-> 0, closed |-> FALSE, emitted |-> 0]

\* Every command checks the node and its arguments, registers for the events
\* and starts its goroutine.
QcBegin(kind, ok, job) ==
    /\ qc.main = "start"
    /\ qc' = IF ok THEN [job EXCEPT !.kind = kind, !.main = "drain", !.worker = "run"]
                   ELSE [qc EXCEPT !.kind = kind, !.main = "refused"]

FindProvidersRoutingCmd(online, valid, n) == QcBegin("findprovs", online /\ valid /\ n >= 1, qc)

\* A provide needs a connection, and every root in the blockstore.
ProvideRefRoutingCmd(online, connected, has, rec) ==
    QcBegin("provide", online /\ connected /\ has, [qc EXCEPT !.todo = QcRoots, !.rec = rec])

FindPeerRoutingCmd(online, valid) == QcBegin("findpeer", online /\ valid, qc)
GetValueRoutingCmd(online, valid) == QcBegin("get", online /\ valid, qc)
PutValueRoutingCmd(online, valid) == QcBegin("put", online /\ valid, qc)
QueryDhtCmd(dht, valid) == QcBegin("query", dht /\ valid, qc)

\* The query of the goroutine has ended, with n events to publish.  A shared
\* variable has the error at once, the error channel of dht query later.
QcRan(ok, n) ==
    qc' = [qc EXCEPT !.worker = "publish", !.left = n, !.todo = <<>>, !.keys = {},
                     !.op = IF ok THEN "ok" ELSE "error",
                     !.err = IF ok \/ qc.kind \in {"query", "findprovs"} THEN @ ELSE "error"]

\* A query fails at the latest when its context is done.
QcOutcome(ok) == qc.ctx = "done" => ~ok

\* FindProvidersAsync gives providers and no error.
FindProvidersRun(n) ==
    /\ qc.worker = "run" /\ qc.kind = "findprovs"
    /\ QcRan(TRUE, n)

\* FindPeer and GetValue publish what they find or the error, PutValue an
\* error only, GetClosestPeers what it found even when it failed.
QcRun(ok, n) ==
    /\ qc.worker = "run" /\ qc.kind \in {"findpeer", "get", "put", "query"}
    /\ QcOutcome(ok)
    /\ QcRan(ok, IF qc.kind \in {"findpeer", "get"} THEN 1
                 ELSE IF qc.kind = "put" THEN IF ok THEN 0 ELSE 1
                 ELSE n)

\* Provide, one key: an error ends the command's work.
ProvideKey(k, ok) ==
    /\ qc.worker = "run" /\ k \in qc.keys /\ QcOutcome(ok)
    /\ IF ok THEN qc' = [qc EXCEPT !.keys = @ \ {k}, !.provided = @ \cup {k}]
             ELSE QcRan(FALSE, 1)

\* provideKeys: the roots one after the other.
ProvideKeys ==
    /\ qc.worker = "run" /\ qc.kind = "provide" /\ ~qc.rec /\ qc.keys = {}
    /\ IF qc.todo = <<>> THEN QcRan(TRUE, 0)
       ELSE qc' = [qc EXCEPT !.todo = Tail(@), !.keys = {CHOOSE k \in Head(qc.todo) : TRUE}]

\* provideKeysRec: a walk, which can fail, then its keys that are not provided.
ProvideKeysRec(ok) ==
    /\ qc.worker = "run" /\ qc.kind = "provide" /\ qc.rec /\ qc.keys = {}
    /\ IF qc.todo = <<>> THEN QcRan(TRUE, 0)
       ELSE /\ QcOutcome(ok)
            /\ IF ok THEN qc' = [qc EXCEPT !.todo = Tail(@), !.keys = Head(qc.todo) \ qc.provided]
                     ELSE QcRan(FALSE, 1)

\* PublishQueryEvent: sent, or dropped when the context is done.
PublishQueryEvent(drop) ==
    /\ qc.worker = "publish" /\ qc.sent < qc.left
    /\ IF drop THEN qc.ctx = "done" ELSE ~qc.closed /\ qc.chan < QcBuffer
    /\ qc' = [qc EXCEPT !.sent = @ + 1, !.chan = IF drop THEN @ ELSE @ + 1]

\* Mutant: the context is cancelled before the events are published.
QcCancel_Early ==
    /\ qc.worker = "publish"
    /\ qc' = [qc EXCEPT !.ctx = "done", !.worker = "cancel"]

\* The deferred cancel, after the last event.
QcCancel ==
    /\ qc.worker = "publish" /\ qc.sent = qc.left
    /\ qc' = [qc EXCEPT !.ctx = "done", !.worker = "cancel"]

\* dht query: the error goes into its channel (in the code before cancel, here
\* after it: no one reads it in between) and the channel is closed.
QcEnd ==
    /\ qc.worker = "cancel"
    /\ qc' = [qc EXCEPT !.worker = "done", !.err = IF qc.kind = "query" /\ qc.op = "error" THEN "error" ELSE @]

\* RegisterForQueryEvents: the channel is closed once the context is done.
QcClose ==
    /\ qc.ctx = "done" /\ ~qc.closed
    /\ qc' = [qc EXCEPT !.closed = TRUE]

\* Mutant: dht query does not wait for its error either.
QcDrain_NoWait ==
    /\ qc.main = "drain" /\ (qc.chan > 0 \/ qc.closed)
    /\ qc' = IF qc.chan > 0 THEN [qc EXCEPT !.chan = @ - 1, !.emitted = @ + 1]
             ELSE [qc EXCEPT !.main = qc.err]

\* The range over the channel, then the shared variable is read, or the error
\* channel is received from.
QcDrain ==
    /\ qc.main = "drain" /\ (qc.chan > 0 \/ qc.closed)
    /\ qc' = IF qc.chan > 0 THEN [qc EXCEPT !.chan = @ - 1, !.emitted = @ + 1]
             ELSE [qc EXCEPT !.main = IF qc.kind = "query" THEN "wait" ELSE qc.err]

QcWait ==
    /\ qc.main = "wait" /\ qc.worker = "done"
    /\ qc' = [qc EXCEPT !.main = qc.err]

\* The client goes away, or --timeout passes; an Emit that fails for it ends
\* the command.
QcTimeout ==
    /\ qc.main \in {"drain", "wait"} /\ qc.ctx = "live"
    /\ qc' = [qc EXCEPT !.ctx = "done", !.gone = TRUE]

EmitFails ==
    /\ qc.main = "drain" /\ qc.gone /\ qc.chan > 0
    /\ qc' = [qc EXCEPT !.main = "error"]

QcNext ==
    \/ \E online, a, b, c \in BOOLEAN : ProvideRefRoutingCmd(online, a, b, c)
    \/ \E online, valid \in BOOLEAN :
          \/ FindPeerRoutingCmd(online, valid) \/ GetValueRoutingCmd(online, valid)
          \/ PutValueRoutingCmd(online, valid) \/ QueryDhtCmd(online, valid)
          \/ \E n \in 0..QcEvents : FindProvidersRoutingCmd(online, valid, n)
    \/ ProvideKeys
    \/ \E ok \in BOOLEAN :
          \/ PublishQueryEvent(ok) \/ ProvideKeysRec(ok)
          \/ \E k \in qc.keys : ProvideKey(k, ok)
          \/ \E n \in 0..QcEvents : QcRun(ok, n)
    \/ \E n \in 0..QcEvents : FindProvidersRun(n)
    \/ QcCancel \/ QcEnd \/ QcClose \/ QcDrain \/ QcWait \/ QcTimeout \/ EmitFails

-----------------------------------------------------------------------------
(* Properties.                                                             *)

RtTypeOK ==
    /\ rtPc \in {"check", "methods", "parse", "ok", "error"}
    /\ rtVisited \subseteq RtNames /\ rtCreated \subseteq RtNames
    /\ Len(rtStack) <= Cardinality(RtNames) + 1
    /\ rtPc = "parse" => rtStack # <<>>

QcTypeOK ==
    /\ qc.chan \in 0..QcBuffer /\ qc.emitted <= qc.sent /\ qc.sent <= qc.left
    /\ qc.worker \in {"none", "run", "publish", "cancel", "done"}
    /\ qc.main \in {"start", "refused", "drain", "wait", "nil", "error"}
    /\ qc.op \in {"none", "ok", "error"} /\ qc.err \in {"nil", "error"}
    /\ qc.todo # <<>> => qc.kind = "provide"

\* The routers a set of routers depends on, itself included: what every set
\* has that has them and the kids of its members.  What can be built:
\* everything there, of a known type, and no loop.
RtKids(conf, n) == {conf[n].kids[i] : i \in 1..Len(conf[n].kids)}
RtReach(conf, S) ==
    {n \in RtNames : \A X \in SUBSET RtNames :
        S \subseteq X /\ (\A x \in X : RtKids(conf, x) \subseteq X) => n \in X}
RtBuilds(conf, n) == conf[n].type \in {"dht", "parallel"} /\ n \notin RtReach(conf, RtKids(conf, n))
RtBuildable ==
    /\ \A m \in RtMethods : rtMeth[m] # "absent"
    /\ \A n \in RtReach(rtConf, {rtMeth[m] : m \in RtMethods}) : RtBuilds(rtConf, n)

\* Parse accepts exactly the configurations that can be built, shared routers
\* and several methods included, in whatever order the methods come (parse).
RtParses ==
    rtKind = "custom" => /\ rtPc = "error" => ~RtBuildable
                         /\ rtPc = "ok" => RtBuildable

\* Every event of the query is emitted before the command returns
\* (PublishQueryEvent before cancel), unless the request was cancelled.
QcAllEvents ==
    qc.main \in {"nil", "error"} /\ ~qc.gone => qc.emitted = qc.left /\ qc.worker # "run"

\* A command that returns without an error has done what it was asked to, for
\* a provide every key of every root; the commands with a shared error
\* variable may miss an error once the request is cancelled, dht query never.
QcErrorSeen ==
    qc.main = "nil" /\ ~(qc.gone /\ qc.kind # "query") =>
        /\ qc.op = "ok"
        /\ qc.kind = "provide" => \A i \in DOMAIN QcRoots :
              IF qc.rec THEN QcRoots[i] \subseteq qc.provided ELSE QcRoots[i] \cap qc.provided # {}

\* Exactly the configurations that can be built are accepted, and a routing
\* command shows every event and its error (Parse, routing commands).
RoutingSound == RtTypeOK /\ QcTypeOK /\ RtParses /\ QcAllEvents /\ QcErrorSeen
=============================================================================
