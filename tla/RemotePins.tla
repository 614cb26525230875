----------------------------- MODULE RemotePins -----------------------------
(***************************************************************************)
(* `ipfs pin remote add, ls, rm` and `ipfs pin remote service ls --stat`   *)
(* (core/commands/pin/remotepin.go) against one pinning service, which     *)
(* works on its requests meanwhile and whose calls may fail, also after    *)
(* they took effect.  A command looks the service up in the configuration  *)
(* and then talks to it in several calls.                                  *)
(*                                                                         *)
(* The client (go-pinning-service-http-client) and the service are         *)
(* external.  CIDs and names are one kind of label that a query may ask    *)
(* for.                                                                    *)
(***************************************************************************)
EXTENDS Integers, Sequences, FiniteSets

CONSTANTS
    RrClients,      \* who runs commands
    MaxRequests,    \* request IDs are 1..MaxRequests (a bound)
    RrNames,        \* names of pins
    MaxRemote,      \* commands of a behaviour (a bound)
    MaxRrFaults     \* failed calls (a bound)

\* The service has two requests to begin with.
ASSUME RemotePinsAssumption ==
    MaxRequests \in Nat /\ MaxRequests >= 2 /\ MaxRemote \in Nat /\ MaxRrFaults \in Nat

Statuses == {"queued", "pinning", "pinned", "failed"}
RrIds == 1..MaxRequests

VARIABLES
    rrConf,     \* the endpoint in Pinning.RemoteServices, "absent" if not there
    rrPins,     \* the requests of the service
    rrMade,     \* how many it has had
    rrPinned,   \* the requests that have been pinned at some time
    rrJob,      \* the command of each client
    rrRuns, rrFaults

rrVars == <<rrConf, rrPins, rrMade, rrPinned, rrJob, rrRuns, rrFaults>>

NoName == ""    \* a query without a name
NoPin == [name |-> NoName, status |-> "none"]
(* A command: what it is, how far it is, its query, what it has found,     *)
(* deleted and counted, and what matched its query all along and ever.     *)
RrIdle == [op |-> "none", at |-> "end", name |-> NoName, status |-> {}, flag |-> FALSE, id |-> 0, list |-> <<>>,
           gone |-> {}, kept |-> {}, ever |-> {}, counts |-> {}, ok |-> TRUE]

RemoteCmd == [op : {"none", "add", "ls", "rm", "stat"}, at : {"end", "post", "poll", "list", "delete", "stat"},
              name : RrNames \cup {NoName}, status : SUBSET Statuses, flag : BOOLEAN, id : Nat, list : Seq(RrIds),
              gone : SUBSET RrIds, kept : SUBSET RrIds, ever : SUBSET RrIds, counts : SUBSET Statuses, ok : BOOLEAN]

RrTypeOK ==
    /\ rrConf \in {"absent", "url"}
    /\ rrPins \in [RrIds -> {NoPin} \cup [name : RrNames, status : Statuses]]
    /\ rrMade \in 0..MaxRequests /\ rrPinned \subseteq 1..rrMade
    /\ rrJob \in [RrClients -> RemoteCmd]
    /\ \A c \in RrClients :
        /\ rrJob[c].id \in 0..rrMade /\ rrJob[c].gone \subseteq 1..rrMade
        /\ rrJob[c].kept \subseteq rrJob[c].ever
    /\ rrRuns \in 0..MaxRemote /\ rrFaults \in 0..MaxRrFaults

\* Two requests under one name are enough for a query that matches both.
RrInit ==
    /\ rrConf = "url"
    /\ \E n \in RrNames : rrPins = [i \in RrIds |->
            IF i <= 2 THEN [name |-> n, status |-> IF i = 1 THEN "pinned" ELSE "pinning"] ELSE NoPin]
    /\ rrMade = 2 /\ rrPinned = {1}
    /\ rrJob = [c \in RrClients |-> RrIdle]
    /\ rrRuns = 0 /\ rrFaults = 0

Matches(j, p) == p.status \in j.status /\ (j.name = NoName \/ p.name = j.name)
Matching(j, pins) == {i \in RrIds : Matches(j, pins[i])}

\* What matched the query of a command from its beginning on, and at some time.
RrNoted(jobs, pins) == [c \in RrClients |->
    IF jobs[c].at # "list" THEN jobs[c]
    ELSE [jobs[c] EXCEPT !.kept = @ \cap Matching(jobs[c], pins),
                         !.ever = @ \cup Matching(jobs[c], pins)]]

RrStep(c, j) == /\ rrJob' = [rrJob EXCEPT ![c] = j]
                /\ UNCHANGED <<rrConf, rrPins, rrMade, rrPinned, rrRuns>>
NoFault == UNCHANGED rrFaults
Fault == rrFaults < MaxRrFaults /\ rrFaults' = rrFaults + 1
RrEnd(j, ok) == [j EXCEPT !.at = "end", !.ok = ok]

-----------------------------------------------------------------------------
(* The configuration and the service.                                      *)

(* normalizeEndpoint cleans the path and refuses a query, the suffix /pins *)
(* and what is no HTTP URL.                                                *)
NormalizeEndpoint(e) == IF e \in {"url", "urlSlashes"} THEN "url" ELSE "error"

RemoteServiceAdd(e) ==
    /\ rrRuns < MaxRemote /\ rrRuns' = rrRuns + 1
    /\ rrConf = "absent" /\ NormalizeEndpoint(e) # "error"
    /\ rrConf' = NormalizeEndpoint(e)
    /\ UNCHANGED <<rrPins, rrMade, rrPinned, rrJob, rrFaults>>

RemoteServiceRm ==
    /\ rrRuns < MaxRemote /\ rrRuns' = rrRuns + 1
    /\ rrConf' = "absent"
    /\ UNCHANGED <<rrPins, rrMade, rrPinned, rrJob, rrFaults>>

ServiceWorks(i, s) ==
    /\ \/ rrPins[i].status = "queued" /\ s = "pinning"
       \/ rrPins[i].status = "pinning" /\ s \in {"pinned", "failed"}
    /\ \E pins \in {[rrPins EXCEPT ![i].status = s]} :
        rrPins' = pins /\ rrJob' = RrNoted(rrJob, pins)
    /\ rrPinned' = rrPinned \cup (IF s = "pinned" THEN {i} ELSE {})
    /\ UNCHANGED <<rrConf, rrMade, rrRuns, rrFaults>>

\* getRemotePinServiceFromRequest: every command begins with it.
GetRemotePinService(c, op, at, name, status, flag) ==
    /\ rrJob[c].at = "end"
    /\ rrRuns < MaxRemote /\ rrRuns' = rrRuns + 1
    /\ LET j == [RrIdle EXCEPT !.op = op, !.at = at, !.name = name, !.status = status, !.flag = flag]
           m == IF at = "list" THEN Matching(j, rrPins) ELSE {} IN
       rrJob' = [rrJob EXCEPT ![c] = IF rrConf = "absent" THEN RrEnd(j, FALSE)
                                     ELSE [j EXCEPT !.kept = m, !.ever = m]]
    /\ UNCHANGED <<rrConf, rrPins, rrMade, rrPinned, rrFaults>>

\* The commands, up to their first request to the service.
AddRemotePinCmd(c, name, background) == GetRemotePinService(c, "add", "post", name, {}, background)
ListRemotePinCmd(c) == GetRemotePinService(c, "ls", "list", NoName, Statuses, FALSE)
RmRemotePinCmd(c, name, status, force) == GetRemotePinService(c, "rm", "list", name, status, force)
LsRemotePinServiceCmd(c) == GetRemotePinService(c, "stat", "stat", NoName, {}, FALSE)

-----------------------------------------------------------------------------
(* pin remote add.  flag is --background.                                  *)

(* The request, the delegates it is answered with and, with --background,  *)
(* the end.  An answer that is lost, or a delegate that is no address,     *)
(* ends the command although the request was made.                         *)
AddRemotePin(c) ==
    LET j == rrJob[c]
        i == rrMade + 1 IN
    /\ j.at = "post"
    /\ \/ Fault /\ RrStep(c, RrEnd(j, FALSE))
       \/ /\ i \in RrIds
          /\ rrMade' = i
          /\ \E made \in {[rrPins EXCEPT ![i] = [name |-> j.name, status |-> "queued"]]} :
                /\ rrPins' = made
                /\ \/ /\ Fault
                      /\ rrJob' = RrNoted([rrJob EXCEPT ![c] = RrEnd(j, FALSE)], made)
                   \/ /\ NoFault
                      /\ rrJob' = RrNoted([rrJob EXCEPT ![c] =
                            IF j.flag THEN RrEnd([j EXCEPT !.id = i], TRUE)
                            ELSE [j EXCEPT !.at = "poll", !.id = i]], made)
          /\ UNCHANGED <<rrConf, rrPinned, rrRuns>>

\* One round of the loop that waits for the service; a failed or unexpected
\* answer and the end of the request's context end it.
PollStatus_Ended(c) ==
    LET j == rrJob[c]
        s == rrPins[j.id].status IN
    /\ j.at = "poll"
    /\ \/ Fault /\ RrStep(c, RrEnd(j, FALSE))
       \/ s \notin {"queued", "pinning"} /\ NoFault /\ RrStep(c, RrEnd(j, TRUE))
       \/ s \in {"queued", "pinning"} /\ NoFault /\ RrStep(c, RrEnd(j, FALSE))

PollStatus(c) ==
    LET j == rrJob[c]
        s == rrPins[j.id].status IN
    /\ j.at = "poll"
    /\ \/ Fault /\ RrStep(c, RrEnd(j, FALSE))
       \/ s = "none" /\ NoFault /\ RrStep(c, RrEnd(j, FALSE))
       \/ s = "pinned" /\ NoFault /\ RrStep(c, RrEnd(j, TRUE))
       \/ s = "failed" /\ NoFault /\ RrStep(c, RrEnd(j, FALSE))
       \/ s \in {"queued", "pinning"} /\ NoFault /\ RrStep(c, RrEnd(j, FALSE))

-----------------------------------------------------------------------------
(* pin remote ls and rm.  lsRemote gets the requests page by page, here    *)
(* one by one from the latest on; id is the last one got.  flag is         *)
(* --force, and list what was found.                                       *)

LsRemote(c) ==
    LET j == rrJob[c]
        i == IF j.id = 0 THEN rrMade ELSE j.id - 1 IN
    /\ j.at = "list" /\ j.id # 1 /\ i > 0
    /\ NoFault
    /\ RrStep(c, [j EXCEPT !.id = i, !.list = IF Matches(j, rrPins[i]) THEN Append(@, i) ELSE @])

\* The error channel is read once the results have ended.
LsRemoteEnd_Blind(c, failed) ==
    LET j == rrJob[c] IN
    /\ j.at = "list" /\ (failed \/ j.id = 1 \/ rrMade = 0)
    /\ IF failed THEN Fault ELSE NoFault
    /\ RrStep(c, IF j.op = "ls" THEN RrEnd(j, TRUE)
                 ELSE IF Len(j.list) > 1 /\ ~j.flag THEN RrEnd(j, FALSE)
                 ELSE [j EXCEPT !.at = "delete"])

LsRemoteEnd(c, failed) ==
    LET j == rrJob[c] IN
    /\ j.at = "list" /\ (failed \/ j.id = 1 \/ rrMade = 0)
    /\ IF failed THEN Fault ELSE NoFault
    /\ RrStep(c, IF j.op = "ls" THEN RrEnd(j, ~failed)
                 ELSE IF failed \/ (Len(j.list) > 1 /\ ~j.flag) THEN RrEnd(j, FALSE)
                 ELSE [j EXCEPT !.at = "delete"])

\* A deletion that fails ends the command; it may have taken effect.
RmRemotePin(c) ==
    LET j == rrJob[c]
        i == Head(j.list)
        without == [rrPins EXCEPT ![i] = NoPin] IN
    /\ j.at = "delete" /\ j.list # <<>>
    /\ \/ Fault /\ RrStep(c, RrEnd(j, FALSE))
       \/ /\ NoFault \/ Fault
          /\ rrPins' = without
          /\ rrJob' = RrNoted([rrJob EXCEPT ![c] =
                IF rrFaults' # rrFaults THEN RrEnd([j EXCEPT !.gone = @ \cup {i}], FALSE)
                ELSE [j EXCEPT !.gone = @ \cup {i}, !.list = Tail(@)]], without)
          /\ UNCHANGED <<rrConf, rrMade, rrPinned, rrRuns>>

RmRemoteEnd(c) == rrJob[c].at = "delete" /\ rrJob[c].list = <<>> /\ NoFault /\ RrStep(c, RrEnd(rrJob[c], TRUE))

-----------------------------------------------------------------------------
(* pin remote service ls --stat: four goroutines ask for one count each.   *)

PinCount(c, s) ==
    LET j == rrJob[c] IN
    /\ j.at = "stat" /\ s \notin j.counts /\ j.ok
    /\ \/ NoFault /\ RrStep(c, [j EXCEPT !.counts = @ \cup {s}])
       \/ Fault /\ RrStep(c, [j EXCEPT !.ok = FALSE])

\* g.Wait: all of them have ended; the first error cancels the others.
PinCountWait_Any(c) ==
    LET j == rrJob[c] IN
    /\ j.at = "stat" /\ (j.counts # {} \/ ~j.ok)
    /\ NoFault /\ RrStep(c, RrEnd(j, j.ok))

PinCountWait(c) ==
    LET j == rrJob[c] IN
    /\ j.at = "stat" /\ (j.counts = Statuses \/ ~j.ok)
    /\ NoFault /\ RrStep(c, RrEnd(j, j.ok))

RrNext ==
    \/ RemoteServiceRm
    \/ \E e \in {"url", "urlSlashes", "urlQuery", "pins", "path"} : RemoteServiceAdd(e)
    \/ \E i \in RrIds, s \in Statuses : ServiceWorks(i, s)
    \/ \E c \in RrClients :
        \/ \E n \in RrNames, background \in BOOLEAN : AddRemotePinCmd(c, n, background)
        \/ \E n \in RrNames \cup {NoName}, s \in {{"pinned"}, {"queued", "pinning"}}, force \in BOOLEAN :
                RmRemotePinCmd(c, n, s, force)
        \/ ListRemotePinCmd(c) \/ LsRemotePinServiceCmd(c)
        \/ AddRemotePin(c) \/ PollStatus(c)
        \/ LsRemote(c) \/ (\E failed \in BOOLEAN : LsRemoteEnd(c, failed)) \/ RmRemotePin(c) \/ RmRemoteEnd(c)
        \/ (\E s \in Statuses : PinCount(c, s)) \/ PinCountWait(c)

-----------------------------------------------------------------------------
(* Properties.                                                             *)

Succeeded(c, op) == rrJob[c].at = "end" /\ rrJob[c].op = op /\ rrJob[c].ok

\* pin remote add without --background succeeds only when the service has
\* pinned the request it made.
RrAddPinned == \A c \in RrClients : Succeeded(c, "add") /\ ~rrJob[c].flag => rrJob[c].id \in rrPinned

\* pin remote rm deletes only what matched its query while it was listing, and
\* without --force nothing at all when two pins matched it all that time, also
\* when the listing breaks off.
RrRmCareful ==
    \A c \in RrClients :
        /\ rrJob[c].gone \subseteq rrJob[c].ever
        /\ ~rrJob[c].flag /\ rrJob[c].gone # {} =>
            Cardinality(rrJob[c].gone) = 1 /\ Cardinality(rrJob[c].kept) <= 1

\* service ls --stat calls a service valid only with all four counts.
RrStatWhole == \A c \in RrClients : Succeeded(c, "stat") => rrJob[c].counts = Statuses

\* What pin remote add, rm and service ls --stat report, and what rm deletes.
RrSound == RrTypeOK /\ RrAddPinned /\ RrRmCareful /\ RrStatWhole
=============================================================================
