------------------------------- MODULE Master -------------------------------
(***************************************************************************)
(* The main master: one event loop that handles heartbeats and shutdown    *)
(* requests, two threads that look for silent cache servers, and the cache *)
(* servers as the master sees them.  A server is its port: the code tells  *)
(* servers apart by port alone.  refreship sleeps for half a second, so a  *)
(* heartbeat is handled in three stages between which the threads run.     *)
(***************************************************************************)
EXTENDS Integers, Sequences, FiniteSets

CONSTANTS
    Server, None,
    Ghosts,       \* num7 after a shrink: heartbeats taken for false reconnects
    MaxStarts,    \* bound: starts and restarts of cache servers
    MaxCrashes,   \* bound: crashes of cache servers
    MaxRequests,  \* bound: SHUTDOWN_CACHE requests of the user
    MaxLate       \* bound: checks for which a live server's heartbeat is late

ASSUME MasterAssumption ==
    /\ IsFiniteSet(Server)
    /\ {Ghosts, MaxStarts, MaxCrashes, MaxRequests, MaxLate} \subseteq Nat

VARIABLES
    IPportlist, Portlist,           \* what is sent out; who is registered
    cachemap, cachemapshut,         \* ports marked 1; the keys are Portlist
    flag1, flag2, flag3, flag4, flag5, flag6, flag8,
    num1, num2, num3, num4, num5, num7,
    shutportnow, shutport, psshutport,
    silent,       \* ports whose count is what precachestatemap says
    sampled, moved,  \* testallshut: ports of its copy; those that differ from it
    hb,           \* the heartbeat being handled: its port and stage
    server,       \* per server: run state, last command and list it was sent
    heard,        \* servers with an unread heartbeat in their socket
    asked,        \* servers the user asked to shut down
    left          \* what is left of the bounds

lists == <<IPportlist, Portlist, cachemap, cachemapshut>>
flags == <<flag1, flag2, flag3, flag4, flag5, flag6, flag8>>
nums == <<num1, num2, num3, num4, num5, num7>>
ports == <<shutportnow, shutport, psshutport>>
watch == <<silent, sampled, moved>>
env == <<server, heard, asked, left>>
vars == <<lists, flags, nums, ports, watch, hb, env>>

Command == {"ADD_CACHE", "SHUTDOWN_CACHE", "REFLESH_IP"}
Stage == {"idle", "shrink", "reflesh"}
Ports(seq) == {seq[i] : i \in DOMAIN seq}
\* A count that is only compared with numbers up to m: all above m are alike.
Saturate(n, m) == IF n > m THEN m + 1 ELSE n
Up == {s \in Server : server[s].run = "up"}

TypeOK ==
    /\ Portlist \in SUBSET Server /\ IPportlist \in SUBSET Server
    /\ cachemap \in SUBSET Portlist /\ cachemapshut \in SUBSET Portlist
    /\ \A f \in {flag1, flag2, flag3, flag4, flag5, flag6, flag8} : f \in BOOLEAN
    /\ \A n \in {num1, num2, num3, num4, num5, num7} : n \in Nat
    /\ num5 <= Ghosts /\ num7 \in {0, Ghosts}
    /\ shutportnow \in Seq(Server)
    /\ {shutport, psshutport} \subseteq Server \cup {None}
    /\ silent \in SUBSET Portlist /\ sampled \in SUBSET Server /\ moved \in SUBSET sampled
    /\ hb \in [port : Server \cup {None}, stage : Stage]
    /\ server \in [Server -> [run : {"down", "up", "leaving"},
                              told : Command \cup {None}, list : SUBSET Server]]
    /\ heard \in SUBSET Server /\ asked \in SUBSET Server
    /\ left \in [starts : 0..MaxStarts, crashes : 0..MaxCrashes, requests : 0..MaxRequests,
                late : 0..MaxLate]

Init ==
    /\ IPportlist = {} /\ Portlist = {} /\ cachemap = {} /\ cachemapshut = {}
    /\ flag1 = FALSE /\ flag2 = FALSE /\ flag3 = FALSE /\ flag4 = FALSE
    /\ flag5 = FALSE /\ flag6 = FALSE /\ flag8 = FALSE
    /\ num1 = 0 /\ num2 = 0 /\ num3 = 0 /\ num4 = 0 /\ num5 = 0 /\ num7 = 0
    /\ shutportnow = <<>> /\ shutport = None /\ psshutport = None
    /\ silent = {} /\ sampled = {} /\ moved = {}
    /\ hb = [port |-> None, stage |-> "idle"]
    /\ server = [s \in Server |-> [run |-> "down", told |-> None, list |-> {}]]
    /\ heard = {} /\ asked = {}
    /\ left = [starts |-> MaxStarts, crashes |-> MaxCrashes, requests |-> MaxRequests,
               late |-> MaxLate]
-----------------------------------------------------------------------------
\* The type refreship puts in the message, from the flags as they are then.
refreshtype(f4, f1, f2) ==
    IF f4 THEN "REFLESH_IP" ELSE IF f1 THEN "ADD_CACHE"
    ELSE IF f2 THEN "SHUTDOWN_CACHE" ELSE "REFLESH_IP"

\* refreship: a live server gets the command; SHUTDOWN_CACHE ends its heartbeats.
refreship(s, type, list) ==
    server' = IF server[s].run # "up" THEN server
              ELSE [server EXCEPT ![s] =
                     [run |-> IF type = "SHUTDOWN_CACHE" THEN "leaving" ELSE "up",
                      told |-> type, list |-> list]]

\* Mutant of Remove: the port stays in cachemapshut.
RemoveKeepsMark(p) ==
    /\ IPportlist' = IPportlist \ {p} /\ Portlist' = Portlist \ {p}
    /\ cachemap' = cachemap \ {p}
    /\ silent' = silent \ {p} /\ moved' = moved \ {p}
    /\ UNCHANGED <<cachemapshut, sampled>>

\* Mutant of Remove: the port stays in IPportlist.
RemoveKeepsListed(p) ==
    /\ Portlist' = Portlist \ {p}
    /\ cachemap' = cachemap \ {p} /\ cachemapshut' = cachemapshut \ {p}
    /\ silent' = silent \ {p} /\ moved' = moved \ {p}
    /\ UNCHANGED <<IPportlist, sampled>>

\* The removal of a port from every list and map, in both kinds of shrink.
Remove(p) ==
    /\ IPportlist' = IPportlist \ {p} /\ Portlist' = Portlist \ {p}
    /\ cachemap' = cachemap \ {p} /\ cachemapshut' = cachemapshut \ {p}
    /\ silent' = silent \ {p} /\ moved' = moved \ {p}
    /\ UNCHANGED sampled
-----------------------------------------------------------------------------
(* The event loop.                                                         *)

\* The user asks the master to shut a listed cache server down.  A request that
\* names several is as many requests in a row.
ShutdownRequest(s) ==
    /\ hb.stage = "idle" /\ left.requests > 0 /\ s \in IPportlist
    /\ left' = [left EXCEPT !.requests = @ - 1]
    /\ shutportnow' = Append(shutportnow, s)
    /\ num4' = Len(shutportnow) + 1
    /\ flag2' = TRUE /\ flag5' = TRUE
    /\ asked' = asked \cup {s}
    /\ UNCHANGED <<lists, flag1, flag3, flag4, flag6, flag8, num1, num2, num3, num5, num7,
                   shutport, psshutport, watch, hb, server, heard>>

\* First stage of a heartbeat, for a port that is registered or not: a new port
\* is registered unless it is taken for a false reconnect; if an expansion is
\* going on, the sender gets the list once, until all have got it.
HeartBeat(s) ==
    LET ghost == num5 < num7
        f4 == IF ghost THEN flag4 \/ s \in Ports(shutportnow) ELSE FALSE
        known == s \in Portlist
        joins == ~known /\ ~f4
        P == IF joins THEN Portlist \cup {s} ELSE Portlist
        I == IF joins THEN IPportlist \cup {s} ELSE IPportlist
        adding == flag1 \/ joins
        send == adding /\ s \in P /\ s \notin cachemap
        n1 == IF send THEN Saturate(num1 + 1, Cardinality(Server)) ELSE num1
        done == adding /\ n1 = Cardinality(P)
        f4new == IF known THEN flag4 ELSE FALSE
    IN  /\ hb.stage = "idle" /\ s \in heard
        /\ heard' = heard \ {s}
        /\ hb' = [port |-> s, stage |-> "shrink"]
        /\ silent' = silent \ {s}
        /\ moved' \in IF joins /\ s \in sampled THEN {moved, moved \cup {s}}
                      ELSE {IF known /\ s \in sampled THEN moved \cup {s} ELSE moved}
        /\ shutport' = IF flag5 /\ s \in Ports(shutportnow) THEN s ELSE shutport
        /\ num5' = IF known THEN num5 ELSE IF ghost THEN num5 + 1 ELSE 0
        /\ flag4' = f4new
        /\ Portlist' = P /\ IPportlist' = I
        /\ shutportnow' = IF adding THEN <<>> ELSE shutportnow
        /\ IF send THEN refreship(s, refreshtype(f4new, TRUE, flag2), I) ELSE UNCHANGED server
        /\ flag1' = (adding /\ ~done)
        /\ num1' = IF done THEN 0 ELSE n1
        /\ cachemap' = IF done THEN {} ELSE IF send THEN cachemap \cup {s} ELSE cachemap
        /\ UNCHANGED <<cachemapshut, flag2, flag3, flag5, flag6, flag8, num2, num3, num4, num7,
                       psshutport, sampled, asked, left>>

\* Second stage, active shrink: the sender is the server to shut down.  It is
\* removed and sent its command; after the last one the others are to be told.
ActiveShrink ==
    LET s == hb.port
        last == flag5 /\ num3 + 1 = num4
    IN  /\ hb.stage = "shrink" /\ shutport = s /\ flag2
        /\ Remove(s)
        /\ refreship(s, refreshtype(flag4, flag1, flag2), IPportlist \ {s})
        /\ num7' = Ghosts
        /\ shutport' = None
        /\ num3' = IF last THEN 0 ELSE Saturate(num3 + 1, MaxRequests)
        /\ flag8' = ~last
        /\ flag2' = ~last
        /\ flag5' = (flag5 /\ ~last)
        /\ flag3' = (flag3 \/ last)
        /\ flag4' = (flag4 \/ last)
        /\ hb' = [hb EXCEPT !.stage = "reflesh"]
        /\ UNCHANGED <<flag1, flag6, num1, num2, num4, num5, shutportnow, psshutport,
                       heard, asked, left>>

\* Second stage, passive shrink: the server found silent is removed.
PassiveShrink ==
    /\ hb.stage = "shrink" /\ ~(shutport = hb.port /\ flag2) /\ flag6
    /\ Remove(psshutport)
    /\ flag3' = TRUE /\ flag4' = TRUE /\ flag8' = FALSE /\ num7' = Ghosts
    /\ hb' = [hb EXCEPT !.stage = "reflesh"]
    /\ UNCHANGED <<flag1, flag2, flag5, flag6, num1, num2, num3, num4, num5, ports, env>>

NoShrink ==
    /\ hb.stage = "shrink" /\ ~(shutport = hb.port /\ flag2) /\ ~flag6
    /\ hb' = [hb EXCEPT !.stage = "reflesh"]
    /\ UNCHANGED <<lists, flags, nums, ports, watch, env>>

\* Mutant of EndShrink: flag6 is not cleared.
EndShrinkMutant(done) == flag3' = (flag3 /\ ~done) /\ UNCHANGED flag6

\* All servers were told: the shrink is over, whichever kind it was.
EndShrink(done) == flag3' = (flag3 /\ ~done) /\ flag6' = (flag6 /\ ~done)

\* Third stage: after a shrink every server gets the list once, with its own
\* heartbeat, until all have got it.
Reflesh ==
    LET s == hb.port
        on == flag3 /\ ~flag8
        send == on /\ s \in Portlist /\ s \notin cachemapshut
        n2 == IF send THEN Saturate(num2 + 1, Cardinality(Server)) ELSE num2
        done == on /\ n2 = Cardinality(Portlist)
    IN  /\ hb.stage = "reflesh"
        /\ hb' = [port |-> None, stage |-> "idle"]
        /\ IF send THEN refreship(s, refreshtype(flag4, flag1, flag2), IPportlist)
           ELSE UNCHANGED server
        /\ num2' = IF done THEN 0 ELSE n2
        /\ cachemapshut' = IF done THEN {} ELSE IF send THEN cachemapshut \cup {s} ELSE cachemapshut
        /\ EndShrink(done)
        /\ UNCHANGED <<IPportlist, Portlist, cachemap, flag1, flag2, flag4, flag5, flag8,
                       num1, num3, num4, num5, num7, ports, watch, heard, asked, left>>
-----------------------------------------------------------------------------
(* The two threads.  A check, 1.5 s after the last sample, and the next    *)
(* sample.  A heartbeat is due every 0.1 s, but the loop may be asleep.    *)
CheckAfter(late) ==
    /\ late => left.late > 0
    /\ left' = IF late THEN [left EXCEPT !.late = @ - 1] ELSE left
    /\ UNCHANGED <<server, heard, asked>>

\* Mutant of Suspects: the comparison with shutport is inverted.
SuspectsMutant == silent \cap {shutport}

\* Silent ports that are not being shut down on request.
Suspects == silent \ {shutport}

\* heartstate: every silent port is written to psshutport, the last one stays,
\* and one that is not being shut down raises flag6.  Then the next sample.
heartstate ==
    /\ CheckAfter(silent \cap Up # {})
    /\ IF silent = {} THEN UNCHANGED psshutport ELSE psshutport' \in silent
    /\ flag6' = (flag6 \/ Suspects # {})
    /\ silent' = Portlist
    /\ UNCHANGED <<lists, flag1, flag2, flag3, flag4, flag5, flag8, nums,
                   shutportnow, shutport, sampled, moved, hb>>

\* testallshut: no count has changed, so the list is cleared, and only it.
testallshut ==
    /\ CheckAfter((sampled \cap Portlist \cap Up) \ moved # {})
    /\ IPportlist' = IF sampled # {} /\ moved = {} THEN {} ELSE IPportlist
    /\ sampled' = Portlist /\ moved' = {}
    /\ UNCHANGED <<Portlist, cachemap, cachemapshut, flags, nums, ports, silent, hb>>
-----------------------------------------------------------------------------
(* The cache servers, as far as the master is concerned.                   *)
Start(s) ==
    /\ server[s].run = "down" /\ left.starts > 0
    /\ server' = [server EXCEPT ![s] = [run |-> "up", told |-> None, list |-> {s}]]
    /\ left' = [left EXCEPT !.starts = @ - 1]
    /\ UNCHANGED <<lists, flags, nums, ports, watch, hb, heard, asked>>

heartbeat_send(s) ==
    /\ s \in Up /\ s \notin heard
    /\ heard' = heard \cup {s}
    /\ UNCHANGED <<lists, flags, nums, ports, watch, hb, server, asked, left>>

\* A server that was told to shut down exits once its data is sent.
Exit(s) ==
    /\ server[s].run = "leaving"
    /\ server' = [server EXCEPT ![s].run = "down"]
    /\ UNCHANGED <<lists, flags, nums, ports, watch, hb, heard, asked, left>>

Crash(s) ==
    /\ server[s].run # "down" /\ left.crashes > 0
    /\ server' = [server EXCEPT ![s].run = "down"]
    /\ left' = [left EXCEPT !.crashes = @ - 1]
    /\ UNCHANGED <<lists, flags, nums, ports, watch, hb, heard, asked>>
-----------------------------------------------------------------------------
Stages == ActiveShrink \/ PassiveShrink \/ NoShrink \/ Reflesh

Next ==
    \/ \E s \in Server : ShutdownRequest(s) \/ HeartBeat(s)
    \/ Stages
    \/ heartstate \/ testallshut
    \/ \E s \in Server : Start(s) \/ heartbeat_send(s) \/ Exit(s) \/ Crash(s)

Spec == Init /\ [][Next]_vars

\* Live servers keep sending, the loop keeps reading every socket, and the two
\* threads keep looking.
FairSpec ==
    /\ Spec /\ WF_vars(Stages) /\ SF_vars(heartstate) /\ SF_vars(testallshut)
    /\ \A s \in Server : WF_vars(heartbeat_send(s)) /\ SF_vars(HeartBeat(s)) /\ WF_vars(Exit(s))
-----------------------------------------------------------------------------
\* Clients are told only of registered servers: whatever the shrinks and the
\* threads do, IPportlist never keeps a port that Portlist lost.
ListedAreRegistered == IPportlist \subseteq Portlist

\* A server that stays down is dropped from the list clients get.
DeadIsDropped ==
    \A s \in Server : server[s].run = "down" /\ s \in IPportlist
                      ~> s \notin IPportlist \/ server[s].run # "down"

\* A server that stays up is registered for good some time, even if it was taken
\* for dead, for a false reconnect, or came back while its removal was going on.
HeardIsRegistered ==
    \A s \in Server : <>[](server[s].run = "up") => <>[](s \in Portlist)

\* Only a server the user named is told to shut down.
OnlyAskedAreShut ==
    \A s \in Server : server[s].told = "SHUTDOWN_CACHE" => s \in asked

\* A live server removed because the user asked is sent the shutdown command.
AskedIsTold ==
    [][ActiveShrink /\ server[hb.port].run = "up"
       => server'[hb.port].told = "SHUTDOWN_CACHE"]_vars

\* While no server has crashed and no shutdown was asked for, the end of an
\* expansion means that every running registered server has the full list.
ExpansionReachesAll ==
    left.crashes = MaxCrashes /\ left.requests = MaxRequests /\ ~flag1 /\ ~flag6
    => \A s \in Portlist : server[s].list = IPportlist

\* Every expansion is over some time, num1 == cachemap.size(), or no server is left.
ExpansionEnds == flag1 ~> ~flag1 \/ Up = {}

\* A running server that keeps sending heartbeats gets into the list.
HeardIsListed ==
    \A s \in Server : server[s].run = "up" ~> s \in IPportlist \/ server[s].run # "up"
=============================================================================
