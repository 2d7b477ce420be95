------------------------------ MODULE Failover ------------------------------
(***************************************************************************)
(* Failover from the main master (Master/master1) to the standby master    *)
(* (Master/master2): the main sends its list every 0.1 s, the standby      *)
(* takes 1.5 s of silence for its death, sends every listed cache server   *)
(* the standby's address and takes over.  The handling of heartbeats, with *)
(* its flags, is in Master; here a master's list gains the servers it      *)
(* hears and loses those it does not.                                      *)
(***************************************************************************)
EXTENDS Integers, Sequences, FiniteSets

CONSTANTS
    Server, Main, Standby, None,
    MaxUnread,    \* bound: updates of the main in the standby's socket
    MaxStarts,    \* bound: starts of cache servers
    MaxCrashes,   \* bound: crashes of cache servers
    MaxFailures,  \* bound: failures of the main master
    MaxRestarts,  \* bound: restarts of the main master
    MaxLate       \* bound: checks that find a live main master silent

ASSUME FailoverAssumption ==
    /\ Main # Standby /\ None \notin {Main, Standby} /\ IsFiniteSet(Server)
    /\ {MaxUnread, MaxStarts, MaxCrashes, MaxFailures, MaxRestarts, MaxLate} \subseteq Nat

VARIABLES
    up,           \* the main master runs
    IPportlist,   \* per master, in the order of the vector
    updates,      \* SPARE_MASTER messages the standby has not read
    heard,        \* masterstatemap has an entry for the main
    silent,       \* its count is what premasterstatemap says
    flag7,        \* the standby has taken over
    masterstate,  \* that thread of the standby: where it is, and its index i
    told,         \* servers to which it wrote REFLESH_MASTER
    copied,       \* the servers of the last list the standby took over
    server,       \* per cache server: runs, master_addr, heartbeat connection
    redirect,     \* servers with an unread REFLESH_MASTER
    left          \* what is left of the bounds

standby == <<updates, heard, silent, flag7, masterstate, told, copied>>
vars == <<up, IPportlist, standby, server, redirect, left>>

\* The elements of a vector, and the vector without the one at j.
Members(q) == {q[i] : i \in DOMAIN q}
erase(q, j) == SubSeq(q, 1, j - 1) \o SubSeq(q, j + 1, Len(q))

Master == {Main, Standby}
ThreadPC == {"idle", "wait", "redirect", "clear", "done"}
Up(s) == server[s].run
Listed(m) == Members(IPportlist[m])

TypeOK ==
    /\ up \in BOOLEAN /\ heard \in BOOLEAN /\ silent \in BOOLEAN /\ flag7 \in BOOLEAN
    /\ DOMAIN IPportlist = Master /\ \A m \in Master : IPportlist[m] \in Seq(Server)
    /\ Len(updates) <= MaxUnread /\ \A l \in Members(updates) : l \in Seq(Server)
    /\ masterstate \in [at : ThreadPC, i : 1..(Cardinality(Server) + 1)]
    /\ told \in SUBSET Server /\ copied \in SUBSET Server /\ redirect \in SUBSET Server
    /\ server \in [Server -> [run : BOOLEAN, master_addr : Master, cfd : Master \cup {None}]]
    /\ left \in [starts : 0..MaxStarts, crashes : 0..MaxCrashes, failures : 0..MaxFailures,
                 restarts : 0..MaxRestarts, late : 0..MaxLate]

Init ==
    /\ up = TRUE /\ IPportlist = [m \in Master |-> <<>>]
    /\ updates = <<>> /\ heard = FALSE /\ silent = FALSE /\ flag7 = FALSE
    /\ masterstate = [at |-> "idle", i |-> 1] /\ told = {} /\ copied = {}
    /\ server = [s \in Server |-> [run |-> FALSE, master_addr |-> Main, cfd |-> None]]
    /\ redirect = {}
    /\ left = [starts |-> MaxStarts, crashes |-> MaxCrashes, failures |-> MaxFailures,
               restarts |-> MaxRestarts, late |-> MaxLate]

Use(what) == left[what] > 0 /\ left' = [left EXCEPT ![what] = @ - 1]
-----------------------------------------------------------------------------
(* The main master tells the standby that it is alive, with its list.      *)
masterupdate ==
    /\ up /\ Len(updates) < MaxUnread
    /\ updates' = Append(updates, IPportlist[Main])
    /\ UNCHANGED <<up, IPportlist, heard, silent, flag7, masterstate, told, copied,
                   server, redirect, left>>

\* Mutant of SpareMaster: the list read is appended to the one it has.
SpareMasterAppends ==
    /\ updates # <<>> /\ updates' = <<>>
    /\ IPportlist' = [IPportlist EXCEPT ![Standby] = @ \o Head(updates)]
    /\ silent' = (silent /\ ~heard) /\ heard' = TRUE
    /\ UNCHANGED <<up, copied, flag7, masterstate, told, server, redirect, left>>

\* The standby reads all there is.  Two updates in one read are not JSON and are
\* ignored; so is every update after the standby has taken over.  An empty list
\* does not replace the one it has.
SpareMaster ==
    LET list == Head(updates)
    IN  /\ updates # <<>> /\ updates' = <<>>
        /\ IF Len(updates) = 1 /\ ~flag7
           THEN /\ IPportlist' = IF list = <<>> THEN IPportlist
                                 ELSE [IPportlist EXCEPT ![Standby] = list]
                /\ copied' = IF list = <<>> THEN copied ELSE Members(list)
                /\ silent' = (silent /\ ~heard)
                /\ heard' = TRUE
           ELSE UNCHANGED <<IPportlist, copied, silent, heard>>
        /\ UNCHANGED <<up, flag7, masterstate, told, server, redirect, left>>
-----------------------------------------------------------------------------
(* masterstate, the thread of the standby that watches the main.           *)
At(at, i) == masterstate' = [at |-> at, i |-> i]

\* premasterstatemap = masterstatemap, once the main was heard; then 1.5 s.
Sample ==
    /\ masterstate.at = "idle" /\ heard
    /\ At("wait", 1) /\ silent' = TRUE
    /\ UNCHANGED <<up, IPportlist, updates, heard, flag7, told, copied, server, redirect, left>>

\* Mutant of Check: the comparison of the two counts is inverted.
CheckInverted ==
    /\ masterstate.at = "wait"
    /\ At(IF silent THEN "idle" ELSE "redirect", 1)
    /\ UNCHANGED <<up, IPportlist, updates, heard, silent, flag7, told, copied, server, redirect, left>>

\* A main that runs sends fifteen updates in that time, and the standby reads
\* what is there, so only a late check finds it silent.
Check ==
    /\ masterstate.at = "wait"
    /\ IF silent /\ (up \/ updates # <<>>) THEN Use("late") ELSE UNCHANGED left
    /\ At(IF silent THEN "redirect" ELSE "idle", 1)
    /\ UNCHANGED <<up, IPportlist, updates, heard, silent, flag7, told, copied, server, redirect>>

\* Mutant of Redirect: the loop goes on to the next server when connect fails.
RedirectSkips ==
    /\ masterstate.at = "redirect" /\ masterstate.i <= Len(IPportlist[Standby])
    /\ LET s == IPportlist[Standby][masterstate.i]
       IN  IF Up(s) THEN redirect' = redirect \cup {s} /\ told' = told \cup {s}
           ELSE UNCHANGED <<redirect, told>>
    /\ At("redirect", masterstate.i + 1)
    /\ UNCHANGED <<up, IPportlist, updates, heard, silent, flag7, copied, server, left>>

\* The next server of the vector as it is now.  Socket_connect tries until the
\* server accepts, so there is no step while it is down.
Redirect ==
    /\ masterstate.at = "redirect" /\ masterstate.i <= Len(IPportlist[Standby])
    /\ LET s == IPportlist[Standby][masterstate.i]
       IN  Up(s) /\ redirect' = redirect \cup {s} /\ told' = told \cup {s}
    /\ At("redirect", masterstate.i + 1)
    /\ UNCHANGED <<up, IPportlist, updates, heard, silent, flag7, copied, server, left>>

ClearList ==
    /\ masterstate.at = "redirect" /\ masterstate.i > Len(IPportlist[Standby])
    /\ IPportlist' = [IPportlist EXCEPT ![Standby] = <<>>]
    /\ At("clear", 1)
    /\ UNCHANGED <<up, updates, heard, silent, flag7, told, copied, server, redirect, left>>

\* Mutant of TakeOver: the thread ends without setting flag7.
TakeOverSilently ==
    /\ masterstate.at = "clear" /\ At("done", 1)
    /\ UNCHANGED <<up, IPportlist, updates, heard, silent, flag7, told, copied, server, redirect, left>>

\* flag7 ends the loop: the thread never watches again.
TakeOver ==
    /\ masterstate.at = "clear"
    /\ flag7' = TRUE /\ At("done", 1)
    /\ UNCHANGED <<up, IPportlist, updates, heard, silent, told, copied, server, redirect, left>>

Watch == Sample \/ Check \/ Redirect \/ ClearList \/ TakeOver
-----------------------------------------------------------------------------
(* The cache servers.                                                      *)

\* A task stores the address; the heartbeat connection stays as it is.
refleshmaster(s) ==
    /\ s \in redirect /\ redirect' = redirect \ {s}
    /\ server' = [server EXCEPT ![s].master_addr = Standby]
    /\ UNCHANGED <<up, IPportlist, standby, left>>

Answers(m) == m = Standby \/ (m = Main /\ up)

\* Mutant of heartbeat_connect: it connects to the address it started with.
heartbeat_connectMutant(s) ==
    /\ Up(s) /\ ~Answers(server[s].cfd) /\ Answers(Main)
    /\ server' = [server EXCEPT ![s].cfd = Main]
    /\ UNCHANGED <<up, IPportlist, standby, redirect, left>>

\* At the start, and when the connection broke: connect to master_addr as it is
\* then, again and again until it succeeds.
heartbeat_connect(s) ==
    /\ Up(s) /\ ~Answers(server[s].cfd) /\ Answers(server[s].master_addr)
    /\ server' = [server EXCEPT ![s].cfd = server[s].master_addr]
    /\ UNCHANGED <<up, IPportlist, standby, redirect, left>>

\* A master registers whom it hears; the standby only after it has taken over.
HeartBeat(s) ==
    LET m == server[s].cfd
    IN  /\ Up(s) /\ Answers(m) /\ (m = Standby => flag7) /\ s \notin Listed(m)
        /\ IPportlist' = [IPportlist EXCEPT ![m] = Append(@, s)]
        /\ UNCHANGED <<up, standby, server, redirect, left>>

Beats(s, m) == Up(s) /\ server[s].cfd = m

\* A master drops a silent server when another one's heartbeat comes.
Drop(m, s) ==
    /\ Answers(m) /\ (m = Standby => flag7)
    /\ ~Beats(s, m) /\ \E t \in Server : Beats(t, m)
    /\ \E j \in DOMAIN IPportlist[m] :
          IPportlist[m][j] = s /\ IPportlist' = [IPportlist EXCEPT ![m] = erase(@, j)]
    /\ UNCHANGED <<up, standby, server, redirect, left>>

\* testallshut, which only the main runs: all are silent.
DropAll ==
    /\ up /\ IPportlist[Main] # <<>> /\ \A s \in Listed(Main) : ~Beats(s, Main)
    /\ IPportlist' = [IPportlist EXCEPT ![Main] = <<>>]
    /\ UNCHANGED <<up, standby, server, redirect, left>>

Start(s) ==
    /\ ~Up(s) /\ Use("starts")
    /\ server' = [server EXCEPT ![s] = [run |-> TRUE, master_addr |-> Main, cfd |-> None]]
    /\ UNCHANGED <<up, IPportlist, standby, redirect>>

\* What the server had not read is lost with it.
Crash(s) ==
    /\ Up(s) /\ Use("crashes")
    /\ server' = [server EXCEPT ![s] = [@ EXCEPT !.run = FALSE, !.cfd = None]]
    /\ redirect' = redirect \ {s}
    /\ UNCHANGED <<up, IPportlist, standby>>

\* The connections of a main that failed are gone; what it sent can be read.
Fail ==
    /\ up /\ Use("failures") /\ up' = FALSE
    /\ IPportlist' = [IPportlist EXCEPT ![Main] = <<>>]
    /\ server' = [s \in Server |-> IF server[s].cfd = Main THEN [server[s] EXCEPT !.cfd = None]
                                   ELSE server[s]]
    /\ UNCHANGED <<standby, redirect>>

Restart == ~up /\ Use("restarts") /\ up' = TRUE /\ UNCHANGED <<IPportlist, standby, server, redirect>>
-----------------------------------------------------------------------------
Next ==
    \/ masterupdate \/ SpareMaster \/ Watch
    \/ \E s \in Server : refleshmaster(s) \/ heartbeat_connect(s) \/ HeartBeat(s)
    \/ \E m \in Master, s \in Server : Drop(m, s)
    \/ DropAll
    \/ \E s \in Server : Start(s) \/ Crash(s)
    \/ Fail \/ Restart

Spec == Init /\ [][Next]_vars

\* Every thread goes on; starts, crashes, failures and restarts may never happen.
FairSpec ==
    /\ Spec /\ WF_vars(masterupdate) /\ WF_vars(SpareMaster) /\ WF_vars(Watch)
    /\ \A s \in Server : /\ WF_vars(refleshmaster(s)) /\ WF_vars(heartbeat_connect(s))
                         /\ WF_vars(HeartBeat(s))
-----------------------------------------------------------------------------
\* No check was late and the main did not come back.
Undisturbed == left.late = MaxLate /\ left.restarts = MaxRestarts

\* The cache servers that have a heartbeat connection all have the same master.
OneMaster == \A s, t \in Server : Beats(s, Main) => ~Beats(t, Standby)

\* Unless the main is taken for dead while it lives, or comes back, no server is
\* heard by the standby while another is heard by the main: redirections, broken
\* connections and restarted servers never split the system.
NoSplit == Undisturbed => OneMaster

\* When the standby stops waiting for the main, it has sent its address to every
\* server of the last list it took over: the loop over the vector skips none.
AllRedirected == masterstate.at \in {"clear", "done"} => copied \subseteq told

\* It holds unless a check was late or the main came back: no update arrives then to
\* replace the vector under the loop of masterstate.
RedirectCovers == Undisturbed => AllRedirected

\* A main that the standby has heard and that stays down is replaced, as long as
\* the servers of its last list stay up.
TakesOver ==
    <>[](~up /\ heard /\ \A s \in Listed(Standby) : Up(s)) => <>flag7

\* A running server that was given the standby's address is registered there,
\* once the main is down and the standby has taken over.
FollowersRegister ==
    \A s \in Server : Up(s) /\ server[s].master_addr = Standby /\ ~up /\ flag7
                      ~> s \in Listed(Standby) \/ ~Up(s) \/ up

\* "When another master finds that the main master has stopped, it tells all
\* cache servers to connect to the new master and takes over": the standby takes
\* over from every main it has heard and that stays down.
AlwaysTakesOver == heard /\ ~up ~> flag7 \/ up

\* A running server is heard by some master for good, whatever happens to the main.
EveryServerHeard ==
    \A s \in Server : <>[]Up(s) => <>[](\E m \in Master : s \in Listed(m))
=============================================================================
