------------------------------- MODULE Launch -------------------------------
(***************************************************************************)
(* The first half of VRMain::initialize: every process of the program reads*)
(* its command line, finds the setups that are to run, starts those of     *)
(* other machines there by ssh, takes the first of its own, and makes a    *)
(* process for each of the others, all of them at the same time.           *)
(***************************************************************************)
EXTENDS CommandLine

CONSTANTS
    Hosts,          \* the machines: the search path and the files of each, and whether
                    \* its system has fork(), or else CreateProcess()
    FirstHosts,     \* where the user may start the program
    Lines,          \* the command lines that the user may type
    PathOf,         \* from the names in VRSetupsToStart to those of the index
    HostAt          \* from what HostIP says to the machines

VARIABLES
    processes,      \* all that ever ran: host, argv, phase, what it has read,
                    \* the setups it has to look at, and _name
    requests,       \* ssh commands under way
    lost            \* setups whose ssh or fork came to nothing, which no one notices

launchVars == <<processes, requests, lost>>

Nameless == Root
Newborn(host, argv) ==
    [host |-> host, argv |-> argv, phase |-> "starting", todo |-> <<>>, name |-> Nameless,
     read |-> NothingRead(Empty("MinVRDefaultIndex"), AllOptions)]

\* The setups to start: those that were asked for, all those in VRSetups, or
\* whatever has a host type.
SetupsToStart(ix) ==
    LET asked == <<"VRSetupsToStart">>
        all   == <<"MinVR", "VRSetups">>
    IN  IF Has(ix, asked)
        THEN LET words == ValueString(DatumOf(ix, asked)) IN [i \in DOMAIN words |-> PathOf[words[i]]]
        ELSE IF Has(ix, all)
        THEN LET names == DatumOf(ix, all).names IN [i \in DOMAIN names |-> Append(all, names[i])]
        ELSE SelectByAttribute(ix, "hostType", "*", Root, FALSE)

HostIP == Relative(<<"HostIP">>)
\* Its own HostIP or that of anything around it.
\* (Faulty: only its own.)
OwnHostIP(ix, setup) == Has(ix, Append(setup, "HostIP"))
HasHostIP(ix, setup) == Exists(ix, HostIP, setup, TRUE)
HostOf(ix, setup) ==
    LET ip == ValueString(GetDatum(ix, HostIP, setup)) IN
    IF ip[1] \in DOMAIN HostAt THEN HostAt[ip[1]] ELSE "nowhere"

\* It is for another machine, and this process was not itself started by ssh.
IsRemote(ix, setup) == HasHostIP(ix, setup) /\ ~Has(ix, <<"StartedSSH">>)

\* The line that starts a process for a setup: that of this one, and the setup last,
\* so that it overrides what the line says of setups.
\* (Faulty: without the option.)
NameOf(setup) == CHOOSE word \in DOMAIN PathOf : PathOf[word] = setup
ToStart(setup) ==
    <<Option("--set-value"), Word(Setting(<<"VRSetupsToStart">>, NameOf(setup)))>>
BareLineFor(original, setup) == SplitAgain(original) \o Tail(ToStart(setup))
LineFor(original, setup) == SplitAgain(original) \o ToStart(setup)
StartedBySSH == <<Option("--set-value"), Word(Setting(<<"StartedSSH">>, "1"))>>

-----------------------------------------------------------------------------

LaunchInit ==
    /\ \E line \in Lines, host \in FirstHosts : processes = <<Newborn(host, line)>>
    /\ requests = {}
    /\ lost = {}

Become(p, phase) == [processes EXCEPT ![p].phase = phase]

\* An empty index or an empty list is an error, and so is all that throws.
Begin(p) ==
    /\ processes[p].phase = "starting"
    /\ \E read \in {ParseCommandLine(processes[p].read, processes[p].argv, FALSE,
                                       Hosts[processes[p].host])} :
       \E todo \in {IF read.failed \/ read.index.entries = <<>> THEN <<>> ELSE SetupsToStart(read.index)} :
          processes' = [processes EXCEPT ![p].read = read, ![p].todo = todo,
                            ![p].phase = IF todo = <<>> THEN "failed" ELSE "launching"]
    /\ UNCHANGED <<requests, lost>>

\* The loop: the next setup is looked at in a name space that must exist.
Next1(p) == Head(processes[p].todo)
Index(p) == processes[p].read.index
Looks(p) == /\ processes[p].phase = "launching"
            /\ processes[p].todo # <<>>
LooksWell(p) == Looks(p) /\ ValidNameSpace(Index(p), Next1(p))
Done(p) == [processes EXCEPT ![p].todo = Tail(@)]

NoSuchSetup(p) ==
    /\ Looks(p)
    /\ ~ValidNameSpace(Index(p), Next1(p))
    /\ processes' = Become(p, "failed")
    /\ UNCHANGED <<requests, lost>>

\* _startSSHProcess: the command goes to the background, and succeeds at once.
StartSSH(p) ==
    /\ LooksWell(p)
    /\ IsRemote(Index(p), Next1(p))
    /\ requests' = requests \cup
           {[host |-> HostOf(Index(p), Next1(p)), setup |-> Next1(p),
             argv |-> LineFor(processes[p].read.original, Next1(p)) \o StartedBySSH]}
    /\ processes' = Done(p)
    /\ UNCHANGED lost

Arrive(r) ==
    /\ r.host \in DOMAIN Hosts
    /\ processes' = Append(processes, Newborn(r.host, r.argv))
    /\ requests' = requests \ {r}
    /\ UNCHANGED lost

Unreachable(r) ==
    /\ requests' = requests \ {r}
    /\ lost' = lost \cup {r.setup}
    /\ UNCHANGED processes

IsLocal(p) == LooksWell(p) /\ ~IsRemote(Index(p), Next1(p))
Forks(p) == Hosts[processes[p].host].forks

Adopt(p) ==
    /\ IsLocal(p)
    /\ processes[p].name = Nameless
    /\ processes' = [Done(p) EXCEPT ![p].name = Next1(p)]
    /\ UNCHANGED <<requests, lost>>

\* _startLocalProcess: the child has the setup for its name and leaves the loop.
\* (Faulty: it stays in it.)
ChildGoesOn(parent) == [parent EXCEPT !.name = Head(parent.todo), !.todo = Tail(@)]
Child(parent) == [parent EXCEPT !.name = Head(parent.todo), !.todo = <<>>]
Fork(p) ==
    /\ Forks(p)
    /\ IsLocal(p)
    /\ processes[p].name # Nameless
    /\ processes' = Append(Done(p), Child(processes[p]))
    /\ UNCHANGED <<requests, lost>>

\* fork() gives -1, and the parent goes on as if it had worked.
ForkFails(p) ==
    /\ Forks(p)
    /\ IsLocal(p)
    /\ processes[p].name # Nameless
    /\ processes' = Done(p)
    /\ lost' = lost \cup {Next1(p)}
    /\ UNCHANGED requests

CreateProcess(p) ==
    /\ ~Forks(p)
    /\ IsLocal(p)
    /\ processes[p].name # Nameless
    /\ processes' = Append(Done(p), Newborn(processes[p].host,
                                            LineFor(processes[p].read.original, Next1(p))))
    /\ UNCHANGED <<requests, lost>>

CreateProcessFails(p) ==
    /\ ~Forks(p)
    /\ IsLocal(p)
    /\ processes[p].name # Nameless
    /\ processes' = Become(p, "failed")
    /\ UNCHANGED <<requests, lost>>

\* After the loop a process without a name ends; one whose name is not in the index
\* throws.
Finish(p) ==
    /\ processes[p].phase = "launching"
    /\ processes[p].todo = <<>>
    /\ processes' = Become(p, CASE processes[p].name = Nameless -> "exited"
                                [] Has(Index(p), processes[p].name) -> "running"
                                [] OTHER -> "failed")
    /\ UNCHANGED <<requests, lost>>

LaunchNext ==
    \/ \E p \in DOMAIN processes :
          \/ Begin(p) \/ NoSuchSetup(p) \/ StartSSH(p) \/ Adopt(p) \/ Finish(p)
          \/ Fork(p) \/ ForkFails(p) \/ CreateProcess(p) \/ CreateProcessFails(p)
    \/ \E r \in requests : Arrive(r) \/ Unreachable(r)

-----------------------------------------------------------------------------

In(phase) == {p \in DOMAIN processes : processes[p].phase = phase}
Quiet == requests = {} /\ In("starting") \cup In("launching") = {}

\* No two processes run the same setup, and when every process has started, the
\* setups that the first one was to start are the ones that run or were lost on the
\* way: a process started by ssh or CreateProcess starts only the one it is for, and
\* a forked one does not take part in the rest of the loop.
EachSetupOnce ==
    /\ \A p, q \in In("running") : p # q => processes[p].name # processes[q].name
    /\ Quiet /\ In("failed") = {} =>
          { processes[p].name : p \in In("running") } \cup lost
              = { SetupsToStart(Index(1))[i] : i \in DOMAIN SetupsToStart(Index(1)) }

\* A process on another machine, or made by CreateProcess, gets its configuration
\* from its own command line and files.  It is that of the first process but for
\* the two values that say which setup it is for.
Contents(ix) ==
    LET kept == DOMAIN ix.entries \ {<<"VRSetupsToStart">>, <<"StartedSSH">>} IN
    [n \in kept |-> LET d == DatumOf(ix, n) IN <<d.type, d.value, d.attrs>>]
SameConfiguration ==
    \A p \in In("running") :
        /\ Contents(Index(p)) = Contents(Index(1))
        /\ processes[p].read.leftovers = processes[1].read.leftovers
        /\ processes[p].read.execute = processes[1].read.execute

\* A setup runs on the machine of its HostIP, which it may inherit, and without one
\* where the program was started.
RunsOnItsHost ==
    \A p \in In("running") :
        LET ip == [n \in 0..Len(processes[p].name) |->
                      Append(SubSeq(processes[p].name, 1, n), "HostIP")]
            given == {n \in DOMAIN ip : Has(Index(p), ip[n])}
        IN  processes[p].host =
                IF given = {} THEN processes[1].host
                ELSE HostAt[ValueString(DatumOf(Index(p), ip[CHOOSE n \in given :
                                                \A m \in given : m <= n]))[1]]
=============================================================================
