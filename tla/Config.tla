--------------------------------- MODULE Config ---------------------------------
(***************************************************************************)
(* The configuration of a server (internal/config/config.go, control.go,   *)
(* app.go): options come from the command line, from the environment and   *)
(* from .env files, which are loaded into the environment.  A reload loads *)
(* them again, in the running process and over the options in use, and not *)
(* from the same place.                                                    *)
(***************************************************************************)
EXTENDS Naturals, Sequences, FiniteSetsExt, TLC

CONSTANTS
  Hosts,       \* host names
  Pieces,      \* of each host name, its pieces, as numbers in their order
  Fedbox,      \* the piece "fedbox", the name of an instance without a host name
  Ports,       \* ports, in use when none is configured
  TypeOrder,   \* the environment types, in the order of env.Types
  Layouts,     \* bound: the files at first
  Settings,    \* bound: what an operator may write in a file
  Launches,    \* bound: environments that the operator starts processes in
  Command,     \* bound: command lines, as records of InitControl's inputs
  MaxEdits     \* bound: changes of files in one behaviour

Unset == ""

Vars == {"ENV", "HOSTNAME", "HTTPS", "STORAGE", "STORAGE_PATH", "HTTP_PORT", "CERT_PATH",
         "LISTEN"}

\* prefKey
Names == {Unset, "FEDBOX_"} \X Vars

EnvTypes == {TypeOrder[i] : i \in DOMAIN TypeOrder}
Dirs     == {".", "storage"}
Files    == Dirs \X (EnvTypes \cup {"common"})

\* Splitting host names at their dots tells them apart, and none of them is empty
\* or the name of an instance without one.  None has more than twelve pieces: see
\* ReverseDNSName.
ASSUME PiecesAssumption ==
  /\ Unset \notin Hosts
  /\ Pieces \in [Hosts -> Seq(Nat)]
  /\ \A h \in Hosts : Pieces[h] \notin {<<>>, <<Fedbox>>} /\ Len(Pieces[h]) <= 12
  /\ \A h, k \in Hosts : Pieces[h] = Pieces[k] => h = k

ASSUME TypesAssumption == TypeOrder \in Seq(STRING) /\ "dev" \in EnvTypes
ASSUME PortsAssumption == Unset \notin Ports

\* What operators write is text; host names are those of Hosts and the path of
\* the storage is one of Dirs.
Proper(n, value) ==
  /\ n[2] = "HOSTNAME" => value \in Hosts \cup {Unset}
  /\ n[2] = "STORAGE_PATH" => value \in Dirs \cup {Unset}

ASSUME SettingsAssumption ==
  Settings \subseteq Names \X STRING /\ \A s \in Settings : Proper(s[1], s[2])
ASSUME LaunchesAssumption ==
  Launches \subseteq [Names -> STRING] /\ \A l \in Launches, n \in Names : Proper(n, l[n])
ASSUME LayoutsAssumption ==
  /\ Layouts \subseteq [Files -> [Names -> STRING]]
  /\ \A l \in Layouts, f \in Files, n \in Names : Proper(n, l[f][n])

\* The command line has one of the types ("enum", control.go).
ASSUME CommandAssumption ==
  Command \subseteq [env : EnvTypes, host : Hosts \cup {Unset}, secure : BOOLEAN,
                    path : Dirs \cup {Unset}]

VARIABLES
  files,     \* of each file, what it sets the variables to
  broken,    \* the files that cannot be parsed
  launch,    \* the environment of the operator, for every process ...
  cli,       \* ... and the command line
  server,    \* is the server up?
  environ,   \* the environment of the server process
  conf,      \* Base.Conf of the server
  begun,     \* history: the options that the server started with
  edited,    \* history: variables whose setting has changed since it started ...
  pending,   \* ... and since it loaded its options
  used,      \* history: where it loaded them from, and the outcome
  edits      \* bound

operatorVars == <<launch, cli>>
vars == <<files, broken, launch, cli, server, environ, conf, begun, edited, pending, used, edits>>

-----------------------------------------------------------------------------
(* Files and the environment *)

Getval(e, v, default) ==
  CASE e[<<Unset, v>>] # Unset     -> e[<<Unset, v>>]
    [] e[<<"FEDBOX_", v>>] # Unset -> e[<<"FEDBOX_", v>>]
    [] OTHER                       -> default

\* findConfigs: for a type that is none, the files of all types, and .env
\* before each of them.
FindConfigs(dir, type) ==
  IF type \in EnvTypes
    THEN << <<dir, "common">>, <<dir, type>> >>
    ELSE [i \in 1 .. 2 * Len(TypeOrder) |->
            <<dir, IF i % 2 = 1 THEN "common" ELSE TypeOrder[i \div 2]>>]

\* Slip: godotenv.Load, which leaves alone what is set.
LoadOnlyUnset(e, fs) ==
  [n \in Names |->
     LET sets == {i \in DOMAIN fs : files[fs[i]][n] # Unset} IN
     IF e[n] # Unset \/ sets = {} THEN e[n] ELSE files[fs[Min(sets)]][n]]

\* godotenv.Overload: the last file that sets a variable wins.
Overload(e, fs) ==
  [n \in Names |->
     LET sets == {i \in DOMAIN fs : files[fs[i]][n] # Unset} IN
     IF sets = {} THEN e[n] ELSE files[fs[Max(sets)]][n]]

-----------------------------------------------------------------------------
(* Options *)

\* Slip: a port that is not configured is none.
ConfiguredPort(e, random) == Getval(e, "HTTP_PORT", Unset)

\* A port that is not configured is another one with each load.
HTTPPort(e, random) == Getval(e, "HTTP_PORT", random)

\* Slip: the host name is taken from the environment every time.
HostnameAnew(o, e) == Getval(e, "HOSTNAME", o.hostname)

\* Once there is a host name it stays.
Hostname(o, e) == IF o.hostname = Unset THEN Getval(e, "HOSTNAME", Unset) ELSE o.hostname

LoadFromEnv(o, e, port) ==
  LET host   == Hostname(o, e)
      secure == Getval(e, "HTTPS", "false") = "true"
  IN [env      |-> Getval(e, "ENV", "dev"),
      hostname |-> host,
      secure   |-> secure,
      base     |-> IF host # Unset THEN <<secure, host>> ELSE o.base,
      storage  |-> Getval(e, "STORAGE", "fs"),
      path     |-> Getval(e, "STORAGE_PATH", Unset),
      cert     |-> Getval(e, "CERT_PATH", Unset),
      port     |-> HTTPPort(e, port)]

\* validateOptions, after the options have changed
ValidOptions(o, e) == o.env # Unset /\ o.storage # Unset /\ Getval(e, "LISTEN", Unset) = Unset

\* config.Load.  A file that cannot be parsed ends it, with those before it in
\* the environment and the options as they were.
Load(o, dir, e, port) ==
  LET type  == IF o.env \in EnvTypes THEN o.env ELSE Getval(e, "ENV", Unset)
      found == FindConfigs(dir, type)
      bad   == {i \in DOMAIN found : found[i] \in broken}
      after == Overload(e, IF bad = {} THEN found ELSE SubSeq(found, 1, Min(bad) - 1))
      new   == IF bad = {} THEN LoadFromEnv(o, after, port) ELSE [o EXCEPT !.env = type]
  IN [conf    |-> new,
      environ |-> after,
      used    |-> [dir |-> dir, type |-> type,
                   ok |-> bad = {} /\ ValidOptions(new, after)]]

\* The path of the storage, which may come from the operator's environment
Path == IF cli.path # Unset THEN cli.path ELSE launch[<<Unset, "STORAGE_PATH">>]

\* The options from the command line.  The type chooses the files that are
\* loaded first; only the host name outlives the load.
InitControl ==
  [env |-> cli.env, hostname |-> cli.host, secure |-> cli.secure,
   base |-> <<cli.secure, cli.host>>, storage |-> Unset, path |-> Path, cert |-> Unset,
   port |-> Unset]

StartDir == IF Path = Unset THEN "." ELSE Path

\* What a process of the operator, a server or a command, has after setup
NewProcess(port) ==
  LET loaded == Load(InitControl, StartDir, launch, port)
  IN [loaded EXCEPT !.conf.path = IF @ = Unset THEN Path ELSE @]

\* A process without a storage path ends.
Starts(process) == process.used.ok /\ process.conf.path # Unset

\* A server that has no certificate when it starts takes itself for an http one.
InitHttpServer(process) == [process EXCEPT !.conf.secure = @ /\ process.conf.cert # Unset]

\* What a server has once it listens
NewServer(port) == InitHttpServer(NewProcess(port))

-----------------------------------------------------------------------------
(* Names of the pid file and of the socket *)

\* Slip: the pieces are compared, not their places.
SortedPieces(host) == SortSeq(Pieces[host], LAMBDA x, y : x > y)

\* sort.Slice, an insertion sort for up to twelve pieces, with a comparison of
\* places that lets every piece move to the front.
ReverseDNSName(host) ==
  LET p == Pieces[host]
      front[i \in 0 .. Len(p)] == IF i = 0 THEN <<>> ELSE <<p[i]>> \o front[i - 1]
  IN front[Len(p)]

\* pathInstanceName, on which PidPath and InternalSocketPath are built
InstanceName(host) == IF host = Unset THEN <<Fedbox>> ELSE ReverseDNSName(host)

-----------------------------------------------------------------------------

NotLoaded == [dir |-> ".", type |-> cli.env, ok |-> FALSE]

Init ==
  /\ files \in Layouts
  /\ broken = {}
  /\ launch \in Launches
  /\ cli \in Command
  /\ server = FALSE
  /\ environ = launch
  /\ conf = InitControl /\ begun = InitControl
  /\ edited = {} /\ pending = {}
  /\ used = NotLoaded
  /\ edits = 0

\* An operator sets or removes a variable in a file, breaks or mends a file.
Touch(v) ==
  /\ edits < MaxEdits /\ edits' = edits + 1
  /\ edited' = IF server THEN edited \cup v ELSE {}
  /\ pending' = IF server THEN pending \cup v ELSE {}
  /\ UNCHANGED <<operatorVars, server, environ, conf, begun, used>>

Edit(f, n, value) ==
  /\ files[f][n] # value
  /\ files' = [files EXCEPT ![f][n] = value]
  /\ Touch({n[2]})
  /\ UNCHANGED broken

Break(f) ==
  /\ broken' = IF f \in broken THEN broken \ {f} ELSE broken \cup {f}
  /\ Touch({})
  /\ UNCHANGED files

\* Take the options that a load has left, valid or not.
Adopt(process) ==
  /\ conf' = process.conf
  /\ environ' = process.environ
  /\ used' = process.used
  /\ pending' = {}
  /\ UNCHANGED <<files, broken, operatorVars, edits>>

\* InitControl and New
Start ==
  /\ ~server
  /\ \E port \in Ports :
       /\ Starts(NewProcess(port))
       /\ Adopt(NewServer(port))
       /\ begun' = NewServer(port).conf
  /\ server' = TRUE
  /\ edited' = {}

\* SIGHUP: FedBOX.reload loads from the directory it runs in.
Reload ==
  /\ server
  /\ \E port \in Ports : Adopt(Load(conf, ".", environ, port))
  /\ UNCHANGED <<server, begun, edited>>

Stop ==
  /\ server
  /\ server' = FALSE
  /\ UNCHANGED <<files, broken, operatorVars, edits>>
  /\ environ' = launch
  /\ conf' = InitControl /\ begun' = InitControl
  /\ edited' = {} /\ pending' = {}
  /\ used' = NotLoaded

Next ==
  \/ \E f \in Files, s \in Settings : Edit(f, s[1], s[2]) \/ Edit(f, s[1], Unset)
  \/ \E f \in Files : Break(f)
  \/ Start \/ Reload \/ Stop

Spec == Init /\ [][Next]_vars

-----------------------------------------------------------------------------

\* The values of variables
Values ==
  {s[2] : s \in Settings} \cup (UNION {{l[n] : n \in Names} : l \in Launches})
    \cup (UNION {{l[f][n] : f \in Files, n \in Names} : l \in Layouts})

\* The options, given or loaded
Options ==
  [env : Values \cup EnvTypes \cup {"dev", Unset}, hostname : Hosts \cup {Unset},
   secure : BOOLEAN, base : BOOLEAN \X (Hosts \cup {Unset}),
   storage : Values \cup {"fs", Unset}, path : Values \cup Dirs \cup {Unset},
   cert : Values \cup {Unset}, port : Ports \cup Values \cup {Unset}]

\* The options of a running server are of their types; it always has a storage
\* and an environment, whatever a reload has found.
TypeOK ==
  /\ files \in [Files -> [Names -> Values \cup {Unset}]]
  /\ broken \subseteq Files
  /\ environ \in [Names -> Values]
  /\ conf \in Options
  /\ server => /\ conf.env \in (Values \cup {"dev"}) \ {Unset}
               /\ conf.storage \in (Values \cup {"fs"}) \ {Unset}
               /\ conf.port \in (Ports \cup Values) \ {Unset}

\* Where a command looks for the pid file of the server there the server has
\* written it, and there it will remove it, however often it is reloaded:
\* unless it was started without a host name or the host name was changed in
\* the files since.  (Stop, status and all commands that pause the server
\* depend on it.)
CommandsFindServer ==
  \A port \in Ports :
    server /\ begun.hostname # Unset /\ "HOSTNAME" \notin edited /\ Starts(NewProcess(port)) =>
      InstanceName(NewProcess(port).conf.hostname) = InstanceName(conf.hostname)

\* Settings that live on in the environment of the server although no file
\* that a start loads has them any more
Leftovers ==
  LET found == FindConfigs(StartDir, cli.env) IN
  {n \in Names : environ[n] # launch[n] /\ \A i \in DOMAIN found : files[found[i]][n] = Unset}

\* After a successful reload the server has the options that it would have
\* after a restart, if it has reloaded from the files that a start loads and
\* they have only gained or changed settings.  Excepted are the host name,
\* which stays, the URL with it, a port that is not configured, a storage path
\* from the command line, which a reload forgets, and HTTPS without a
\* certificate, which only a start takes back.
ReloadIsRestart ==
  \A port \in Ports :
    LET new == NewServer(port) IN
    server /\ pending = {} /\ broken = {} /\ Leftovers = {} /\ Starts(new)
           /\ used = new.used =>
      /\ conf.env = new.conf.env
      /\ conf.storage = new.conf.storage
      /\ conf.cert # Unset \/ ~conf.secure => conf.secure = new.conf.secure
      /\ conf.hostname = new.conf.hostname => conf.base = new.conf.base
      /\ Getval(environ, "HTTP_PORT", Unset) # Unset => conf.port = new.conf.port
      /\ Path = Unset => conf.path = new.conf.path

\* Servers of two host names share neither pid file nor socket.
InstancesApart ==
  \A h \in Hosts : h # conf.hostname => InstanceName(h) # InstanceName(conf.hostname)

-----------------------------------------------------------------------------
(* Why commands find the server: the inductive invariant *)

\* What operators have set is proper.
SettingsProper ==
  /\ launch \in Launches /\ cli \in Command
  /\ \A n \in Names : Proper(n, environ[n]) /\ \A f \in Files : Proper(n, files[f][n])

\* A reload always finds out for which type it loads files.
TypeStays == server => conf.env \in EnvTypes \/ Getval(environ, "ENV", Unset) # Unset

\* The host name of a start, with the files as they are now
HostnameAtStart == Hostname(InitControl, Overload(launch, FindConfigs(StartDir, cli.env)))

\* A server keeps the host name that it has started with, and another process
\* gets the same one while nobody has changed it.
NameStays ==
  server =>
    /\ begun.hostname # Unset => conf.hostname = begun.hostname
    /\ "HOSTNAME" \notin edited => begun.hostname = HostnameAtStart

\* The options in use are those in the environment, and while no file has
\* changed since loading the same files once more changes nothing there.
LoadIsCurrent ==
  LET secure == Getval(environ, "HTTPS", "false") = "true" IN
  /\ server /\ conf.hostname = Unset => conf.base = InitControl.base
  /\ server /\ used.ok =>
       /\ conf.env = Getval(environ, "ENV", "dev")
       /\ conf.storage = Getval(environ, "STORAGE", "fs")
       /\ conf.cert = Getval(environ, "CERT_PATH", Unset)
       /\ Path = Unset => conf.path = Getval(environ, "STORAGE_PATH", Unset)
       /\ conf.secure => secure
       /\ secure /\ conf.cert # Unset => conf.secure
       /\ conf.hostname # Unset => conf.base = <<secure, conf.hostname>>
       /\ Getval(environ, "HTTP_PORT", Unset) # Unset =>
            conf.port = Getval(environ, "HTTP_PORT", Unset)
       /\ pending = {} => Overload(environ, FindConfigs(used.dir, used.type)) = environ

ConfigInv == SettingsProper /\ TypeStays /\ NameStays /\ LoadIsCurrent

=============================================================================
