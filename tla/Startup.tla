------------------------------ MODULE Startup ------------------------------
(***************************************************************************)
(* From the first static constructor to the first process: the object      *)
(* factories (util/factory.h) and the registars that fill them before      *)
(* main(), main() itself, and the constructors that read the configuration *)
(* file: exec_manager, the monitors, simple_manager, benchmark.            *)
(*                                                                         *)
(* A command is a sequence of characters, of which only the space matters. *)
(* None stands for a key the file does not have.                           *)
(***************************************************************************)
EXTENDS Integers, Sequences, Functions

CONSTANTS Configs,  \* the configuration files to consider
          Modulus,  \* 2 to the number of bits of unsigned
          Paths,    \* the paths of files that exist
          None,
          Space

ASSUME ModulusAssumption == Modulus \in Nat \ {0}

ASSUME PathsAssumption == <<>> \notin Paths

(* A key of the file is missing or of its type; get<unsigned>() fails for  *)
(* what is not a number as it does for a number out of range.              *)
ASSUME ConfigsAssumption ==
  /\ None \notin Int
  /\ \A c \in Configs :
       /\ c.sampling_length = None \/ c.sampling_length \in Int
       /\ \/ c.benchmarks = None
          \/ /\ c.benchmarks \in Seq(Range(c.benchmarks))
             /\ \A b \in Range(c.benchmarks) :
                  b.cmd = None \/ b.cmd \in Seq(Range(b.cmd))

(* The registars, by the file that defines them.  A factory is a template: *)
(* there is one for each base class and each list of argument types.       *)
Manager == [base |-> "exec_manager", args |-> <<"const ptree&">>]
Monitor == [base |-> "exec_monitor", args |-> <<"exec_manager&", "const ptree&">>]

registar(unit, line, factory, id, class) ==
  [unit |-> unit, line |-> line, factory |-> factory, id |-> id, class |-> class]

simple_manager_registar ==
  registar("exec_manager/simple", 14, Manager, "simple", "simple_manager")
simple_monitor_registar ==
  registar("exec_monitor/simple", 14, Monitor, "simple", "simple_monitor")
cpu_hopper_registar ==
  registar("cpu_hopper", 16, Monitor, "cpu-hopper", "cpu_hopper")
pmc_sampler_linux_registar ==
  registar("pmc_sampler", 16, Monitor, "pmc-sampler[linux]", "pmc_sampler<linux>")
pmc_sampler_dummy_registar ==
  registar("pmc_sampler", 24, Monitor, "pmc-sampler[dummy]", "pmc_sampler<dummy>")

Registars ==
  {simple_manager_registar, simple_monitor_registar, cpu_hopper_registar,
   pmc_sampler_linux_registar, pmc_sampler_dummy_registar}

VARIABLES
  step,           \* what the program is about to do
  pending,        \* the registars that were not constructed yet
  creators_,      \* what the factories create: <<factory object, id, class>>
  config,         \* the contents of the configuration file
  exec_manager,   \* the class of the manager, or None
  exec_monitor_,  \* the class of its monitor, or None
  benchs_,        \* simple_manager::benchs_, from the one a loop is at
  processes_      \* simple_manager::processes_: the arguments, or None

startup_vars ==
  <<step, pending, creators_, config, exec_manager, exec_monitor_, benchs_,
    processes_>>
objects == <<exec_manager, exec_monitor_, benchs_, processes_>>

StartupInit ==
  /\ step = "static"
  /\ pending = Registars
  /\ creators_ = {}
  /\ config = None
  /\ exec_manager = None
  /\ exec_monitor_ = None
  /\ benchs_ = <<>>
  /\ processes_ = <<>>

-----------------------------------------------------------------------------
(* The factories.                                                          *)

(* The factory object a file of the program gets: the static of a function *)
(* template, constructed by whoever calls it first.                        *)
instance(unit, factory) == factory

Creators(unit, factory, id) ==
  {c \in creators_ : c[1] = instance(unit, factory) /\ c[2] = id}

(* Static constructors run in any order, except within one file.  The      *)
(* assertion on a second creator with the same id ends the program.        *)
register_creator(r) ==
  /\ step = "static"
  /\ r \in pending
  /\ \A s \in pending : s.unit = r.unit => r.line <= s.line
  /\ pending' = pending \ {r}
  /\ creators_' = creators_ \cup {<<instance(r.unit, r.factory), r.id, r.class>>}
  /\ step' = IF Creators(r.unit, r.factory, r.id) = {} THEN "static" ELSE "aborted"
  /\ UNCHANGED <<config, objects>>

ClassOf(c) == c[3]

(* An exception that nobody catches, from inside the constructors.         *)
Throw ==
  /\ step' = "thrown"
  /\ exec_manager' = None
  /\ exec_monitor_' = None
  /\ benchs_' = <<>>
  /\ UNCHANGED <<pending, creators_, config, processes_>>

-----------------------------------------------------------------------------
(* main().                                                                 *)

parse_options(help, given) ==
  /\ step = "static"
  /\ pending = {}
  /\ step' = IF help \/ ~given THEN "exited" ELSE "read_json"
  /\ UNCHANGED <<pending, creators_, config, objects>>

(* An unknown option, or two configuration files.                          *)
parse_options_fails ==
  /\ step = "static"
  /\ pending = {}
  /\ Throw

read_json(c) ==
  /\ step = "read_json"
  /\ config' = c
  /\ step' = "create_manager"
  /\ UNCHANGED <<pending, creators_, objects>>

(* The file is not there, or is not JSON.                                  *)
read_json_fails ==
  /\ step = "read_json"
  /\ Throw

ManagerArgs_not_const == [Manager EXCEPT !.args = <<"ptree&">>]

(* The template arguments that create() deduces, after the static_cast.    *)
ManagerArgs == Manager

(* properties.get() throws for a missing key, create() for an unknown id.  *)
ManagerCreators == Creators("main", ManagerArgs, config.manager)

create_manager ==
  /\ step = "create_manager"
  /\ IF ManagerCreators = {}
     THEN Throw
     ELSE /\ exec_manager' = ClassOf(CHOOSE c \in ManagerCreators : TRUE)
          /\ step' = "create_monitor"
          /\ UNCHANGED <<pending, creators_, config, exec_monitor_, benchs_,
                         processes_>>

-----------------------------------------------------------------------------
(* The constructors: exec_manager first, which creates the monitor.        *)

MonitorCreators == Creators("core/exec_manager", Monitor, config.monitor)

(* get<unsigned>() takes a minus sign and wraps around.                    *)
IsUnsigned(n) == n # None /\ -Modulus < n /\ n < Modulus

generic_events == {"linux", "dummy"}

(* Whether the constructor of the class of monitor returns.                *)
Constructs(class) ==
  /\ IsUnsigned(config.sampling_length)
  /\ class \in {"pmc_sampler<linux>", "pmc_sampler<dummy>"} =>
       config.event \in generic_events

create_monitor ==
  /\ step = "create_monitor"
  /\ \/ /\ \A c \in MonitorCreators : ~Constructs(ClassOf(c))
        /\ Throw
     \/ /\ \E c \in MonitorCreators :
             /\ Constructs(ClassOf(c))
             /\ exec_monitor_' = ClassOf(c)
        /\ step' = "parse"
        /\ UNCHANGED <<pending, creators_, config, exec_manager, benchs_,
                       processes_>>

(* One more character: a space ends a piece and begins another one.        *)
Adds(pieces, c) ==
  IF c = Space THEN Append(pieces, <<>>)
  ELSE [pieces EXCEPT ![Len(pieces)] = Append(@, c)]

(* boost::split(): the pieces between one space and the next.              *)
split(cmd) ==
  LET pieces[n \in 0..Len(cmd)] ==   \* of the first n characters
        IF n = 0 THEN << <<>> >> ELSE Adds(pieces[n - 1], cmd[n])
  IN pieces[Len(cmd)]

parse_cmd_compressed(cmd) == SelectSeq(split(cmd), LAMBDA t : t # <<>>)

parse_cmd(cmd) == split(cmd)

Parses(b) == b.name # None /\ b.cmd # None

Numbered_not(s) == [i \in DOMAIN s |-> [id |-> 0, args |-> s[i].args]]

(* for (auto& b : benchs_) b.id = id++;                                    *)
Numbered(s) == [i \in DOMAIN s |-> [id |-> i - 1, args |-> s[i].args]]

(* parse_vector<benchmark>(), then the body of the constructor.            *)
parse_benchmarks ==
  /\ step = "parse"
  /\ IF config.benchmarks = None \/ \E i \in DOMAIN config.benchmarks :
                                      ~Parses(config.benchmarks[i])
     THEN Throw
     ELSE /\ benchs_' = Numbered([i \in DOMAIN config.benchmarks |->
               [id |-> 0, args |-> parse_cmd(config.benchmarks[i].cmd)]])
          /\ processes_' = [i \in DOMAIN config.benchmarks |-> None]
          /\ step' = "prepare"
          /\ UNCHANGED <<pending, creators_, config, exec_manager, exec_monitor_>>

(* The loop of start_impl(): one process for each benchmark.               *)
prepare_next_bench(b) ==
  /\ step = "prepare"
  /\ b.args[1] \in Paths
  /\ processes_' = [processes_ EXCEPT ![b.id + 1] = b.args]
  /\ benchs_' = Tail(benchs_)
  /\ UNCHANGED <<step, pending, creators_, config, exec_manager, exec_monitor_>>

(* prepare() throws: the path does not exist, a pipe or a process cannot   *)
(* be created.  Nobody catches it, so that the program ends with no        *)
(* destructor run, and the processes it has prepared so far see the end of *)
(* their pipes.                                                            *)
prepare_next_bench_throws ==
  /\ step = "prepare"
  /\ benchs_ # <<>>
  /\ step' = "failed"
  /\ UNCHANGED <<pending, creators_, config, objects>>

prepare_done ==
  /\ step = "prepare"
  /\ benchs_ = <<>>
  /\ step' = "started"
  /\ UNCHANGED <<pending, creators_, config, objects>>

StartupNext ==
  \/ \E r \in Registars : register_creator(r)
  \/ \E help, given \in BOOLEAN : parse_options(help, given)
  \/ parse_options_fails
  \/ \E c \in Configs : read_json(c)
  \/ read_json_fails
  \/ create_manager \/ create_monitor \/ parse_benchmarks
  \/ benchs_ # <<>> /\ prepare_next_bench(Head(benchs_))
  \/ prepare_next_bench_throws \/ prepare_done

StartupSpec == StartupInit /\ [][StartupNext]_startup_vars

-----------------------------------------------------------------------------
Registered(factory) == {r \in Registars : r.factory = factory}

(* What the source asks of a configuration file, read as a whole.          *)
Valid(c) ==
  /\ \E r \in Registered(Manager) : r.id = c.manager
  /\ \E r \in Registered(Monitor) :
       /\ r.id = c.monitor
       /\ r.unit = "pmc_sampler" => c.event \in {"linux", "dummy"}
  /\ c.sampling_length \in (1 - Modulus)..(Modulus - 1)
  /\ c.benchmarks # None
  /\ \A i \in DOMAIN c.benchmarks :
       None \notin {c.benchmarks[i].name, c.benchmarks[i].cmd}

(* Whatever the order in which the static constructors ran, the program    *)
(* gets to its first process with a valid configuration and refuses any    *)
(* other one, with an exception, before that.  What it runs are objects of *)
(* the classes the file names: a manager and a monitor are both "simple",  *)
(* and it is never the other one that is created.  A valid file can still  *)
(* name a program that does not exist: prepare() finds out when earlier    *)
(* processes exist, and no such file gets past the loop.                   *)
RunsTheValid ==
  /\ step = "thrown" =>
       /\ config # None => ~Valid(config)
       /\ \A i \in DOMAIN processes_ : processes_[i] = None
  /\ step \in {"prepare", "failed", "started"} =>
       /\ Valid(config)
       /\ \E r \in Registered(Manager) :
            r.id = config.manager /\ r.class = exec_manager
       /\ \E r \in Registered(Monitor) :
            r.id = config.monitor /\ r.class = exec_monitor_
  /\ step = "started" =>
       \A i \in DOMAIN config.benchmarks :
         parse_cmd(config.benchmarks[i].cmd)[1] \in Paths

(* When start_impl() has prepared the benchmarks, every element of         *)
(* processes_ is the process of the benchmark at that position of the      *)
(* file: none is left empty, which the next loop would dereference, and    *)
(* none replaces another one.  When it fails in between, exactly the       *)
(* benchmarks before the one it was at have their processes.               *)
EverySlotFilled ==
  step \in {"failed", "started"} =>
    /\ Len(processes_) = Len(config.benchmarks)
    /\ \A i \in DOMAIN processes_ :
         processes_[i] = IF i <= Len(processes_) - Len(benchs_)
                         THEN parse_cmd(config.benchmarks[i].cmd) ELSE None
    /\ step = "started" => benchs_ = <<>>

(* Another argument after the ones that are joined already.                *)
Rejoin(text, arg) == text \o <<Space>> \o arg

(* The arguments with a space put back between one and the next.           *)
Join(args) ==
  LET joined[k \in 1..Len(args)] ==   \* the first k arguments
        IF k = 1 THEN args[1] ELSE Rejoin(joined[k - 1], args[k])
  IN joined[Len(args)]

(* The arguments of a process are the command cut at every space, and      *)
(* nothing is lost: there is always one, so that the constructor of        *)
(* process does not throw, none has a space, and with the spaces put back  *)
(* they are the command.                                                   *)
ArgvIsCommand ==
  \A i \in DOMAIN benchs_ :
    /\ benchs_[i].args # <<>>
    /\ \A j \in DOMAIN benchs_[i].args :
         \A k \in DOMAIN benchs_[i].args[j] : benchs_[i].args[j][k] # Space
    /\ \E c \in Range(config.benchmarks) : Join(benchs_[i].args) = c.cmd

=============================================================================
