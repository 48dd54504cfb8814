----------------------------- MODULE PipeOwner -----------------------------
(***************************************************************************)
(* pipe objects (util/process.h, util/process.cc) and the descriptors they *)
(* own: created, closed one end at a time, moved, assigned and destroyed   *)
(* in any order, while the rest of the runtime opens and closes files and  *)
(* the kernel gives every closed descriptor away again.                    *)
(*                                                                         *)
(* What goes through a pipe is in SyncProcess.                             *)
(***************************************************************************)
EXTENDS Integers

CONSTANTS Objects,   \* the pipe objects
          Fds,       \* the descriptors that are free at first
          MaxPipes,  \* bound: how many pipes are created
          None,      \* no file
          Other      \* a file of the rest of the runtime

Ends == {"READ_END", "WRITE_END"}
PipeEnds == (1..MaxPipes) \X Ends

ASSUME FdsAssumption == Fds \subseteq Nat /\ MaxPipes \in Nat
ASSUME FilesAssumption == None # Other /\ {None, Other} \cap PipeEnds = {}

VARIABLES
  exists,   \* the objects that were constructed and not destroyed
  fd_,      \* fd_[o][e]: pipe::fd_
  created,  \* how many pipes were created
  file,     \* file[f]: <<n, e>> is end e of the n-th pipe
  others,   \* the descriptors the rest of the runtime has open
  error     \* whether some ::close() failed

vars == <<exists, fd_, created, file, others, error>>

Shut == [e \in Ends |-> -1]
Free == {f \in Fds : file[f] = None}
Lowest(S) == CHOOSE f \in S : \A g \in S : f <= g

Init ==
  /\ exists = {}
  /\ fd_ = [o \in Objects |-> Shut]
  /\ created = 0
  /\ file = [f \in Fds |-> None]
  /\ others = {}
  /\ error = FALSE

-----------------------------------------------------------------------------
(* pipe() and pipe(flags).  If the kernel has no two descriptors left the  *)
(* constructor throws, and there is no object.                             *)
construct(o) ==
  /\ o \notin exists
  /\ created < MaxPipes
  /\ \E r \in Free, w \in Free :
       /\ r = Lowest(Free)
       /\ w # r
       /\ w = Lowest(Free \ {r})
       /\ fd_' = [fd_ EXCEPT ![o] = [READ_END |-> r, WRITE_END |-> w]]
       /\ file' = [file EXCEPT ![r] = <<created + 1, "READ_END">>,
                               ![w] = <<created + 1, "WRITE_END">>]
  /\ exists' = exists \cup {o}
  /\ created' = created + 1
  /\ UNCHANGED <<others, error>>

is_open(o, e) == fd_[o][e] # -1

(* ::close() of the ends in E that are open.  It fails for a descriptor    *)
(* at which no file is open.                                               *)
CloseEnds(o, E) ==
  LET fds == {fd_[o][e] : e \in {e \in E : is_open(o, e)}} IN
  /\ file' = [f \in Fds |-> IF f \in fds THEN None ELSE file[f]]
  /\ error' = (error \/ \E f \in fds : file[f] = None)

close(o, e) ==
  /\ o \in exists
  /\ is_open(o, e)
  /\ CloseEnds(o, {e})
  /\ fd_' = [fd_ EXCEPT ![o][e] = -1]
  /\ UNCHANGED <<exists, created, others>>

destroy(o) ==
  /\ o \in exists
  /\ CloseEnds(o, Ends)
  /\ fd_' = [fd_ EXCEPT ![o] = Shut]
  /\ exists' = exists \ {o}
  /\ UNCHANGED <<created, others>>

move_construct_copying(o, p) ==
  /\ o \notin exists
  /\ p \in exists
  /\ fd_' = [fd_ EXCEPT ![o] = fd_[p]]
  /\ exists' = exists \cup {o}
  /\ UNCHANGED <<created, file, others, error>>

(* pipe o{std::move(p)};                                                   *)
move_construct(o, p) ==
  /\ o \notin exists
  /\ p \in exists
  /\ fd_' = [fd_ EXCEPT ![o] = fd_[p], ![p] = Shut]
  /\ exists' = exists \cup {o}
  /\ UNCHANGED <<created, file, others, error>>

move_assign_without_closing(o, p) ==
  /\ {o, p} \subseteq exists
  /\ fd_' = [fd_ EXCEPT ![o] = fd_[p], ![p] = Shut]
  /\ UNCHANGED <<exists, created, file, others, error>>

(* o = std::move(p); with o = p it closes both ends.                       *)
move_assign(o, p) ==
  /\ {o, p} \subseteq exists
  /\ CloseEnds(o, Ends)
  /\ fd_' = [fd_ EXCEPT ![o] = fd_[p], ![p] = Shut]
  /\ UNCHANGED <<exists, created, others>>

-----------------------------------------------------------------------------
other_opens ==
  /\ \E f \in Free :
       /\ f = Lowest(Free)
       /\ file' = [file EXCEPT ![f] = Other]
       /\ others' = others \cup {f}
  /\ UNCHANGED <<exists, fd_, created, error>>

other_closes(f) ==
  /\ f \in others
  /\ file' = [file EXCEPT ![f] = None]
  /\ others' = others \ {f}
  /\ UNCHANGED <<exists, fd_, created, error>>

Next ==
  \/ \E o \in Objects : construct(o) \/ destroy(o)
  \/ \E o \in Objects, e \in Ends : close(o, e)
  \/ \E o, p \in Objects : move_construct(o, p) \/ move_assign(o, p)
  \/ other_opens
  \/ \E f \in Fds : other_closes(f)

Spec == Init /\ [][Next]_vars

-----------------------------------------------------------------------------
(* fd_ is -1 or a descriptor that pipe() returned, and the other variables *)
(* are typed.                                                              *)
TypeOK ==
  /\ exists \subseteq Objects
  /\ fd_ \in [Objects -> [Ends -> Fds \cup {-1}]]
  /\ created \in 0..MaxPipes
  /\ file \in [Fds -> PipeEnds \cup {None, Other}]
  /\ others \subseteq Fds
  /\ error \in BOOLEAN

Holds(o, e, f) == o \in exists /\ is_open(o, e) /\ fd_[o][e] = f

(* An end that is_open() is open, is that end, and belongs to the same     *)
(* pipe as the other end of the object; no two objects hold a descriptor,  *)
(* and no file of the rest of the runtime was closed under it.  So read()  *)
(* and write() reach the pipe of their object and nothing else.            *)
EndsOwned ==
  /\ \A o \in exists, e \in Ends : is_open(o, e) =>
       \E n \in 1..MaxPipes :
         /\ file[fd_[o][e]] = <<n, e>>
         /\ \A d \in Ends : is_open(o, d) => file[fd_[o][d]] = <<n, d>>
  /\ \A o, p \in exists, e, d \in Ends :
       is_open(o, e) /\ fd_[o][e] = fd_[p][d] => o = p /\ e = d
  /\ \A f \in others : file[f] = Other

(* "The pipe is automatically closed": every end that is open is in an     *)
(* object that exists and will close it, and ::close() never fails, which  *)
(* in the destructor would end the program.                                *)
NoneLeaked ==
  /\ \A f \in Fds : file[f] \in PipeEnds =>
       \E o \in exists, e \in Ends : Holds(o, e, f)
  /\ ~error

=============================================================================
