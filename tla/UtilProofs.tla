----------------------------- MODULE UtilProofs -----------------------------
(***************************************************************************)
(* Two classes of src/util, pipe (PipeOwner) and callback_timer            *)
(* (CallbackTimer).  PipeOwner, for any number of objects, descriptors and *)
(* pipes: EndsOwned and NoneLeaked are inductive together.  That ::close() *)
(* does not fail needs the one, that nothing is left open needs both.      *)
(***************************************************************************)
EXTENDS PipeOwner, CallbackTimer, TLAPS

Inv == TypeOK /\ EndsOwned /\ NoneLeaked

(* What ::close() of some ends of an object does to the files: those ends  *)
(* are open, so it does not fail.                                          *)
LEMMA ClosesItsOwn ==
  ASSUME Inv, NEW o \in exists, NEW E, E \subseteq Ends, CloseEnds(o, E)
  PROVE  /\ file' \in [Fds -> PipeEnds \cup {None, Other}]
         /\ \A f \in Fds : (\E e \in E : is_open(o, e) /\ fd_[o][e] = f) =>
              file'[f] = None
         /\ \A f \in Fds : ~(\E e \in E : is_open(o, e) /\ fd_[o][e] = f) =>
              file'[f] = file[f]
         /\ error' = FALSE
<1>. DEFINE fds == {fd_[o][e] : e \in {e \in E : is_open(o, e)}}
<1>1. /\ file' = [f \in Fds |-> IF f \in fds THEN None ELSE file[f]]
      /\ error' = (error \/ \E f \in fds : file[f] = None)
  BY DEF CloseEnds
<1>2. \A f \in fds : f \in Fds /\ file[f] # None
  <2>. SUFFICES ASSUME NEW e \in E, is_open(o, e)
                PROVE  fd_[o][e] \in Fds /\ file[fd_[o][e]] # None
    OBVIOUS
  <2>1. fd_[o][e] \in Fds
    BY DEF Inv, TypeOK, is_open
  <2>2. PICK n \in 1..MaxPipes : file[fd_[o][e]] = <<n, e>>
    BY DEF Inv, EndsOwned
  <2>. QED  BY <2>1, <2>2, FilesAssumption DEF PipeEnds
<1>3. ~error
  BY DEF Inv, NoneLeaked
<1>4. error' = FALSE
  BY <1>1, <1>2, <1>3
<1>5. file' \in [Fds -> PipeEnds \cup {None, Other}]
  BY <1>1 DEF Inv, TypeOK
<1>6. \A f : f \in fds <=> \E e \in E : is_open(o, e) /\ fd_[o][e] = f
  OBVIOUS
<1>. HIDE DEF fds
<1>. QED  BY <1>1, <1>4, <1>5, <1>6

-----------------------------------------------------------------------------
(* Descriptors that are closed are not those of an object.                 *)
LEMMA HeldIsOpen ==
  ASSUME Inv, NEW o \in exists, NEW e \in Ends, is_open(o, e)
  PROVE  /\ fd_[o][e] \in Fds
         /\ file[fd_[o][e]] \in PipeEnds
         /\ file[fd_[o][e]] \notin {None, Other}
         /\ fd_[o][e] \notin others
<1>1. fd_[o][e] \in Fds
  BY DEF Inv, TypeOK, is_open
<1>2. PICK n \in 1..MaxPipes : file[fd_[o][e]] = <<n, e>>
  BY DEF Inv, EndsOwned
<1>3. file[fd_[o][e]] \in PipeEnds
  BY <1>2 DEF PipeEnds
<1>. QED  BY <1>1, <1>3, FilesAssumption DEF Inv, EndsOwned

(* The constructor puts a new pipe on two free descriptors.                *)
LEMMA Constructs ==
  ASSUME Inv, NEW o \in Objects, construct(o)
  PROVE  Inv'
<1>1. PICK r \in Free, w \in Free :
        /\ w # r
        /\ fd_' = [fd_ EXCEPT ![o] = [READ_END |-> r, WRITE_END |-> w]]
        /\ file' = [file EXCEPT ![r] = <<created + 1, "READ_END">>,
                                ![w] = <<created + 1, "WRITE_END">>]
  BY DEF construct
<1>2. /\ o \notin exists /\ created < MaxPipes /\ created \in Nat
      /\ exists' = exists \cup {o} /\ created' = created + 1
      /\ others' = others /\ error' = error
  BY FdsAssumption DEF construct, Inv, TypeOK
<1>3. r \in Fds /\ w \in Fds /\ file[r] = None /\ file[w] = None
  BY DEF Free
<1>4. r # -1 /\ w # -1
  BY <1>3, FdsAssumption
<1>5. created + 1 \in 1..MaxPipes
  BY <1>2, FdsAssumption
<1>6. /\ fd_'[o] = [READ_END |-> r, WRITE_END |-> w]
      /\ \A p \in exists : fd_'[p] = fd_[p] /\ p # o
  BY <1>1, <1>2 DEF Inv, TypeOK
<1>7. /\ file'[r] = <<created + 1, "READ_END">>
      /\ file'[w] = <<created + 1, "WRITE_END">>
      /\ \A f \in Fds : f # r /\ f # w => file'[f] = file[f]
  BY <1>1, <1>3 DEF Inv, TypeOK
<1>8. TypeOK'
  <2>1. fd_' \in [Objects -> [Ends -> Fds \cup {-1}]]
    BY <1>1, <1>3 DEF Inv, TypeOK, Ends
  <2>2. file' \in [Fds -> PipeEnds \cup {None, Other}]
    BY <1>1, <1>3, <1>5 DEF Inv, TypeOK, PipeEnds, Ends
  <2>. QED  BY <2>1, <2>2, <1>2, <1>5 DEF Inv, TypeOK
<1>9. /\ \A p \in exists, e \in Ends : is_open(p, e) =>
           fd_[p][e] \in Fds /\ fd_[p][e] # r /\ fd_[p][e] # w
      /\ \A p \in exists, e \in Ends : is_open(p, e)' <=> is_open(p, e)
      /\ \A f \in others : f # r /\ f # w /\ f \in Fds
  <2>1. \A f \in others : file[f] # None
    BY FilesAssumption DEF Inv, EndsOwned
  <2>. QED  BY <1>3, <1>6, <2>1, HeldIsOpen DEF is_open, Inv, TypeOK
<1>10. /\ \A e \in Ends : is_open(o, e)'
       /\ \A e \in Ends : fd_'[o][e] \in {r, w}
       /\ fd_'[o]["READ_END"] = r /\ fd_'[o]["WRITE_END"] = w
  BY <1>4, <1>6 DEF is_open, Ends
<1>11. EndsOwned'
  <2>1. ASSUME NEW p \in exists', NEW e \in Ends, is_open(p, e)'
        PROVE  \E n \in 1..MaxPipes :
                 /\ file'[fd_'[p][e]] = <<n, e>>
                 /\ \A d \in Ends : is_open(p, d)' => file'[fd_'[p][d]] = <<n, d>>
    <3>1. CASE p = o
      BY <3>1, <1>5, <1>7, <1>10 DEF Ends
    <3>2. CASE p # o
      <4>1. p \in exists /\ is_open(p, e)
        BY <3>2, <1>2, <1>9, <2>1
      <4>2. PICK n \in 1..MaxPipes :
              /\ file[fd_[p][e]] = <<n, e>>
              /\ \A d \in Ends : is_open(p, d) => file[fd_[p][d]] = <<n, d>>
        BY <4>1 DEF Inv, EndsOwned
      <4>. QED  BY <4>1, <4>2, <1>6, <1>7, <1>9
    <3>. QED  BY <3>1, <3>2
  <2>2. ASSUME NEW p \in exists', NEW q \in exists', NEW e \in Ends, NEW d \in Ends,
               is_open(p, e)', fd_'[p][e] = fd_'[q][d]
        PROVE  p = q /\ e = d
    <3>0. is_open(q, d)'
      BY <2>2 DEF is_open
    <3>1. CASE p = o /\ q = o
      BY <3>1, <2>2, <1>1, <1>10 DEF Ends
    <3>2. CASE p = o /\ q # o
      BY <3>0, <3>2, <2>2, <1>2, <1>6, <1>9, <1>10
    <3>3. CASE p # o /\ q = o
      BY <3>3, <2>2, <1>2, <1>6, <1>9, <1>10
    <3>4. CASE p # o /\ q # o
      BY <3>4, <2>2, <1>2, <1>6, <1>9 DEF Inv, EndsOwned
    <3>. QED  BY <3>1, <3>2, <3>3, <3>4
  <2>3. \A f \in others' : file'[f] = Other
    BY <1>2, <1>7, <1>9 DEF Inv, EndsOwned
  <2>. QED  BY <2>1, <2>2, <2>3 DEF EndsOwned
<1>12. NoneLeaked'
  <2>1. ASSUME NEW f \in Fds, file'[f] \in PipeEnds
        PROVE  \E p \in exists', e \in Ends : Holds(p, e, f)'
    <3>1. CASE f = r \/ f = w
      BY <3>1, <1>2, <1>10 DEF Holds, Ends
    <3>2. CASE f # r /\ f # w
      <4>1. PICK p \in exists, e \in Ends : Holds(p, e, f)
        BY <3>2, <2>1, <1>7 DEF Inv, NoneLeaked
      <4>. QED  BY <4>1, <1>2, <1>6, <1>9 DEF Holds
    <3>. QED  BY <3>1, <3>2
  <2>. QED  BY <2>1, <1>2 DEF NoneLeaked, Inv
<1>. QED  BY <1>8, <1>11, <1>12 DEF Inv

-----------------------------------------------------------------------------
(* The other operations take descriptors from one object to another, or    *)
(* close them.  from[q] is where what q has afterwards comes from.         *)
LEMMA Relocates ==
  ASSUME Inv, TypeOK', NEW from \in [exists' -> exists],
         \A q \in exists', e \in Ends : is_open(q, e)' =>
           /\ fd_'[q][e] = fd_[from[q]][e]
           /\ file'[fd_'[q][e]] = file[fd_'[q][e]],
         \A q, r \in exists', e \in Ends :
           is_open(q, e)' /\ is_open(r, e)' /\ from[q] = from[r] => q = r,
         \A f \in Fds : file'[f] \in PipeEnds =>
           /\ file'[f] = file[f]
           /\ \A p \in exists, e \in Ends : Holds(p, e, f) =>
                \E q \in exists' : Holds(q, e, f)',
         \A f \in others : file'[f] = file[f],
         others' = others, error' = FALSE
  PROVE  Inv'
<1>1. \A q \in exists', e \in Ends : is_open(q, e)' => is_open(from[q], e)
  BY DEF is_open
<1>2. EndsOwned'
  <2>1. ASSUME NEW q \in exists', NEW e \in Ends, is_open(q, e)'
        PROVE  \E n \in 1..MaxPipes :
                 /\ file'[fd_'[q][e]] = <<n, e>>
                 /\ \A d \in Ends : is_open(q, d)' => file'[fd_'[q][d]] = <<n, d>>
    <3>1. from[q] \in exists /\ is_open(from[q], e) /\ e \in Ends
      BY <2>1, <1>1
    <3>0. EndsOwned
      BY DEF Inv
    <3>2. PICK n \in 1..MaxPipes :
            /\ file[fd_[from[q]][e]] = <<n, e>>
            /\ \A d \in Ends : is_open(from[q], d) => file[fd_[from[q]][d]] = <<n, d>>
      BY ONLY <3>0, <3>1 DEF EndsOwned
    <3>3. ASSUME NEW d \in Ends, is_open(q, d)'
          PROVE  file'[fd_'[q][d]] = <<n, d>>
      <4>1. is_open(from[q], d) /\ fd_'[q][d] = fd_[from[q]][d]
            /\ file'[fd_'[q][d]] = file[fd_'[q][d]]
        BY <3>3, <1>1
      <4>. QED  BY ONLY <4>1, <3>2, <3>3
    <3>4. file'[fd_'[q][e]] = <<n, e>>
      BY <2>1, <3>3
    <3>. QED  BY ONLY <3>2, <3>3, <3>4
  <2>2. ASSUME NEW q \in exists', NEW r \in exists', NEW e \in Ends, NEW d \in Ends,
               is_open(q, e)', fd_'[q][e] = fd_'[r][d]
        PROVE  q = r /\ e = d
    <3>1. is_open(r, d)'
      BY <2>2 DEF is_open
    <3>2. /\ from[q] \in exists /\ from[r] \in exists
          /\ is_open(from[q], e) /\ fd_[from[q]][e] = fd_[from[r]][d]
      BY <2>2, <3>1, <1>1
    <3>3. from[q] = from[r] /\ e = d
      BY <3>2 DEF Inv, EndsOwned
    <3>. QED  BY <2>2, <3>1, <3>3
  <2>3. \A f \in others' : file'[f] = Other
    BY DEF Inv, EndsOwned
  <2>. QED  BY ONLY <2>1, <2>2, <2>3 DEF EndsOwned
<1>3. NoneLeaked'
  <2>1. ASSUME NEW f \in Fds, file'[f] \in PipeEnds
        PROVE  \E q \in exists', e \in Ends : Holds(q, e, f)'
    <3>1. PICK p \in exists, e \in Ends : Holds(p, e, f)
      BY <2>1 DEF Inv, NoneLeaked
    <3>. QED  BY <2>1, <3>1
  <2>. QED  BY <2>1 DEF NoneLeaked
<1>. QED  BY <1>2, <1>3 DEF Inv

(* Closing an end, or both in the destructor.                              *)
LEMMA ClosesEnds ==
  ASSUME Inv, NEW o \in exists, NEW E, E \subseteq Ends, CloseEnds(o, E),
         fd_' \in [Objects -> [Ends -> Fds \cup {-1}]],
         \A q \in Objects : q # o => fd_'[q] = fd_[q],
         \A e \in Ends : fd_'[o][e] = IF e \in E THEN -1 ELSE fd_[o][e],
         \/ exists' = exists
         \/ exists' = exists \ {o} /\ E = Ends,
         created' = created, others' = others
  PROVE  Inv'
<1>1. /\ file' \in [Fds -> PipeEnds \cup {None, Other}]
      /\ \A f \in Fds : (\E e \in E : is_open(o, e) /\ fd_[o][e] = f) =>
           file'[f] = None
      /\ \A f \in Fds : ~(\E e \in E : is_open(o, e) /\ fd_[o][e] = f) =>
           file'[f] = file[f]
      /\ error' = FALSE
  BY ClosesItsOwn
<1>2. TypeOK'
  BY <1>1 DEF Inv, TypeOK
<1>. DEFINE from == [q \in exists' |-> q]
<1>3. from \in [exists' -> exists] /\ exists \subseteq Objects
  BY DEF Inv, TypeOK
<1>4. ASSUME NEW q \in exists', NEW e \in Ends, is_open(q, e)'
      PROVE  /\ fd_'[q][e] = fd_[q][e]
             /\ file'[fd_'[q][e]] = file[fd_'[q][e]]
             /\ q = o => e \notin E
  <2>1. fd_'[q][e] = fd_[q][e] /\ (q = o => e \notin E) /\ q \in exists
    BY <1>3, <1>4 DEF is_open
  <2>2. is_open(q, e)
    BY <1>4, <2>1 DEF is_open
  <2>3. ~ \E d \in E : is_open(o, d) /\ fd_[o][d] = fd_[q][e]
    BY <2>1, <2>2 DEF Inv, EndsOwned
  <2>. QED  BY <1>1, <2>1, <2>2, <2>3, HeldIsOpen
<1>5. ASSUME NEW f \in Fds, file'[f] \in PipeEnds
      PROVE  /\ file'[f] = file[f]
             /\ \A p \in exists, e \in Ends : Holds(p, e, f) =>
                  \E q \in exists' : Holds(q, e, f)'
  <2>1. file'[f] # None
    BY <1>5, FilesAssumption
  <2>2. ~ \E e \in E : is_open(o, e) /\ fd_[o][e] = f
    BY <1>1, <2>1
  <2>3. ASSUME NEW p \in exists, NEW e \in Ends, Holds(p, e, f)
        PROVE  p \in exists' /\ Holds(p, e, f)'
    <3>1. p = o => e \notin E
      BY <2>2, <2>3 DEF Holds
    <3>2. p \in exists' /\ fd_'[p][e] = fd_[p][e]
      BY <1>3, <3>1
    <3>. QED  BY <2>3, <3>2 DEF Holds, is_open
  <2>. QED  BY <1>1, <2>2, <2>3
<1>6. \A f \in others : file'[f] = file[f]
  <2>1. ASSUME NEW f \in others, NEW e \in E, is_open(o, e), fd_[o][e] = f
        PROVE  FALSE
    BY <2>1, HeldIsOpen
  <2>. QED  BY <1>1, <2>1 DEF Inv, TypeOK
<1>7. /\ \A q \in exists', e \in Ends : is_open(q, e)' =>
           /\ fd_'[q][e] = fd_[from[q]][e]
           /\ file'[fd_'[q][e]] = file[fd_'[q][e]]
      /\ \A q, r \in exists', e \in Ends :
           is_open(q, e)' /\ is_open(r, e)' /\ from[q] = from[r] => q = r
  BY <1>4
<1>. HIDE DEF from
<1>. QED  BY <1>1, <1>2, <1>3, <1>5, <1>6, <1>7, Relocates

(* close() of one end.                                                     *)
LEMMA Closes ==
  ASSUME Inv, NEW o \in Objects, NEW e \in Ends, close(o, e)
  PROVE  Inv'
<1>1. /\ o \in exists /\ CloseEnds(o, {e})
      /\ fd_' = [fd_ EXCEPT ![o][e] = -1]
      /\ exists' = exists /\ created' = created /\ others' = others
  BY DEF close
<1>2. fd_ \in [Objects -> [Ends -> Fds \cup {-1}]]
  BY DEF Inv, TypeOK
<1>3. /\ fd_' \in [Objects -> [Ends -> Fds \cup {-1}]]
      /\ \A q \in Objects : q # o => fd_'[q] = fd_[q]
      /\ \A d \in Ends : fd_'[o][d] = IF d \in {e} THEN -1 ELSE fd_[o][d]
  BY <1>1, <1>2
<1>. QED  BY <1>1, <1>3, ClosesEnds

(* The destructor closes what is still open.                               *)
LEMMA Destroys ==
  ASSUME Inv, NEW o \in Objects, destroy(o)
  PROVE  Inv'
<1>1. /\ o \in exists /\ CloseEnds(o, Ends)
      /\ fd_' = [fd_ EXCEPT ![o] = Shut]
      /\ exists' = exists \ {o} /\ created' = created /\ others' = others
  BY DEF destroy
<1>2. fd_ \in [Objects -> [Ends -> Fds \cup {-1}]]
  BY DEF Inv, TypeOK
<1>3. /\ fd_' \in [Objects -> [Ends -> Fds \cup {-1}]]
      /\ \A q \in Objects : q # o => fd_'[q] = fd_[q]
      /\ \A d \in Ends : fd_'[o][d] = IF d \in Ends THEN -1 ELSE fd_[o][d]
  BY <1>1, <1>2 DEF Shut
<1>. QED  BY <1>1, <1>3, ClosesEnds

(* Both moves: o gets what p had, p is shut, and what o had was closed.    *)
LEMMA Moves ==
  ASSUME Inv, NEW o \in Objects, NEW p \in exists,
         fd_' = [fd_ EXCEPT ![o] = fd_[p], ![p] = Shut],
         exists' = exists \cup {o}, created' = created, others' = others,
         error' = FALSE,
         file' \in [Fds -> PipeEnds \cup {None, Other}],
         \A f \in Fds :
           IF o \in exists /\ \E e \in Ends : is_open(o, e) /\ fd_[o][e] = f
           THEN file'[f] = None ELSE file'[f] = file[f]
  PROVE  Inv'
<1>. DEFINE from == [q \in exists' |-> IF q = o THEN p ELSE q]
<1>1. /\ fd_ \in [Objects -> [Ends -> Fds \cup {-1}]]
      /\ exists \subseteq Objects /\ others \subseteq Fds
  BY DEF Inv, TypeOK
<1>2. /\ fd_'[p] = Shut
      /\ o # p => fd_'[o] = fd_[p]
      /\ \A q \in exists : q # o /\ q # p => fd_'[q] = fd_[q]
  BY <1>1
<1>3. TypeOK'
  BY <1>1 DEF Inv, TypeOK, Shut
<1>4. from \in [exists' -> exists]
  OBVIOUS
<1>5. ASSUME NEW q \in exists', NEW e \in Ends, is_open(q, e)'
      PROVE  /\ q # p
             /\ fd_'[q][e] = fd_[from[q]][e]
             /\ file'[fd_'[q][e]] = file[fd_'[q][e]]
  <2>1. q # p
    BY <1>2, <1>5 DEF is_open, Shut
  <2>2. fd_'[q][e] = fd_[from[q]][e] /\ from[q] \in exists
    BY <1>2, <2>1
  <2>3. is_open(from[q], e)
    BY <1>5, <2>2 DEF is_open
  <2>4. from[q] # o
    BY <2>1
  <2>. HIDE DEF from
  <2>5. ~ (o \in exists /\ \E d \in Ends : is_open(o, d) /\ fd_[o][d] = fd_[from[q]][e])
    BY <2>2, <2>3, <2>4 DEF Inv, EndsOwned
  <2>6. fd_[from[q]][e] \in Fds
    BY <2>2, <2>3, HeldIsOpen
  <2>. QED  BY <2>1, <2>2, <2>5, <2>6
<1>6. \A q, r \in exists', e \in Ends :
        is_open(q, e)' /\ is_open(r, e)' /\ from[q] = from[r] => q = r
  BY <1>5
<1>7. ASSUME NEW f \in Fds, file'[f] \in PipeEnds
      PROVE  /\ file'[f] = file[f]
             /\ \A r \in exists, e \in Ends : Holds(r, e, f) =>
                  \E q \in exists' : Holds(q, e, f)'
  <2>1. file'[f] # None
    BY <1>7, FilesAssumption
  <2>2. ~ (o \in exists /\ \E e \in Ends : is_open(o, e) /\ fd_[o][e] = f)
    BY <2>1
  <2>3. ASSUME NEW r \in exists, NEW e \in Ends, Holds(r, e, f)
        PROVE  \E q \in exists' : Holds(q, e, f)'
    <3>1. r # o
      BY <2>2, <2>3 DEF Holds
    <3>2. CASE r = p
      <4>1. o \in exists' /\ fd_'[o][e] = fd_[p][e]
        BY <1>2, <3>1, <3>2
      <4>. QED  BY <2>3, <3>2, <4>1 DEF Holds, is_open
    <3>3. CASE r # p
      <4>1. r \in exists' /\ fd_'[r][e] = fd_[r][e]
        BY <1>2, <3>1, <3>3
      <4>. QED  BY <2>3, <4>1 DEF Holds, is_open
    <3>. QED  BY <3>2, <3>3
  <2>. QED  BY <2>2, <2>3
<1>8. \A f \in others : file'[f] = file[f]
  <2>1. ASSUME NEW f \in others, NEW e \in Ends, o \in exists, is_open(o, e),
               fd_[o][e] = f
        PROVE  FALSE
    BY <2>1, HeldIsOpen
  <2>. QED  BY <1>1, <2>1
<1>. HIDE DEF from
<1>9. \A q \in exists', e \in Ends : is_open(q, e)' =>
        /\ fd_'[q][e] = fd_[from[q]][e]
        /\ file'[fd_'[q][e]] = file[fd_'[q][e]]
  BY ONLY <1>5
<1>. QED  BY <1>3, <1>4, <1>6, <1>7, <1>8, <1>9, Relocates

(* The move constructor leaves nothing open in the object moved from.      *)
LEMMA MoveConstructs ==
  ASSUME Inv, NEW o \in Objects, NEW p \in Objects, move_construct(o, p)
  PROVE  Inv'
<1>1. /\ o \notin exists /\ p \in exists /\ ~error
      /\ fd_' = [fd_ EXCEPT ![o] = fd_[p], ![p] = Shut]
      /\ exists' = exists \cup {o} /\ created' = created /\ file' = file
      /\ others' = others /\ error' = error
      /\ file \in [Fds -> PipeEnds \cup {None, Other}]
  BY DEF move_construct, Inv, TypeOK, NoneLeaked
<1>2. error' = FALSE
  BY <1>1 DEF Inv, TypeOK
<1>. QED  BY <1>1, <1>2, Moves

(* The move assignment first closes what the target had open.              *)
LEMMA MoveAssigns ==
  ASSUME Inv, NEW o \in Objects, NEW p \in Objects, move_assign(o, p)
  PROVE  Inv'
<1>1. /\ o \in exists /\ p \in exists /\ CloseEnds(o, Ends)
      /\ fd_' = [fd_ EXCEPT ![o] = fd_[p], ![p] = Shut]
      /\ exists' = exists \cup {o} /\ created' = created /\ others' = others
  BY DEF move_assign
<1>2. /\ file' \in [Fds -> PipeEnds \cup {None, Other}]
      /\ \A f \in Fds : (\E e \in Ends : is_open(o, e) /\ fd_[o][e] = f) =>
           file'[f] = None
      /\ \A f \in Fds : ~(\E e \in Ends : is_open(o, e) /\ fd_[o][e] = f) =>
           file'[f] = file[f]
      /\ error' = FALSE
  BY <1>1, ClosesItsOwn
<1>. QED  BY <1>1, <1>2, Moves

(* The rest of the runtime takes free descriptors, and gives up its own.   *)
LEMMA OthersOpenAndClose ==
  ASSUME Inv, other_opens \/ \E f \in Fds : other_closes(f)
  PROVE  Inv'
<1>. USE FilesAssumption
<1>1. PICK f \in Fds, x \in {None, Other} :
        /\ file[f] \in {None, Other}
        /\ file' = [file EXCEPT ![f] = x]
        /\ others' = IF x = Other THEN others \cup {f} ELSE others \ {f}
        /\ UNCHANGED <<exists, fd_, created, error>>
  <2>1. CASE other_opens
    BY <2>1 DEF other_opens, Free
  <2>2. CASE \E f \in Fds : other_closes(f)
    BY <2>2 DEF other_closes, Inv, EndsOwned
  <2>. QED  BY <2>1, <2>2
<1>2. file'[f] = x /\ \A g \in Fds : g # f => file'[g] = file[g]
  BY <1>1 DEF Inv, TypeOK
<1>3. TypeOK'
  BY <1>1 DEF Inv, TypeOK
<1>4. \A o \in exists, e \in Ends : is_open(o, e) =>
        fd_[o][e] \in Fds /\ file'[fd_[o][e]] = file[fd_[o][e]]
  BY <1>1, <1>2, HeldIsOpen
<1>5. EndsOwned'
  <2>1. /\ exists' = exists /\ fd_' = fd_
        /\ \A o, e : is_open(o, e)' <=> is_open(o, e)
    BY <1>1 DEF is_open
  <2>2. ASSUME NEW o \in exists, NEW e \in Ends, is_open(o, e)
        PROVE  \E n \in 1..MaxPipes :
                 /\ file'[fd_[o][e]] = <<n, e>>
                 /\ \A d \in Ends : is_open(o, d) => file'[fd_[o][d]] = <<n, d>>
    BY <2>2, <1>4 DEF Inv, EndsOwned
  <2>3. \A g \in others' : file'[g] = Other
    BY <1>1, <1>2 DEF Inv, EndsOwned, TypeOK
  <2>4. \A o, p \in exists, e, d \in Ends :
          is_open(o, e) /\ fd_[o][e] = fd_[p][d] => o = p /\ e = d
    BY DEF Inv, EndsOwned
  <2>. QED  BY ONLY <2>1, <2>2, <2>3, <2>4 DEF EndsOwned
<1>6. NoneLeaked'
  <2>1. ASSUME NEW g \in Fds, file'[g] \in PipeEnds
        PROVE  \E o \in exists, e \in Ends : Holds(o, e, g)
    BY <2>1, <1>2 DEF Inv, NoneLeaked
  <2>. QED  BY <1>1, <2>1 DEF Inv, NoneLeaked, Holds, is_open
<1>. QED  BY <1>3, <1>5, <1>6 DEF Inv

-----------------------------------------------------------------------------
(* No object exists, and no pipe.                                          *)
LEMMA InitInv == Init => Inv
<1>. SUFFICES ASSUME Init PROVE Inv
  OBVIOUS
<1>1. TypeOK
  <2>1. fd_ \in [Objects -> [Ends -> Fds \cup {-1}]]
    BY DEF Init, Shut
  <2>2. created \in 0..MaxPipes
    BY FdsAssumption DEF Init
  <2>3. file \in [Fds -> PipeEnds \cup {None, Other}]
    BY DEF Init
  <2>. QED  BY <2>1, <2>2, <2>3 DEF Init, TypeOK
<1>2. EndsOwned
  BY DEF Init, EndsOwned
<1>3. NoneLeaked
  BY FilesAssumption DEF Init, NoneLeaked
<1>. QED  BY <1>1, <1>2, <1>3 DEF Inv

(* Inv is inductive.                                                       *)
LEMMA NextInv == Inv /\ [Next]_vars => Inv'
<1>. SUFFICES ASSUME Inv, [Next]_vars PROVE Inv'
  OBVIOUS
<1>1. CASE \E o \in Objects : construct(o) \/ destroy(o)
  BY <1>1, Constructs, Destroys
<1>2. CASE \E o \in Objects, e \in Ends : close(o, e)
  BY <1>2, Closes
<1>3. CASE \E o, p \in Objects : move_construct(o, p) \/ move_assign(o, p)
  BY <1>3, MoveConstructs, MoveAssigns
<1>4. CASE other_opens \/ \E f \in Fds : other_closes(f)
  BY <1>4, OthersOpenAndClose
<1>5. CASE UNCHANGED vars
  BY <1>5 DEF vars, Inv, TypeOK, EndsOwned, NoneLeaked, Holds, is_open
<1>. QED  BY <1>1, <1>2, <1>3, <1>4, <1>5 DEF Next

(* However pipe objects are created, moved, closed and destroyed, fd_      *)
(* keeps its type.                                                         *)
THEOREM PipesTyped == Spec => []TypeOK
<1>1. Inv => TypeOK
  BY DEF Inv
<1>. QED  BY <1>1, InitInv, NextInv, PTL DEF Spec

(* read() and write() of a pipe reach the pipe of that object: the moves   *)
(* and close() leave every descriptor with one owner.                      *)
THEOREM PipesOwnTheirEnds == Spec => []EndsOwned
<1>1. Inv => EndsOwned
  BY DEF Inv
<1>. QED  BY <1>1, InitInv, NextInv, PTL DEF Spec

(* "The pipe is automatically closed": no end is left open by a move or a  *)
(* destructor, and no close() in a destructor fails.                       *)
THEOREM PipesAreClosed == Spec => []NoneLeaked
<1>1. Inv => NoneLeaked
  BY DEF Inv
<1>. QED  BY <1>1, InitInv, NextInv, PTL DEF Spec

-----------------------------------------------------------------------------
(* callback_timer, for any number of timers.                               *)

(* Type correctness of the timers; run() has the mutex where it says so.   *)
THEOREM TimerTypeCorrect == TimerSpec => []TimerTypeOK
<1>. USE DEF TimerTypeOK
<1>1. TimerInit => TimerTypeOK
  <2>1. [t \in Timers |-> FALSE] \in [Timers -> BOOLEAN]
    OBVIOUS
  <2>. SUFFICES ASSUME TimerInit PROVE TimerTypeOK
    OBVIOUS
  <2>2. /\ canceled_ \in [Timers -> BOOLEAN]
        /\ timed_out \in [Timers -> BOOLEAN]
    BY <2>1 DEF TimerInit
  <2>3. callback_ \in [Timers -> {"not called", "running", "returned"}]
    BY DEF TimerInit
  <2>4. \A t \in Timers : mutex_[t] = "free" /\ thread_[t] = "lock"
    BY DEF TimerInit
  <2>5. /\ owner \in [Timers ->
              {"using", "cancel", "notify", "join", "destroyed"}]
        /\ thread_ \in [Timers ->
              {"lock", "check", "block", "wait", "callback", "done"}]
        /\ mutex_ \in [Timers -> {"free", "run"}]
    BY DEF TimerInit
  <2>. QED  BY <2>2, <2>3, <2>4, <2>5
<1>2. TimerTypeOK /\ [TimerNext]_timer_vars => TimerTypeOK'
  <2>. SUFFICES ASSUME TimerTypeOK, [TimerNext]_timer_vars
                PROVE  TimerTypeOK'
    OBVIOUS
  <2>1. ASSUME NEW t \in Timers, run_lock(t) PROVE TimerTypeOK'
    BY <2>1 DEF run_lock, Goes, Locks
  <2>2. ASSUME NEW t \in Timers, run_not_over(t) PROVE TimerTypeOK'
    BY <2>2 DEF run_not_over, Goes
  <2>3. ASSUME NEW t \in Timers, run_block(t) PROVE TimerTypeOK'
    BY <2>3 DEF run_block, Goes, Unlocks
  <2>4. ASSUME NEW t \in Timers, run_wake(t) PROVE TimerTypeOK'
    BY <2>4 DEF run_wake, Goes
  <2>5. ASSUME NEW t \in Timers, run_canceled(t) PROVE TimerTypeOK'
    BY <2>5 DEF run_canceled, Goes, Unlocks
  <2>6. ASSUME NEW t \in Timers, run_expired(t) PROVE TimerTypeOK'
    BY <2>6 DEF run_expired, Goes
  <2>7. ASSUME NEW t \in Timers, callback_returns(t) PROVE TimerTypeOK'
    BY <2>7 DEF callback_returns, Goes, Unlocks
  <2>8. ASSUME NEW t \in Timers, begin_destroy(t) PROVE TimerTypeOK'
    BY <2>8 DEF begin_destroy, OwnerGoes
  <2>9. ASSUME NEW t \in Timers, cancel(t) PROVE TimerTypeOK'
    BY <2>9 DEF cancel, OwnerGoes
  <2>10. ASSUME NEW t \in Timers, notify(t) PROVE TimerTypeOK'
    BY <2>10 DEF notify, OwnerGoes
  <2>11. ASSUME NEW t \in Timers, join(t) PROVE TimerTypeOK'
    BY <2>11 DEF join, OwnerGoes
  <2>12. CASE UNCHANGED timer_vars
    BY <2>12 DEF timer_vars
  <2>. QED
    BY <2>1, <2>2, <2>3, <2>4, <2>5, <2>6, <2>7, <2>8, <2>9, <2>10, <2>11,
       <2>12 DEF TimerNext, Run, Destructor
<1>. QED
  BY <1>1, <1>2, PTL DEF TimerSpec

(* The callback runs where run() has the mutex, which the destructor needs *)
(* to cancel the timer.                                                    *)
CallbackInv ==
  /\ \A t \in Timers : callback_[t] = "running" <=> thread_[t] = "callback"
  /\ SilentOnceCanceled

(* Who runs the callback has the mutex of the timer.                       *)
LEMMA CallbackInvHolds == TimerSpec => []CallbackInv
<1>. USE DEF CallbackInv, SilentOnceCanceled
<1>1. TimerInit => CallbackInv
  BY DEF TimerInit
<1>2. TimerTypeOK /\ CallbackInv /\ [TimerNext]_timer_vars => CallbackInv'
  <2>. SUFFICES ASSUME TimerTypeOK, CallbackInv, [TimerNext]_timer_vars
                PROVE  CallbackInv'
    OBVIOUS
  <2>. USE DEF TimerTypeOK
  <2>1. ASSUME NEW t \in Timers, run_lock(t) PROVE CallbackInv'
    BY <2>1 DEF run_lock, Goes, Locks
  <2>2. ASSUME NEW t \in Timers, run_not_over(t) PROVE CallbackInv'
    BY <2>2 DEF run_not_over, Goes
  <2>3. ASSUME NEW t \in Timers, run_block(t) PROVE CallbackInv'
    BY <2>3 DEF run_block, Goes, Unlocks
  <2>4. ASSUME NEW t \in Timers, run_wake(t) PROVE CallbackInv'
    BY <2>4 DEF run_wake, Goes
  <2>5. ASSUME NEW t \in Timers, run_canceled(t) PROVE CallbackInv'
    BY <2>5 DEF run_canceled, Goes, Unlocks
  <2>6. ASSUME NEW t \in Timers, run_expired(t) PROVE CallbackInv'
    BY <2>6 DEF run_expired, Goes
  <2>7. ASSUME NEW t \in Timers, callback_returns(t) PROVE CallbackInv'
    BY <2>7 DEF callback_returns, Goes, Unlocks
  <2>8. ASSUME NEW t \in Timers, begin_destroy(t) PROVE CallbackInv'
    BY <2>8 DEF begin_destroy, OwnerGoes
  <2>9. ASSUME NEW t \in Timers, cancel(t) PROVE CallbackInv'
    BY <2>9 DEF cancel, OwnerGoes
  <2>10. ASSUME NEW t \in Timers, notify(t) PROVE CallbackInv'
    BY <2>10 DEF notify, OwnerGoes
  <2>11. ASSUME NEW t \in Timers, join(t) PROVE CallbackInv'
    BY <2>11 DEF join, OwnerGoes
  <2>12. CASE UNCHANGED timer_vars
    BY <2>12 DEF timer_vars
  <2>. QED
    BY <2>1, <2>2, <2>3, <2>4, <2>5, <2>6, <2>7, <2>8, <2>9, <2>10, <2>11,
       <2>12 DEF TimerNext, Run, Destructor
<1>. QED
  BY <1>1, <1>2, TimerTypeCorrect, PTL DEF TimerSpec

(* Once ~callback_timer() has set canceled_ the callback is not running:   *)
(* an expiry that races the destructor is over by then or has lost.        *)
THEOREM SilentOnceCanceledHolds == TimerSpec => []SilentOnceCanceled
<1>1. CallbackInv => SilentOnceCanceled
  BY DEF CallbackInv
<1>. QED
  BY <1>1, CallbackInvHolds, PTL

SilentFromThenOn ==
  [][\A t \in Timers : canceled_[t] => callback_'[t] = callback_[t]]_timer_vars

(* timer.h: "the callback function will not be called", from the moment    *)
(* canceled_ is set on, and one that was called has returned by then.      *)
THEOREM SilentFromThenOnHolds == TimerSpec => SilentFromThenOn
<1>. DEFINE Silent ==
       \A t \in Timers : canceled_[t] => callback_'[t] = callback_[t]
<1>1. TimerTypeOK /\ CallbackInv /\ [TimerNext]_timer_vars => Silent
  <2>. SUFFICES ASSUME TimerTypeOK, CallbackInv, [TimerNext]_timer_vars
                PROVE  Silent
    OBVIOUS
  <2>. USE DEF TimerTypeOK, CallbackInv, SilentOnceCanceled
  <2>1. ASSUME NEW t \in Timers, run_lock(t) PROVE Silent
    BY <2>1 DEF run_lock, Goes, Locks
  <2>2. ASSUME NEW t \in Timers, run_not_over(t) PROVE Silent
    BY <2>2 DEF run_not_over, Goes
  <2>3. ASSUME NEW t \in Timers, run_block(t) PROVE Silent
    BY <2>3 DEF run_block, Goes, Unlocks
  <2>4. ASSUME NEW t \in Timers, run_wake(t) PROVE Silent
    BY <2>4 DEF run_wake, Goes
  <2>5. ASSUME NEW t \in Timers, run_canceled(t) PROVE Silent
    BY <2>5 DEF run_canceled, Goes, Unlocks
  <2>6. ASSUME NEW t \in Timers, run_expired(t) PROVE Silent
    BY <2>6 DEF run_expired, Goes
  <2>7. ASSUME NEW t \in Timers, callback_returns(t) PROVE Silent
    BY <2>7 DEF callback_returns, Goes, Unlocks
  <2>8. ASSUME NEW t \in Timers, begin_destroy(t) PROVE Silent
    BY <2>8 DEF begin_destroy, OwnerGoes
  <2>9. ASSUME NEW t \in Timers, cancel(t) PROVE Silent
    BY <2>9 DEF cancel, OwnerGoes
  <2>10. ASSUME NEW t \in Timers, notify(t) PROVE Silent
    BY <2>10 DEF notify, OwnerGoes
  <2>11. ASSUME NEW t \in Timers, join(t) PROVE Silent
    BY <2>11 DEF join, OwnerGoes
  <2>12. CASE UNCHANGED timer_vars
    BY <2>12 DEF timer_vars
  <2>. QED
    BY <2>1, <2>2, <2>3, <2>4, <2>5, <2>6, <2>7, <2>8, <2>9, <2>10, <2>11,
       <2>12 DEF TimerNext, Run, Destructor
<1>. QED
  BY <1>1, TimerTypeCorrect, CallbackInvHolds, PTL
     DEF TimerSpec, SilentFromThenOn

-----------------------------------------------------------------------------
(* Once the destructor has set canceled_ the thread does not go to sleep   *)
(* any more, and once it has notified, the thread is awake.  A thread that *)
(* saw the end of the duration does not sleep either.                      *)
WakeInv ==
  \A t \in Timers :
    /\ canceled_[t] <=> owner[t] \in {"notify", "join", "destroyed"}
    /\ canceled_[t] => thread_[t] \notin {"block", "callback"}
    /\ owner[t] \in {"join", "destroyed"} => thread_[t] # "wait"
    /\ timed_out[t] => thread_[t] \notin {"block", "wait"}
    /\ thread_[t] = "done" => canceled_[t] \/ callback_[t] = "returned"

(* The mutex closes the gap between the test of canceled_ and the wait:    *)
(* the destructor cannot set and notify in between.                        *)
LEMMA WakeInvHolds == TimerSpec => []WakeInv
<1>. USE DEF WakeInv
<1>1. TimerInit => WakeInv
  BY DEF TimerInit
<1>2. TimerTypeOK /\ WakeInv /\ [TimerNext]_timer_vars => WakeInv'
  <2>. SUFFICES ASSUME TimerTypeOK, WakeInv, [TimerNext]_timer_vars
                PROVE  WakeInv'
    OBVIOUS
  <2>. USE DEF TimerTypeOK
  <2>1. ASSUME NEW t \in Timers, run_lock(t) PROVE WakeInv'
    BY <2>1 DEF run_lock, Goes, Locks
  <2>2. ASSUME NEW t \in Timers, run_not_over(t) PROVE WakeInv'
    BY <2>2 DEF run_not_over, Goes
  <2>3. ASSUME NEW t \in Timers, run_block(t) PROVE WakeInv'
    BY <2>3 DEF run_block, Goes, Unlocks
  <2>4. ASSUME NEW t \in Timers, run_wake(t) PROVE WakeInv'
    BY <2>4 DEF run_wake, Goes
  <2>5. ASSUME NEW t \in Timers, run_canceled(t) PROVE WakeInv'
    BY <2>5 DEF run_canceled, Goes, Unlocks
  <2>6. ASSUME NEW t \in Timers, run_expired(t) PROVE WakeInv'
    BY <2>6 DEF run_expired, Goes
  <2>7. ASSUME NEW t \in Timers, callback_returns(t) PROVE WakeInv'
    BY <2>7 DEF callback_returns, Goes, Unlocks
  <2>8. ASSUME NEW t \in Timers, begin_destroy(t) PROVE WakeInv'
    BY <2>8 DEF begin_destroy, OwnerGoes
  <2>9. ASSUME NEW t \in Timers, cancel(t) PROVE WakeInv'
    BY <2>9 DEF cancel, OwnerGoes
  <2>10. ASSUME NEW t \in Timers, notify(t) PROVE WakeInv'
    BY <2>10 DEF notify, OwnerGoes
  <2>11. ASSUME NEW t \in Timers, join(t) PROVE WakeInv'
    BY <2>11 DEF join, OwnerGoes
  <2>12. CASE UNCHANGED timer_vars
    BY <2>12 DEF timer_vars
  <2>. QED
    BY <2>1, <2>2, <2>3, <2>4, <2>5, <2>6, <2>7, <2>8, <2>9, <2>10, <2>11,
       <2>12 DEF TimerNext, Run, Destructor
<1>. QED
  BY <1>1, <1>2, TimerTypeCorrect, PTL DEF TimerSpec

(* The thread that the destructor joins is at most two steps from its end, *)
(* neither of which anybody can hold up; and one that has seen the end of  *)
(* the duration is on its way to the callback or has called it.            *)
NoWakeupLost ==
  \A t \in Timers :
    /\ owner[t] = "join" =>
         /\ thread_[t] \in {"lock", "check", "done"}
         /\ thread_[t] = "lock" => mutex_[t] = "free"
    /\ timed_out[t] =>
         \/ callback_[t] = "returned" \/ canceled_[t]
         \/ thread_[t] \in {"lock", "check", "callback"}

(* ~callback_timer() does not wait for the duration to be over, whenever   *)
(* its notification comes, and no expiry is slept over.                    *)
THEOREM NoWakeupLostHolds == TimerSpec => []NoWakeupLost
<1>1. TimerTypeOK /\ WakeInv => NoWakeupLost
  BY DEF TimerTypeOK, WakeInv, NoWakeupLost
<1>. QED
  BY <1>1, TimerTypeCorrect, WakeInvHolds, PTL

=============================================================================
