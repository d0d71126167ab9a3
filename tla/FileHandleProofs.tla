-------------------------- MODULE FileHandleProofs --------------------------
(***************************************************************************)
(* Theorems about FileHandleConnection, for any objects, any number of     *)
(* descriptors and any number of files.                                    *)
(***************************************************************************)
EXTENDS FileHandleConnection, TLAPS

(* The conjuncts of TypeOK that the proofs reason about one at a time. *)
Object == [alive : BOOLEAN, handle : Fd \cup {-1}, destroy : BOOLEAN, made : File \cup {Closed}]

(* Until an owner is copied, every descriptor has one party to close it:   *)
(* what an owner closes is no other owner's and not the application's, and *)
(* both kinds are open, so the kernel gives neither out again.             *)
OneCloser ==
  shared \/
    /\ \A fd \in held : file[fd] # Closed
    /\ \A o \in Objects : Owns(o) =>
         /\ conn[o].handle \notin held
         /\ file[conn[o].handle] = conn[o].made /\ conn[o].made # Closed
    /\ \A o, p \in Objects : Owns(o) /\ Owns(p) /\ o # p => conn[o].handle # conn[p].handle

(* The inductive invariant. *)
IInv == TypeOK /\ OneCloser /\ NothingLeaks

-----------------------------------------------------------------------------
(* Facts about descriptors and objects *)

(* -1 is the one handle that is no descriptor, and files are numbered from 1. *)
LEMMA Numbers ==
  /\ Fd \subseteq Nat /\ -1 \notin Fd
  /\ File \subseteq Nat /\ Closed \notin File
  /\ \A n \in Fd \cup {-1} : n >= 0 <=> n \in Fd
BY FileHandleAssumption DEF Fd, File, Closed

(* An owner's handle is a descriptor. *)
LEMMA OwnersHandle ==
  ASSUME TypeOK, NEW o \in Objects
  PROVE  /\ conn[o] \in Object
         /\ Owns(o) <=> conn[o].alive /\ conn[o].handle \in Fd /\ conn[o].destroy
<1>1. conn[o] \in Object
  BY DEF TypeOK, Object
<1>2. conn[o].handle >= 0 <=> conn[o].handle \in Fd
  BY <1>1, Numbers DEF Object
<1> QED
  BY <1>1, <1>2 DEF Owns, isValidHandle

-----------------------------------------------------------------------------
(* Nothing is open and nobody owns anything at the start. *)
LEMMA InitInv == Init => IInv
<1> SUFFICES ASSUME Init PROVE IInv
  OBVIOUS
<1>1. TypeOK
  <2>1. file \in [Fd -> File \cup {Closed}] /\ opened \in 0 .. MaxFiles /\ held \subseteq Fd
    BY FileHandleAssumption DEF Init
  <2>2. NoObject \in Object
    BY DEF NoObject, Object
  <2>3. conn \in [Objects -> Object]
    BY <2>2 DEF Init
  <2> QED
    BY <2>1, <2>3 DEF Init, TypeOK, Object
<1>2. \A o \in Objects : ~Owns(o)
  BY DEF Init, Owns, NoObject
<1>3. OneCloser /\ NothingLeaks
  BY <1>2 DEF Init, OneCloser, NothingLeaks
<1> QED
  BY <1>1, <1>3 DEF IInv

(* A file is opened under a number nobody closes. *)
LEMMA OpenInv == IInv /\ Open => IInv'
<1> SUFFICES ASSUME IInv, Open PROVE IInv'
  OBVIOUS
<1>1. PICK fd \in Fd :
        /\ file[fd] = Closed
        /\ file' = [file EXCEPT ![fd] = opened + 1]
        /\ held' = held \cup {fd}
  BY DEF Open
<1>2. /\ opened < MaxFiles /\ opened' = opened + 1
      /\ UNCHANGED <<conn, shared, dropped>>
  BY DEF Open
<1>3. opened + 1 \in File /\ opened' \in 0 .. MaxFiles /\ opened + 1 # Closed
  BY <1>2, FileHandleAssumption DEF IInv, TypeOK, File, Closed
<1>4. TypeOK'
  BY <1>1, <1>2, <1>3 DEF IInv, TypeOK
<1>5. \A o \in Objects : Owns(o)' <=> Owns(o)
  BY <1>2 DEF Owns, isValidHandle
<1>6. file \in [Fd -> File \cup {Closed}] /\ held \subseteq Fd
  BY DEF IInv, TypeOK
<1>7. OneCloser'
  BY <1>1, <1>2, <1>3, <1>5, <1>6, OwnersHandle DEF IInv, OneCloser
<1>8. NothingLeaks'
  BY <1>1, <1>2, <1>5, <1>6 DEF IInv, NothingLeaks
<1> QED
  BY <1>4, <1>7, <1>8 DEF IInv

(* The application closes only what no object owns. *)
LEMMA CloseHeldInv ==
  ASSUME IInv, NEW fd \in Fd, CloseHeld(fd)
  PROVE  IInv'
<1>1. /\ fd \in held
      /\ file' = [file EXCEPT ![fd] = Closed]
      /\ held' = held \ {fd}
      /\ UNCHANGED <<opened, conn, shared, dropped>>
  BY DEF CloseHeld
<1>2. TypeOK'
  BY <1>1 DEF IInv, TypeOK
<1>3. \A o \in Objects : Owns(o)' <=> Owns(o)
  BY <1>1 DEF Owns, isValidHandle
<1>4. file \in [Fd -> File \cup {Closed}] /\ held \subseteq Fd
  BY DEF IInv, TypeOK
<1>5. OneCloser'
  BY <1>1, <1>3, <1>4, OwnersHandle DEF IInv, OneCloser
<1>6. NothingLeaks'
  BY <1>1, <1>3, <1>4 DEF IInv, NothingLeaks
<1> QED
  BY <1>2, <1>5, <1>6 DEF IInv

(* A descriptor handed over for closing changes its closer. *)
LEMMA ConstructInv ==
  ASSUME IInv, NEW o \in Objects, NEW fd \in Fd \cup {-1}, NEW destroy \in BOOLEAN,
         Construct(o, fd, destroy)
  PROVE  IInv'
<1> DEFINE new == [alive |-> TRUE, handle |-> fd, destroy |-> destroy,
                   made |-> IF fd = -1 THEN Closed ELSE file[fd]]
<1>1. /\ ~conn[o].alive
      /\ fd = -1 \/ fd \in held
      /\ conn' = [conn EXCEPT ![o] = new]
      /\ held' = IF destroy THEN held \ {fd} ELSE held
      /\ UNCHANGED <<file, opened, shared, dropped>>
  BY DEF Construct
<1>2. file \in [Fd -> File \cup {Closed}] /\ held \subseteq Fd /\ conn \in [Objects -> Object]
  BY DEF IInv, TypeOK, Object
<1>3. new \in Object
  BY <1>2 DEF Object
<1>4. TypeOK'
  BY <1>1, <1>2, <1>3 DEF IInv, TypeOK, Object
<1>5. conn'[o] = new /\ \A p \in Objects \ {o} : conn'[p] = conn[p]
  BY <1>1, <1>2
<1>6. \A p \in Objects \ {o} : Owns(p)' <=> Owns(p)
  BY <1>5 DEF Owns, isValidHandle
<1>7. ~Owns(o) /\ (Owns(o)' <=> fd \in held /\ destroy)
  BY <1>1, <1>2, <1>5, Numbers DEF Owns, isValidHandle
<1>8. OneCloser'
  <2> SUFFICES ASSUME ~shared PROVE OneCloser'
    BY <1>1 DEF OneCloser
  <2>1. fd \in held => file[fd] # Closed /\ new.made = file[fd]
    BY <1>2, Numbers DEF IInv, OneCloser
  <2>2. \A n \in held' : file'[n] # Closed
    BY <1>1 DEF IInv, OneCloser
  <2>3. \A p \in Objects \ {o} : Owns(p)' =>
          /\ conn'[p].handle \notin held
          /\ file[conn'[p].handle] = conn'[p].made /\ conn'[p].made # Closed
    BY <1>5, <1>6 DEF IInv, OneCloser
  <2>4. Owns(o)' =>
          /\ conn'[o].handle \in held /\ conn'[o].handle \notin held'
          /\ file[conn'[o].handle] = conn'[o].made /\ conn'[o].made # Closed
    BY <1>1, <1>5, <1>7, <2>1
  <2>5. held' \subseteq held
    BY <1>1
  <2>6. \A p \in Objects : Owns(p)' =>
          /\ conn'[p].handle \notin held'
          /\ file'[conn'[p].handle] = conn'[p].made /\ conn'[p].made # Closed
    BY <1>1, <2>3, <2>4, <2>5
  <2>7. \A p, q \in Objects : Owns(p)' /\ Owns(q)' /\ p # q => conn'[p].handle # conn'[q].handle
    <3> SUFFICES ASSUME NEW p \in Objects, NEW q \in Objects, Owns(p)', Owns(q)', p # q
                 PROVE  conn'[p].handle # conn'[q].handle
      OBVIOUS
    <3>1. CASE p # o /\ q # o
      BY <3>1, <1>5, <1>6 DEF IInv, OneCloser
    <3>2. CASE p = o \/ q = o
      BY <3>2, <2>3, <2>4
    <3> QED
      BY <3>1, <3>2
  <2> QED
    BY <2>2, <2>6, <2>7 DEF OneCloser
<1>9. NothingLeaks'
  <2> SUFFICES ASSUME ~dropped, NEW n \in Fd, file[n] # Closed
               PROVE  n \in held' \/ \E p \in Objects : Owns(p)' /\ conn'[p].handle = n
    BY <1>1 DEF NothingLeaks
  <2>1. CASE n \in held
    BY <2>1, <1>1, <1>5, <1>7
  <2>2. CASE n \notin held
    <3>1. PICK p \in Objects : Owns(p) /\ conn[p].handle = n
      BY <2>2 DEF IInv, NothingLeaks
    <3>2. p # o
      BY <3>1, <1>7
    <3> QED
      BY <3>1, <3>2, <1>5, <1>6
  <2> QED
    BY <2>1, <2>2
<1> QED
  BY <1>4, <1>8, <1>9 DEF IInv

(* A copy takes no descriptor away from anyone but the object it is put in. *)
LEMMA CopyInv ==
  ASSUME IInv, NEW o \in Objects, NEW p \in Objects, CopyConstruct(o, p) \/ CopyAssign(o, p)
  PROVE  IInv'
<1>1. /\ conn' = [conn EXCEPT ![o] = conn[p]]
      /\ shared' = (shared \/ Owns(p))
      /\ dropped' \/ (~Owns(o) /\ ~dropped)
      /\ dropped => dropped'
      /\ dropped' \in BOOLEAN
      /\ UNCHANGED <<file, opened, held>>
  BY DEF CopyConstruct, CopyAssign, Owns, IInv, TypeOK
<1>2. conn \in [Objects -> Object] /\ conn[p] \in Object
  BY DEF IInv, TypeOK, Object
<1>3. shared' \in BOOLEAN
  BY <1>1
<1>4. TypeOK'
  BY <1>1, <1>2, <1>3 DEF IInv, TypeOK, Object
<1>5. conn'[o] = conn[p] /\ \A q \in Objects \ {o} : conn'[q] = conn[q]
  BY <1>1, <1>2
<1>6. /\ \A q \in Objects \ {o} : Owns(q)' <=> Owns(q)
      /\ Owns(o)' <=> Owns(p)
  BY <1>5 DEF Owns, isValidHandle
<1>7. OneCloser'
  <2> SUFFICES ASSUME ~shared, ~Owns(p) PROVE OneCloser'
    BY <1>1 DEF OneCloser
  <2>1. \A q \in Objects : Owns(q)' => q # o /\ Owns(q) /\ conn'[q] = conn[q]
    BY <1>5, <1>6
  <2> QED
    BY <1>1, <2>1 DEF IInv, OneCloser
<1>8. NothingLeaks'
  <2> SUFFICES ASSUME ~dropped', NEW n \in Fd, file[n] # Closed
               PROVE  n \in held \/ \E q \in Objects : Owns(q)' /\ conn'[q].handle = n
    BY <1>1 DEF NothingLeaks
  <2>1. ~Owns(o) /\ ~dropped
    BY <1>1
  <2>2. CASE n \notin held
    <3>1. PICK q \in Objects : Owns(q) /\ conn[q].handle = n
      BY <2>1, <2>2 DEF IInv, NothingLeaks
    <3> QED
      BY <3>1, <2>1, <1>5, <1>6
  <2> QED
    BY <2>2
<1> QED
  BY <1>4, <1>7, <1>8 DEF IInv

(* A destructor closes what its object owns and no one else's descriptor. *)
LEMMA DestroyInv ==
  ASSUME IInv, NEW o \in Objects, Destroy(o)
  PROVE  IInv'
<1>1. /\ conn[o].alive
      /\ file' = [fd \in Fd \cup ClosedBy(o) |-> IF fd \in ClosedBy(o) THEN Closed ELSE file[fd]]
      /\ conn' = [conn EXCEPT ![o] = NoObject]
      /\ UNCHANGED <<opened, held, shared, dropped>>
  BY DEF Destroy
<1>2. file \in [Fd -> File \cup {Closed}] /\ held \subseteq Fd /\ conn \in [Objects -> Object]
  BY DEF IInv, TypeOK, Object
<1>3. TypeOK
  BY DEF IInv
<1>4. ClosedBy(o) = IF Owns(o) THEN {conn[o].handle} ELSE {}
  BY <1>1 DEF ClosedBy, Owns
<1>5. ClosedBy(o) \subseteq Fd
  BY <1>3, <1>4, OwnersHandle
<1>6. /\ file' \in [Fd -> File \cup {Closed}]
      /\ \A fd \in Fd : file'[fd] = IF fd \in ClosedBy(o) THEN Closed ELSE file[fd]
  BY <1>1, <1>2, <1>5
<1>7. NoObject \in Object
  BY DEF NoObject, Object
<1>8. TypeOK'
  BY <1>1, <1>2, <1>6, <1>7 DEF IInv, TypeOK, Object
<1>9. conn'[o] = NoObject /\ \A p \in Objects \ {o} : conn'[p] = conn[p]
  BY <1>1, <1>2
<1>10. ~Owns(o)' /\ \A p \in Objects \ {o} : Owns(p)' <=> Owns(p)
  BY <1>9 DEF Owns, isValidHandle, NoObject
<1>11. OneCloser'
  <2> SUFFICES ASSUME ~shared PROVE OneCloser'
    BY <1>1 DEF OneCloser
  <2>1. \A p \in Objects : Owns(p)' => p # o /\ Owns(p) /\ conn'[p] = conn[p]
    BY <1>9, <1>10
  <2>2. \A p \in Objects : Owns(p)' => conn[p].handle \in Fd \ ClosedBy(o)
    BY <1>3, <1>4, <2>1, OwnersHandle DEF IInv, OneCloser
  <2>3. \A fd \in held : fd \notin ClosedBy(o)
    BY <1>4 DEF IInv, OneCloser
  <2> QED
    BY <1>1, <1>2, <1>6, <2>1, <2>2, <2>3 DEF IInv, OneCloser
<1>12. NothingLeaks'
  <2> SUFFICES ASSUME ~dropped, NEW n \in Fd, file'[n] # Closed
               PROVE  n \in held \/ \E p \in Objects : Owns(p)' /\ conn'[p].handle = n
    BY <1>1 DEF NothingLeaks
  <2>1. n \notin ClosedBy(o) /\ file[n] # Closed
    BY <1>6
  <2>2. CASE n \notin held
    <3>1. PICK p \in Objects : Owns(p) /\ conn[p].handle = n
      BY <2>1, <2>2 DEF IInv, NothingLeaks
    <3>2. p # o
      BY <3>1, <2>1, <1>4
    <3> QED
      BY <3>1, <3>2, <1>9, <1>10
  <2> QED
    BY <2>2
<1> QED
  BY <1>8, <1>11, <1>12 DEF IInv

(* Every step keeps the inductive invariant. *)
LEMMA StepInv == IInv /\ [Next]_vars => IInv'
<1> SUFFICES ASSUME IInv, [Next]_vars PROVE IInv'
  OBVIOUS
<1>1. CASE Open
  BY <1>1, OpenInv
<1>2. CASE \E fd \in Fd : CloseHeld(fd)
  BY <1>2, CloseHeldInv
<1>3. CASE \E o \in Objects, fd \in Fd \cup {-1}, destroy \in BOOLEAN : Construct(o, fd, destroy)
  BY <1>3, ConstructInv
<1>4. CASE \E o, p \in Objects : CopyConstruct(o, p) \/ CopyAssign(o, p)
  BY <1>4, CopyInv
<1>5. CASE \E o \in Objects : Destroy(o)
  BY <1>5, DestroyInv
<1>6. CASE UNCHANGED vars
  BY <1>6 DEF vars, IInv, TypeOK, OneCloser, NothingLeaks, Owns, isValidHandle
<1> QED
  BY <1>1, <1>2, <1>3, <1>4, <1>5, <1>6 DEF Next

(* The inductive invariant holds throughout. *)
LEMMA Invariance == Spec => []IInv
BY InitInv, StepInv, PTL DEF Spec

-----------------------------------------------------------------------------
(* The table and the objects stay well typed: in particular no destructor  *)
(* closes anything that is not a descriptor, such as the -1 of a failed    *)
(* socket().                                                               *)
THEOREM TypeCorrect == Spec => []TypeOK
<1>1. IInv => TypeOK
  BY DEF IInv
<1> QED
  BY <1>1, Invariance, PTL

(* Until an owning FileHandleConnection is copied, no order of opening,    *)
(* constructing, copying borrowers, assigning, destroying and closing      *)
(* leaves an owner with somebody else's file.                              *)
THEOREM OwnersAreSafe == Spec => []UnsharedOwnersKeepTheirFile
<1>1. IInv => UnsharedOwnersKeepTheirFile
  BY DEF IInv, OneCloser, UnsharedOwnersKeepTheirFile
<1> QED
  BY <1>1, Invariance, PTL

(* Without an assignment over an owner every open descriptor has somebody  *)
(* who will close it, copies or not.                                       *)
THEOREM NoLeak == Spec => []NothingLeaks
<1>1. IInv => NothingLeaks
  BY DEF IInv
<1> QED
  BY <1>1, Invariance, PTL
=============================================================================
