---------------------------- MODULE FilesProofs ----------------------------
(***************************************************************************)
(* Proofs about Files on one hart.  A step changes one place of one table  *)
(* (Put) and the slot, directory or pipe that the place has or gets; what  *)
(* holds of the owners is first proved of such a change of any table, then *)
(* of the steps.                                                           *)
(***************************************************************************)
EXTENDS Files, FiniteSetTheorems, WellFoundedInduction, TLAPS

USE FilesAssumption

Tables == [Procs -> [Places -> Entries \cup {NULL}]]
Put(h, p, x, v) == [h EXCEPT ![p][x] = v]
Kind(T, o) == {Entry(t, o) : t \in T}
At(h, T, o) == {z \in Procs \X Places : h[z[1]][z[2]] \in Kind(T, o)}

NotOf(e, T, D) == \A d \in D : e \notin Kind(T, d)

FileEntries == {Entry(t, s) : t \in Files, s \in Slots}
DirEntries == {Entry("dir", b) : b \in Blocks}
EndEntries == {Entry(end, c) : end \in Ends, c \in Pipes}

(* The kinds of entries exclude each other.                                 *)
LEMMA Kinds ==
    ASSUME NEW e \in Entries
    PROVE  /\ e # NULL
           /\ e.type \in Files <=> e \in FileEntries
           /\ e.type = "dir" <=> e \in DirEntries
           /\ e.type \in Ends <=> e \in EndEntries
           /\ e.type = "none" <=> e = NoKfd
           /\ e.type = "file" => e.type \in Files
           /\ e = Entry(e.type, e.obj)
           /\ e.type \in Files => e.obj \in Slots
           /\ e.type = "dir" => e.obj \in Blocks
           /\ e.type \in Ends => e.obj \in Pipes
           /\ \/ e.type \in Files /\ e.type # "dir" /\ e.type \notin Ends /\ e.type # "none"
              \/ e.type = "dir" /\ e.type \notin Files /\ e.type \notin Ends /\ e.type # "none"
              \/ e.type \in Ends /\ e.type \notin Files /\ e.type # "dir" /\ e.type # "none"
              \/ e.type = "none" /\ e.type \notin Files /\ e.type # "dir" /\ e.type \notin Ends
BY DEF Entries, FileEntries, DirEntries, EndEntries, Entry, Files, Ends, NoKfd

LEMMA InKind ==
    ASSUME NEW e \in Entries, NEW T, NEW o
    PROVE  e \in Kind(T, o) <=> e.type \in T /\ e.obj = o
BY Kinds DEF Kind, Entry

LEMMA NullInNoKind ==
    /\ \A s \in Slots : NULL \notin Kind(Files, s)
    /\ \A b \in Blocks : NULL \notin Kind({"dir"}, b)
    /\ \A c \in Pipes : NULL \notin Kind(Ends, c) /\ NULL \notin Kind({"in"}, c)
        /\ NULL \notin Kind({"out"}, c)
BY DEF Kind, Entries, Files, Ends

LEMMA KindsOf ==
    ASSUME NEW e \in Entries \cup {NULL}
    PROVE  /\ NotOf(e, Files, Slots) <=> e \notin FileEntries
           /\ NotOf(e, {"dir"}, Blocks) <=> e \notin DirEntries
           /\ e \notin EndEntries => NotOf(e, {"in"}, Pipes) /\ NotOf(e, {"out"}, Pipes)
           /\ e \in FileEntries =>
                /\ e.obj \in Slots /\ e.type \in Files /\ e.type \notin Ends
                /\ e \notin DirEntries /\ e \notin EndEntries
                /\ \A s \in Slots : e \in Kind(Files, s) <=> s = e.obj
           /\ e \in DirEntries =>
                /\ e.obj \in Blocks /\ e.type = "dir"
                /\ e \notin FileEntries /\ e \notin EndEntries
                /\ \A b \in Blocks : e \in Kind({"dir"}, b) <=> b = e.obj
           /\ e \in EndEntries =>
                /\ e.obj \in Pipes /\ e.type \in Ends
                /\ e \notin FileEntries /\ e \notin DirEntries
                /\ e.type = "in" => /\ NotOf(e, {"out"}, Pipes)
                                     /\ \A c \in Pipes : e \in Kind({"in"}, c) <=> c = e.obj
                /\ e.type = "out" => /\ NotOf(e, {"in"}, Pipes)
                                      /\ \A c \in Pipes : e \in Kind({"out"}, c) <=> c = e.obj
<1>1. CASE e = NULL
  BY <1>1 DEF NotOf, Kind, Entries, FileEntries, DirEntries, EndEntries, Files, Ends
<1>2. CASE e \in Entries
  <2>1. /\ e = Entry(e.type, e.obj)
        /\ \A T, o : e \in Kind(T, o) <=> e.type \in T /\ e.obj = o
    BY <1>2, Kinds, InKind
  <2>2. CASE e.type \in Files
    BY <1>2, <2>1, <2>2, Kinds DEF NotOf, Files, Ends
  <2>3. CASE e.type = "dir"
    BY <1>2, <2>1, <2>3, Kinds DEF NotOf, Files, Ends
  <2>4. CASE e.type \in Ends
    BY <1>2, <2>1, <2>4, Kinds DEF NotOf, Files, Ends
  <2>5. CASE e.type = "none"
    BY <1>2, <2>1, <2>5, Kinds DEF NotOf, Files, Ends
  <2> QED BY <1>2, <2>2, <2>3, <2>4, <2>5, Kinds
<1> QED BY <1>1, <1>2

LEMMA HoldersAt ==
    ASSUME NEW T, NEW o
    PROVE  Holders(T, o) = At(held, T, o)
BY DEF Holders, At, Kind

LEMMA PutTable ==
    ASSUME NEW h \in Tables, NEW p \in Procs, NEW x \in Places, NEW v \in Entries \cup {NULL}
    PROVE  /\ Put(h, p, x, v) \in Tables
           /\ Put(h, p, x, v)[p][x] = v
           /\ \A q \in Procs, y \in Places :
                q # p \/ y # x => Put(h, p, x, v)[q][y] = h[q][y]
BY DEF Put, Tables

(* Who holds what after a change of one place.                              *)
LEMMA PutWho ==
    ASSUME NEW h \in Tables, NEW p \in Procs, NEW x \in Places, NEW v \in Entries \cup {NULL},
           NEW T, NEW o
    PROVE  /\ \A z \in Procs \X Places : z # <<p, x>> =>
                (z \in At(Put(h, p, x, v), T, o) <=> z \in At(h, T, o))
           /\ <<p, x>> \in At(Put(h, p, x, v), T, o) <=> v \in Kind(T, o)
           /\ At(Put(h, p, x, v), T, o) \subseteq Procs \X Places
<1> DEFINE g == Put(h, p, x, v)
<1>1. \A z \in Procs \X Places : z # <<p, x>> => g[z[1]][z[2]] = h[z[1]][z[2]]
  BY PutTable
<1>2. g[p][x] = v
  BY PutTable
<1> HIDE DEF g
<1>3. \A z \in Procs \X Places : z # <<p, x>> => (z \in At(g, T, o) <=> z \in At(h, T, o))
  BY <1>1 DEF At
<1>4. <<p, x>> \in At(g, T, o) <=> v \in Kind(T, o)
  BY <1>2 DEF At
<1>5. At(g, T, o) \subseteq Procs \X Places
  BY DEF At
<1> QED BY <1>3, <1>4, <1>5 DEF g

LEMMA AtHere ==
    ASSUME NEW h, NEW p \in Procs, NEW x \in Places, NEW T, NEW o
    PROVE  /\ <<p, x>> \in At(h, T, o) <=> h[p][x] \in Kind(T, o)
           /\ At(h, T, o) \subseteq Procs \X Places
BY DEF At

LEMMA PutIn ==
    ASSUME NEW h \in Tables, NEW p \in Procs, NEW x \in Places, NEW v \in Entries \cup {NULL},
           NEW T, NEW o, v \in Kind(T, o)
    PROVE  At(Put(h, p, x, v), T, o) = At(h, T, o) \cup {<<p, x>>}
<1>1. At(h, T, o) \subseteq Procs \X Places
  BY AtHere
<1>2. /\ \A z \in Procs \X Places : z # <<p, x>> =>
            (z \in At(Put(h, p, x, v), T, o) <=> z \in At(h, T, o))
      /\ <<p, x>> \in At(Put(h, p, x, v), T, o) <=> v \in Kind(T, o)
      /\ At(Put(h, p, x, v), T, o) \subseteq Procs \X Places
  BY PutWho
<1> QED BY <1>1, <1>2

LEMMA PutOut ==
    ASSUME NEW h \in Tables, NEW p \in Procs, NEW x \in Places, NEW v \in Entries \cup {NULL},
           NEW T, NEW o, v \notin Kind(T, o)
    PROVE  At(Put(h, p, x, v), T, o) = At(h, T, o) \ {<<p, x>>}
<1>1. At(h, T, o) \subseteq Procs \X Places
  BY AtHere
<1>2. /\ \A z \in Procs \X Places : z # <<p, x>> =>
            (z \in At(Put(h, p, x, v), T, o) <=> z \in At(h, T, o))
      /\ <<p, x>> \in At(Put(h, p, x, v), T, o) <=> v \in Kind(T, o)
      /\ At(Put(h, p, x, v), T, o) \subseteq Procs \X Places
  BY PutWho
<1> QED BY <1>1, <1>2

LEMMA PutSame ==
    ASSUME NEW h \in Tables, NEW p \in Procs, NEW x \in Places, NEW v \in Entries \cup {NULL},
           NEW T, NEW o, v \notin Kind(T, o), h[p][x] \notin Kind(T, o)
    PROVE  At(Put(h, p, x, v), T, o) = At(h, T, o)
<1>1. At(Put(h, p, x, v), T, o) = At(h, T, o) \ {<<p, x>>}
  BY PutOut
<1>2. <<p, x>> \notin At(h, T, o)
  BY AtHere
<1> QED BY <1>1, <1>2

-----------------------------------------------------------------------------
(* Owners.  f is the inode of the objects D, which entries of types T point *)
(* to; those in lk are lost.                                                *)
Owned(h, T, f, D, lk) ==
    \A s \in D :
        IF s \in lk THEN At(h, T, s) = {} /\ f[s] # NULL
        ELSE \/ f[s] = NULL /\ At(h, T, s) = {}
             \/ f[s] # NULL /\ \E z \in At(h, T, s) : At(h, T, s) = {z}

(* Who holds an object is its only owner, and closing it frees both.        *)
LEMMA OwnedBy ==
    ASSUME NEW h \in Tables, NEW p \in Procs, NEW x \in Places, NEW T, NEW D, NEW lk,
           NEW f, NEW s \in D, h[p][x] \in Kind(T, s), Owned(h, T, f, D, lk)
    PROVE  f[s] # NULL /\ s \notin lk /\ At(h, T, s) = {<<p, x>>}
<1>1. <<p, x>> \in At(h, T, s)
  BY AtHere
<1>2. f[s] # NULL /\ s \notin lk /\ \E z \in At(h, T, s) : At(h, T, s) = {z}
  BY <1>1 DEF Owned
<1> QED BY <1>1, <1>2

LEMMA OwnedGone ==
    ASSUME NEW h \in Tables, NEW p \in Procs, NEW x \in Places, NEW T, NEW D, NEW lk,
           NEW f, NEW s \in D,
           NotOf(NULL, T, D), h[p][x] \in Kind(T, s), \A d \in D : h[p][x] \in Kind(T, d) => d = s,
           Owned(h, T, f, D, lk)
    PROVE  /\ At(Put(h, p, x, NULL), T, s) = {}
           /\ \A d \in D : d # s => At(Put(h, p, x, NULL), T, d) = At(h, T, d)
<1>1. \A d \in D : At(Put(h, p, x, NULL), T, d) = At(h, T, d) \ {<<p, x>>}
  BY PutOut DEF NotOf
<1>2. \A d \in D : <<p, x>> \in At(h, T, d) <=> h[p][x] \in Kind(T, d)
  BY AtHere
<1>3. At(h, T, s) = {<<p, x>>}
  BY OwnedBy
<1> QED BY <1>1, <1>2, <1>3, ZenonT(60)

LEMMA OwnedFree ==
    ASSUME NEW h \in Tables, NEW p \in Procs, NEW x \in Places, NEW T, NEW D, NEW lk,
           NEW f \in [D -> Inodes \cup {NULL}], NEW s \in D,
           NotOf(NULL, T, D), h[p][x] \in Kind(T, s), \A d \in D : h[p][x] \in Kind(T, d) => d = s,
           Owned(h, T, f, D, lk)
    PROVE  Owned(Put(h, p, x, NULL), T, [f EXCEPT ![s] = NULL], D, lk)
<1>1. /\ At(Put(h, p, x, NULL), T, s) = {}
      /\ \A d \in D : d # s => At(Put(h, p, x, NULL), T, d) = At(h, T, d)
  BY OwnedGone
<1>2. s \notin lk
  BY OwnedBy
<1> QED BY <1>1, <1>2 DEF Owned

LEMMA OwnedLost ==
    ASSUME NEW h \in Tables, NEW p \in Procs, NEW x \in Places, NEW T, NEW D, NEW lk,
           NEW f, NEW s \in D,
           NotOf(NULL, T, D), h[p][x] \in Kind(T, s), \A d \in D : h[p][x] \in Kind(T, d) => d = s,
           Owned(h, T, f, D, lk)
    PROVE  Owned(Put(h, p, x, NULL), T, f, D, lk \cup {s})
<1>1. /\ At(Put(h, p, x, NULL), T, s) = {}
      /\ \A d \in D : d # s => At(Put(h, p, x, NULL), T, d) = At(h, T, d)
  BY OwnedGone
<1>2. f[s] # NULL
  BY OwnedBy
<1> QED BY <1>1, <1>2 DEF Owned

LEMMA OwnedOther ==
    ASSUME NEW h \in Tables, NEW p \in Procs, NEW x \in Places, NEW v \in Entries \cup {NULL},
           NEW T, NEW D, NEW lk, NEW f, NotOf(v, T, D), NotOf(h[p][x], T, D),
           Owned(h, T, f, D, lk)
    PROVE  Owned(Put(h, p, x, v), T, f, D, lk)
<1>1. \A d \in D : At(Put(h, p, x, v), T, d) = At(h, T, d)
  BY PutSame DEF NotOf
<1> QED BY <1>1 DEF Owned

LEMMA OwnedPlace ==
    ASSUME NEW h \in Tables, NEW p \in Procs, NEW x \in Places, NEW v \in Entries \cup {NULL},
           NEW T, NEW D, NEW lk, NEW f \in [D -> Inodes \cup {NULL}], NEW s \in D, NEW i \in Inodes,
           NotOf(h[p][x], T, D), \A d \in D : v \in Kind(T, d) <=> d = s,
           f[s] = NULL, Owned(h, T, f, D, lk)
    PROVE  Owned(Put(h, p, x, v), T, [f EXCEPT ![s] = i], D, lk)
<1>1. At(h, T, s) = {} /\ s \notin lk
  BY DEF Owned
<1>2. At(Put(h, p, x, v), T, s) = {<<p, x>>}
  BY PutIn, <1>1
<1>3. \A d \in D : d # s => At(Put(h, p, x, v), T, d) = At(h, T, d)
  BY PutSame DEF NotOf
<1>4. i # NULL
  OBVIOUS
<1> QED BY <1>1, <1>2, <1>3, <1>4 DEF Owned

LEMMA OwnedLose ==
    ASSUME NEW h, NEW T, NEW D, NEW lk, NEW f \in [D -> Inodes \cup {NULL}], NEW s \in D,
           NEW i \in Inodes, f[s] = NULL, Owned(h, T, f, D, lk)
    PROVE  Owned(h, T, [f EXCEPT ![s] = i], D, lk \cup {s})
BY DEF Owned

LEMMA OwnedFound ==
    ASSUME NEW h, NEW T, NEW D, NEW lk, NEW f \in [D -> Inodes \cup {NULL}], NEW s \in D,
           s \in lk, Owned(h, T, f, D, lk)
    PROVE  f[s] # NULL /\ Owned(h, T, [f EXCEPT ![s] = NULL], D, lk \ {s})
BY DEF Owned

(* What is lost of the others does not matter.                              *)
LEMMA OwnedApart ==
    ASSUME NEW h, NEW T, NEW D, NEW lk, NEW f, NEW s, s \notin D, Owned(h, T, f, D, lk)
    PROVE  Owned(h, T, f, D, lk \cup {s}) /\ Owned(h, T, f, D, lk \ {s})
BY DEF Owned

LEMMA Apart == \A s \in Slots : s \notin Blocks
BY SlotsAreNoBlocks

Moved(h, p, x, y) == Put(Put(h, p, x, NULL), p, y, h[p][x])

LEMMA MovedWho ==
    ASSUME NEW h \in Tables, NEW p \in Procs, NEW x \in Places, NEW y \in Places, x # y,
           NEW T, NEW o, NULL \notin Kind(T, o)
    PROVE  /\ \A z \in Procs \X Places : z # <<p, x>> /\ z # <<p, y>> =>
                (z \in At(Moved(h, p, x, y), T, o) <=> z \in At(h, T, o))
           /\ <<p, y>> \in At(Moved(h, p, x, y), T, o) <=> h[p][x] \in Kind(T, o)
           /\ <<p, x>> \notin At(Moved(h, p, x, y), T, o)
           /\ At(Moved(h, p, x, y), T, o) \subseteq Procs \X Places
           /\ Moved(h, p, x, y) \in Tables
<1> DEFINE g == Put(h, p, x, NULL)
           e == h[p][x]
<1>1. g \in Tables
  BY PutTable
<1>2. e \in Entries \cup {NULL}
  BY DEF Tables
<1>3. /\ \A z \in Procs \X Places : z # <<p, x>> => (z \in At(g, T, o) <=> z \in At(h, T, o))
      /\ <<p, x>> \notin At(g, T, o)
  BY PutWho
<1> HIDE DEF g, e
<1>4. /\ \A z \in Procs \X Places : z # <<p, y>> =>
            (z \in At(Put(g, p, y, e), T, o) <=> z \in At(g, T, o))
      /\ <<p, y>> \in At(Put(g, p, y, e), T, o) <=> e \in Kind(T, o)
      /\ At(Put(g, p, y, e), T, o) \subseteq Procs \X Places
  BY PutWho, <1>1, <1>2
<1>5. Put(g, p, y, e) \in Tables
  BY PutTable, <1>1, <1>2
<1>6. Moved(h, p, x, y) = Put(g, p, y, e)
  BY DEF Moved, g, e
<1>7. <<p, x>> # <<p, y>> /\ <<p, x>> \in Procs \X Places
  OBVIOUS
<1> QED BY <1>3, <1>4, <1>5, <1>6, <1>7 DEF e

LEMMA MovedAt ==
    ASSUME NEW h \in Tables, NEW p \in Procs, NEW x \in Places, NEW y \in Places, x # y,
           h[p][y] = NULL, NEW T, NEW o, NULL \notin Kind(T, o), h[p][x] \in Kind(T, o)
    PROVE  /\ At(Moved(h, p, x, y), T, o) = (At(h, T, o) \ {<<p, x>>}) \cup {<<p, y>>}
           /\ <<p, x>> \in At(h, T, o) /\ <<p, y>> \notin At(h, T, o)
<1>1. At(h, T, o) \subseteq Procs \X Places /\ <<p, x>> \in At(h, T, o) /\ <<p, y>> \notin At(h, T, o)
  BY AtHere
<1>2. /\ \A z \in Procs \X Places : z # <<p, x>> /\ z # <<p, y>> =>
            (z \in At(Moved(h, p, x, y), T, o) <=> z \in At(h, T, o))
      /\ <<p, y>> \in At(Moved(h, p, x, y), T, o)
      /\ <<p, x>> \notin At(Moved(h, p, x, y), T, o)
      /\ At(Moved(h, p, x, y), T, o) \subseteq Procs \X Places
  BY MovedWho
<1>3. <<p, x>> # <<p, y>>
  OBVIOUS
<1> QED BY <1>1, <1>2, <1>3

LEMMA MovedElse ==
    ASSUME NEW h \in Tables, NEW p \in Procs, NEW x \in Places, NEW y \in Places, x # y,
           h[p][y] = NULL, NEW T, NEW o, NULL \notin Kind(T, o), h[p][x] \notin Kind(T, o)
    PROVE  At(Moved(h, p, x, y), T, o) = At(h, T, o)
<1>1. At(h, T, o) \subseteq Procs \X Places /\ <<p, x>> \notin At(h, T, o) /\ <<p, y>> \notin At(h, T, o)
  BY AtHere
<1>2. /\ \A z \in Procs \X Places : z # <<p, x>> /\ z # <<p, y>> =>
            (z \in At(Moved(h, p, x, y), T, o) <=> z \in At(h, T, o))
      /\ <<p, y>> \notin At(Moved(h, p, x, y), T, o)
      /\ <<p, x>> \notin At(Moved(h, p, x, y), T, o)
      /\ At(Moved(h, p, x, y), T, o) \subseteq Procs \X Places
  BY MovedWho
<1> QED BY <1>1, <1>2, SMTT(30)

LEMMA OwnedMove ==
    ASSUME NEW h \in Tables, NEW p \in Procs, NEW x \in Places, NEW y \in Places, x # y,
           h[p][y] = NULL, NEW T, NEW D, NEW lk, NEW f, NotOf(NULL, T, D), Owned(h, T, f, D, lk)
    PROVE  Owned(Moved(h, p, x, y), T, f, D, lk)
<1>1. SUFFICES ASSUME NEW s \in D
               PROVE  \/ At(Moved(h, p, x, y), T, s) = At(h, T, s)
                      \/ /\ At(h, T, s) # {}
                         /\ \A z \in At(h, T, s) : At(h, T, s) = {z} =>
                                At(Moved(h, p, x, y), T, s) = {<<p, y>>}
  BY DEF Owned
<1>2. NULL \notin Kind(T, s)
  BY DEF NotOf
<1>3. CASE h[p][x] \in Kind(T, s)
  <2>1. At(Moved(h, p, x, y), T, s) = (At(h, T, s) \ {<<p, x>>}) \cup {<<p, y>>}
        /\ <<p, x>> \in At(h, T, s) /\ <<p, y>> \notin At(h, T, s)
    BY <1>2, <1>3, MovedAt
  <2> QED BY <2>1
<1>4. CASE h[p][x] \notin Kind(T, s)
  <2>1. At(Moved(h, p, x, y), T, s) = At(h, T, s)
    BY <1>2, <1>4, MovedElse
  <2> QED BY <2>1
<1> QED BY <1>3, <1>4

-----------------------------------------------------------------------------
(* Counters.  n counts the entries of types T.                              *)
Counted(h, T, D, n) == \A c \in D : n[c] = Cardinality(At(h, T, c))

LEMMA AtFinite ==
    ASSUME NEW h, NEW T, NEW o
    PROVE  IsFiniteSet(At(h, T, o)) /\ Cardinality(At(h, T, o)) \in Nat
<1>1. IsFiniteSet(Fds)
  BY FS_Interval DEF Fds
<1>2. IsFiniteSet({Kfd, Cwd, NewKfd, NewCwd, Local})
  <2>1. /\ IsFiniteSet({Kfd}) /\ IsFiniteSet({Cwd})
        /\ IsFiniteSet({NewKfd}) /\ IsFiniteSet({NewCwd}) /\ IsFiniteSet({Local})
    BY FS_Singleton
  <2>2. IsFiniteSet({Kfd} \cup {Cwd}) /\ IsFiniteSet({NewKfd} \cup {NewCwd})
    BY <2>1, FS_Union
  <2>3. IsFiniteSet(({Kfd} \cup {Cwd}) \cup ({NewKfd} \cup {NewCwd}))
    BY <2>2, FS_Union
  <2>4. IsFiniteSet((({Kfd} \cup {Cwd}) \cup ({NewKfd} \cup {NewCwd})) \cup {Local})
    BY <2>1, <2>3, FS_Union
  <2>5. (({Kfd} \cup {Cwd}) \cup ({NewKfd} \cup {NewCwd})) \cup {Local}
        = {Kfd, Cwd, NewKfd, NewCwd, Local}
    OBVIOUS
  <2> QED BY <2>4, <2>5
<1>3. IsFiniteSet(Places)
  BY <1>1, <1>2, FS_Union DEF Places
<1>4. IsFiniteSet(Procs \X Places)
  BY <1>3, FS_Product
<1>5. At(h, T, o) \subseteq Procs \X Places
  BY DEF At
<1> QED BY <1>4, <1>5, FS_Subset, FS_CardinalityType

LEMMA CountedDrop ==
    ASSUME NEW h \in Tables, NEW p \in Procs, NEW x \in Places, NEW T, NEW D,
           NEW n \in [D -> Nat], NEW c \in D, NotOf(NULL, T, D),
           h[p][x] \in Kind(T, c), \A d \in D : h[p][x] \in Kind(T, d) => d = c,
           Counted(h, T, D, n)
    PROVE  n[c] > 0 /\ Counted(Put(h, p, x, NULL), T, D, [n EXCEPT ![c] = @ - 1])
<1>1. At(Put(h, p, x, NULL), T, c) = At(h, T, c) \ {<<p, x>>} /\ <<p, x>> \in At(h, T, c)
  BY PutOut, AtHere DEF NotOf
<1>2. \A d \in D : d # c => At(Put(h, p, x, NULL), T, d) = At(h, T, d)
  BY PutSame DEF NotOf
<1>3. IsFiniteSet(At(h, T, c)) /\ Cardinality(At(h, T, c)) \in Nat
      /\ Cardinality(At(Put(h, p, x, NULL), T, c)) \in Nat
  BY AtFinite
<1>4. Cardinality(At(Put(h, p, x, NULL), T, c)) = Cardinality(At(h, T, c)) - 1
  <2>1. Cardinality(At(h, T, c) \ {<<p, x>>}) = Cardinality(At(h, T, c)) - 1
    BY <1>1, <1>3, FS_RemoveElement
  <2> QED BY <2>1, <1>1
<1>5. n[c] = Cardinality(At(h, T, c))
  BY DEF Counted
<1>6. n[c] > 0
  BY <1>3, <1>4, <1>5
<1>7. Counted(Put(h, p, x, NULL), T, D, [n EXCEPT ![c] = @ - 1])
  BY <1>2, <1>4, <1>5 DEF Counted
<1> QED BY <1>6, <1>7

LEMMA CountedAdd ==
    ASSUME NEW h \in Tables, NEW p \in Procs, NEW x \in Places, NEW v \in Entries \cup {NULL},
           NEW T, NEW D, NEW n \in [D -> Nat], NEW c \in D,
           NotOf(h[p][x], T, D), \A d \in D : v \in Kind(T, d) <=> d = c,
           Counted(h, T, D, n)
    PROVE  Counted(Put(h, p, x, v), T, D, [n EXCEPT ![c] = @ + 1])
<1>1. At(Put(h, p, x, v), T, c) = At(h, T, c) \cup {<<p, x>>}
  BY PutIn
<1>0. <<p, x>> \notin At(h, T, c)
  BY AtHere DEF NotOf
<1>2. \A d \in D : d # c => At(Put(h, p, x, v), T, d) = At(h, T, d)
  BY PutSame DEF NotOf
<1>3. Cardinality(At(Put(h, p, x, v), T, c)) = Cardinality(At(h, T, c)) + 1
  BY <1>0, <1>1, AtFinite, FS_AddElement
<1> QED BY <1>2, <1>3 DEF Counted

LEMMA CountedOther ==
    ASSUME NEW h \in Tables, NEW p \in Procs, NEW x \in Places, NEW v \in Entries \cup {NULL},
           NEW T, NEW D, NEW n, NotOf(v, T, D), NotOf(h[p][x], T, D), Counted(h, T, D, n)
    PROVE  Counted(Put(h, p, x, v), T, D, n)
BY PutSame DEF NotOf, Counted

LEMMA CountedMove ==
    ASSUME NEW h \in Tables, NEW p \in Procs, NEW x \in Places, NEW y \in Places, x # y,
           h[p][y] = NULL, NEW T, NEW D, NEW n, NotOf(NULL, T, D), Counted(h, T, D, n)
    PROVE  Counted(Moved(h, p, x, y), T, D, n)
<1>1. SUFFICES ASSUME NEW c \in D
               PROVE  Cardinality(At(Moved(h, p, x, y), T, c)) = Cardinality(At(h, T, c))
  BY DEF Counted
<1>2. NULL \notin Kind(T, c)
  BY DEF NotOf
<1>3. CASE h[p][x] \in Kind(T, c)
  <2>1. At(Moved(h, p, x, y), T, c) = (At(h, T, c) \ {<<p, x>>}) \cup {<<p, y>>}
        /\ <<p, y>> \notin At(h, T, c) /\ <<p, x>> \in At(h, T, c)
    BY <1>2, <1>3, MovedAt
  <2>2. IsFiniteSet(At(h, T, c)) /\ Cardinality(At(h, T, c)) \in Nat
    BY AtFinite
  <2>3. IsFiniteSet(At(h, T, c) \ {<<p, x>>})
        /\ Cardinality(At(h, T, c) \ {<<p, x>>}) = Cardinality(At(h, T, c)) - 1
    BY <2>1, <2>2, FS_RemoveElement
  <2>4. Cardinality((At(h, T, c) \ {<<p, x>>}) \cup {<<p, y>>})
        = Cardinality(At(h, T, c) \ {<<p, x>>}) + 1
    BY <2>1, <2>3, FS_AddElement
  <2> QED BY <2>1, <2>2, <2>3, <2>4
<1>4. CASE h[p][x] \notin Kind(T, c)
  <2>1. At(Moved(h, p, x, y), T, c) = At(h, T, c)
    BY <1>2, <1>4, MovedElse
  <2> QED BY <2>1
<1> QED BY <1>3, <1>4

-----------------------------------------------------------------------------
(* Users of an inode.                                                       *)
Used(f, D, i) == {s \in D : f[s] = i}

LEMMA UsedFinite ==
    ASSUME NEW D, IsFiniteSet(D), NEW f, NEW i
    PROVE  IsFiniteSet(Used(f, D, i)) /\ Cardinality(Used(f, D, i)) \in Nat
BY FS_Subset, FS_CardinalityType DEF Used

LEMMA UsedBy ==
    ASSUME NEW D, IsFiniteSet(D), NEW f, NEW s \in D, NEW i \in Inodes, f[s] = i
    PROVE  Cardinality(Used(f, D, i)) > 0 /\ Used(f, D, i) # {}
<1>1. s \in Used(f, D, i)
  BY DEF Used
<1>2. IsFiniteSet(Used(f, D, i)) /\ Cardinality(Used(f, D, i)) \in Nat
  BY UsedFinite
<1>3. Cardinality(Used(f, D, i)) # 0
  BY <1>1, <1>2, FS_EmptySet
<1> QED BY <1>1, <1>2, <1>3

Balanced(n, f, D, g, E, i) ==
    \/ n = 1 + Cardinality(Used(f, D, i)) + Cardinality(Used(g, E, i))
    \/ n = 0 /\ Used(f, D, i) = {} /\ Used(g, E, i) = {}
Users(io, di, rf) == \A i \in Inodes : Balanced(rf[i], io, Slots, di, Blocks, i)

LEMMA BalancedEither ==
    ASSUME NEW n, NEW D, NEW E, IsFiniteSet(D), IsFiniteSet(E), NEW f, NEW g, NEW i
    PROVE  Balanced(n, f, D, g, E, i) <=> Balanced(n, g, E, f, D, i)
<1>1. Cardinality(Used(g, E, i)) \in Nat /\ Cardinality(Used(f, D, i)) \in Nat
  BY UsedFinite
<1> QED BY <1>1 DEF Balanced

LEMMA SlotsFinite == IsFiniteSet(Slots)
BY FS_Interval DEF Slots

-----------------------------------------------------------------------------
(* The least number of a set.                                               *)
Below == {r \in Nat \X Nat : r[1] < r[2]}

LEMMA BelowWellFounded == IsWellFoundedOn(Below, Nat)
BY NatLessThanWellFounded DEF OpToRel, Below

LEMMA LeastOf ==
    ASSUME NEW S \in SUBSET Nat, S # {}
    PROVE  \E x \in S : \A y \in S : x <= y
<1>1. PICK x \in S : \A y \in S : ~(<<y, x>> \in Below)
  BY BelowWellFounded, WFMin
<1>2. ASSUME NEW y \in S PROVE x <= y
  <2>1. <<y, x>> \notin Below /\ x \in Nat /\ y \in Nat
    BY <1>1
  <2> QED BY <2>1 DEF Below
<1> QED BY <1>2

LEMMA LowestOf ==
    ASSUME NEW S \in SUBSET Nat, S # {}
    PROVE  Lowest(S) \in S /\ \A y \in S : Lowest(S) <= y
BY LeastOf DEF Lowest

(* The next thing to open is one of the list.                               *)
LEMMA NextIn ==
    ASSUME NEW p \in Procs, NEW S \in SUBSET Items, S = todo[p], S # {}
    PROVE  Next1(p) \in todo[p]
<1> DEFINE N == {i.at + 6 : i \in S}
<1>1. \A i \in Items : i.at \in Int /\ i.at + 6 \in Nat
  BY DEF Items, Item, Places, Fds, Kfd, Cwd, NewKfd, NewCwd, Local, Nowhere
<1>2. N \in SUBSET Nat /\ N # {}
  BY <1>1
<1>3. PICK n \in N : \A k \in N : n <= k
  BY <1>2, LeastOf
<1>4. PICK i \in S : n = i.at + 6
  BY <1>3
<1>5. ASSUME NEW j \in S PROVE i.at <= j.at
  <2>1. n <= j.at + 6
    BY <1>3
  <2>2. i.at \in Int /\ j.at \in Int
    BY <1>1
  <2> QED BY <2>1, <2>2, <1>4
<1> HIDE DEF N
<1> QED BY <1>5 DEF Next1

-----------------------------------------------------------------------------
(* What holds of the tables, the slots, the directories, the pipes and the  *)
(* counters of the inodes, of any values of them.                           *)
SlotPart(h, io, pa, lk) ==
    /\ io \in [Slots -> Inodes \cup {NULL}] /\ pa \in [Slots -> Inodes \cup {NULL}]
    /\ lk \subseteq Slots \cup Blocks
    /\ pa[0] \in Inodes /\ \A s \in Slots : io[s] # NULL => pa[s] \in Inodes
    /\ Owned(h, Files, io, Slots, lk)

DirPart(h, di, dp, lk) ==
    /\ di \in [Blocks -> Inodes \cup {NULL}] /\ dp \in [Blocks -> Inodes \cup {NULL}]
    /\ \A b \in Blocks : di[b] # NULL => dp[b] \in Inodes
    /\ Owned(h, {"dir"}, di, Blocks, lk)

PipePart(h, rr, wr, lv) ==
    /\ rr \in [Pipes -> Nat] /\ wr \in [Pipes -> Nat] /\ lv \subseteq Pipes
    /\ Counted(h, {"in"}, Pipes, rr) /\ Counted(h, {"out"}, Pipes, wr)
    /\ \A c \in Pipes : c \in lv <=> rr[c] > 0 \/ wr[c] > 0

UserPart(io, di, rf) == rf \in [Inodes -> Nat] /\ Users(io, di, rf)

LEMMA PartsOther ==
    ASSUME NEW h \in Tables, NEW p \in Procs, NEW x \in Places, NEW v \in Entries \cup {NULL}
    PROVE  /\ \A io, pa, lk : SlotPart(h, io, pa, lk)
                /\ h[p][x] \notin FileEntries /\ v \notin FileEntries
                => SlotPart(Put(h, p, x, v), io, pa, lk)
           /\ \A di, dp, lk : DirPart(h, di, dp, lk)
                /\ h[p][x] \notin DirEntries /\ v \notin DirEntries
                => DirPart(Put(h, p, x, v), di, dp, lk)
           /\ \A rr, wr, lv : PipePart(h, rr, wr, lv)
                /\ h[p][x] \notin EndEntries /\ v \notin EndEntries
                => PipePart(Put(h, p, x, v), rr, wr, lv)
<1>0. h[p][x] \in Entries \cup {NULL}
  BY DEF Tables
<1>1. ASSUME NEW io, NEW pa, NEW lk, SlotPart(h, io, pa, lk),
             h[p][x] \notin FileEntries, v \notin FileEntries
      PROVE  SlotPart(Put(h, p, x, v), io, pa, lk)
  <2>1. NotOf(v, Files, Slots) /\ NotOf(h[p][x], Files, Slots)
    BY <1>0, <1>1, KindsOf
  <2>2. Owned(Put(h, p, x, v), Files, io, Slots, lk)
    BY <1>1, <2>1, OwnedOther DEF SlotPart
  <2> QED BY <1>1, <2>2 DEF SlotPart
<1>2. ASSUME NEW di, NEW dp, NEW lk, DirPart(h, di, dp, lk),
             h[p][x] \notin DirEntries, v \notin DirEntries
      PROVE  DirPart(Put(h, p, x, v), di, dp, lk)
  <2>1. NotOf(v, {"dir"}, Blocks) /\ NotOf(h[p][x], {"dir"}, Blocks)
    BY <1>0, <1>2, KindsOf
  <2>2. Owned(Put(h, p, x, v), {"dir"}, di, Blocks, lk)
    BY <1>2, <2>1, OwnedOther DEF DirPart
  <2> QED BY <1>2, <2>2 DEF DirPart
<1>3. ASSUME NEW rr, NEW wr, NEW lv, PipePart(h, rr, wr, lv),
             h[p][x] \notin EndEntries, v \notin EndEntries
      PROVE  PipePart(Put(h, p, x, v), rr, wr, lv)
  <2>1. /\ NotOf(v, {"in"}, Pipes) /\ NotOf(h[p][x], {"in"}, Pipes)
        /\ NotOf(v, {"out"}, Pipes) /\ NotOf(h[p][x], {"out"}, Pipes)
    BY <1>0, <1>3, KindsOf
  <2>2. Counted(Put(h, p, x, v), {"in"}, Pipes, rr) /\ Counted(Put(h, p, x, v), {"out"}, Pipes, wr)
    BY <1>3, <2>1, CountedOther DEF PipePart
  <2> QED BY <1>3, <2>2 DEF PipePart
<1> QED BY <1>1, <1>2, <1>3

(* A slot that is lost is no directory, and the other way round.            *)
LEMMA PartsApart ==
    ASSUME NEW h, NEW lk
    PROVE  /\ \A di, dp : \A s \in Slots :
                DirPart(h, di, dp, lk) => DirPart(h, di, dp, lk \cup {s})
           /\ \A io, pa : \A b \in Blocks : SlotPart(h, io, pa, lk) =>
                SlotPart(h, io, pa, lk \cup {b}) /\ SlotPart(h, io, pa, lk \ {b})
<1>1. ASSUME NEW di, NEW dp, NEW s \in Slots, DirPart(h, di, dp, lk)
      PROVE  DirPart(h, di, dp, lk \cup {s})
  <2>1. Owned(h, {"dir"}, di, Blocks, lk \cup {s})
    BY <1>1, Apart, OwnedApart DEF DirPart
  <2> QED BY <1>1, <2>1 DEF DirPart
<1>2. ASSUME NEW io, NEW pa, NEW b \in Blocks, SlotPart(h, io, pa, lk)
      PROVE  SlotPart(h, io, pa, lk \cup {b}) /\ SlotPart(h, io, pa, lk \ {b})
  <2>1. b \notin Slots
    BY Apart
  <2>2. Owned(h, Files, io, Slots, lk \cup {b}) /\ Owned(h, Files, io, Slots, lk \ {b})
    BY <1>2, <2>1, OwnedApart DEF SlotPart
  <2> QED BY <1>2, <2>2 DEF SlotPart
<1> QED BY <1>1, <1>2
-----------------------------------------------------------------------------
(* What a change of one place does to the parts.                            *)

(* A slot that is closed is free; one whose file system reports an error is *)
(* lost.                                                                    *)
LEMMA SlotDrop ==
    ASSUME NEW h \in Tables, NEW p \in Procs, NEW x \in Places, NEW io, NEW pa, NEW lk,
           NEW s \in Slots, h[p][x] \in FileEntries, h[p][x].obj = s, SlotPart(h, io, pa, lk)
    PROVE  /\ io[s] # NULL
           /\ SlotPart(Put(h, p, x, NULL), [io EXCEPT ![s] = NULL],
                       [pa EXCEPT ![s] = IF s = 0 THEN @ ELSE NULL], lk)
           /\ SlotPart(Put(h, p, x, NULL), io, pa, lk \cup {s})
<1>1. h[p][x] \in Kind(Files, s) /\ \A d \in Slots : h[p][x] \in Kind(Files, d) => d = s
  BY KindsOf DEF Tables
<1>2. NotOf(NULL, Files, Slots)
  BY NullInNoKind DEF NotOf
<1>3. io \in [Slots -> Inodes \cup {NULL}] /\ Owned(h, Files, io, Slots, lk)
  BY DEF SlotPart
<1>4a. io[s] # NULL
  BY <1>1, <1>3, OwnedBy
<1>4b. Owned(Put(h, p, x, NULL), Files, [io EXCEPT ![s] = NULL], Slots, lk)
  BY <1>1, <1>2, <1>3, OwnedFree
<1>4c. Owned(Put(h, p, x, NULL), Files, io, Slots, lk \cup {s})
  BY <1>1, <1>2, <1>3, OwnedLost
<1>4. io[s] # NULL
  BY <1>4a
<1>5. SlotPart(Put(h, p, x, NULL), [io EXCEPT ![s] = NULL],
               [pa EXCEPT ![s] = IF s = 0 THEN @ ELSE NULL], lk)
  BY <1>4b DEF SlotPart
<1>6. SlotPart(Put(h, p, x, NULL), io, pa, lk \cup {s})
  BY <1>4c DEF SlotPart
<1> QED BY <1>4, <1>5, <1>6

LEMMA SlotPlace ==
    ASSUME NEW h \in Tables, NEW p \in Procs, NEW x \in Places, NEW io, NEW pa, NEW lk,
           NEW s \in Slots, NEW type \in Files, NEW i \in Inodes, NEW n \in Inodes,
           h[p][x] \notin FileEntries, io[s] = NULL, SlotPart(h, io, pa, lk)
    PROVE  SlotPart(Put(h, p, x, Entry(type, s)), [io EXCEPT ![s] = i], [pa EXCEPT ![s] = n], lk)
<1> DEFINE v == Entry(type, s)
<1>1. v \in FileEntries /\ v \in Entries /\ v.obj = s
  BY DEF FileEntries, Entries, Entry
<1> HIDE DEF v
<1>2. \A d \in Slots : v \in Kind(Files, d) <=> d = s
  BY <1>1, KindsOf
<1>3. NotOf(h[p][x], Files, Slots)
  BY KindsOf DEF Tables
<1>4. io \in [Slots -> Inodes \cup {NULL}] /\ Owned(h, Files, io, Slots, lk)
  BY DEF SlotPart
<1>5. Owned(Put(h, p, x, v), Files, [io EXCEPT ![s] = i], Slots, lk)
  BY <1>1, <1>2, <1>3, <1>4, OwnedPlace
<1>6. SlotPart(Put(h, p, x, v), [io EXCEPT ![s] = i], [pa EXCEPT ![s] = n], lk)
  BY <1>5 DEF SlotPart
<1> QED BY <1>6 DEF v

LEMMA SlotLose ==
    ASSUME NEW h, NEW io, NEW pa, NEW lk, NEW s \in Slots, NEW i \in Inodes, NEW n \in Inodes,
           io[s] = NULL, SlotPart(h, io, pa, lk)
    PROVE  SlotPart(h, [io EXCEPT ![s] = i], [pa EXCEPT ![s] = n], lk \cup {s})
<1>1. Owned(h, Files, [io EXCEPT ![s] = i], Slots, lk \cup {s})
  BY OwnedLose DEF SlotPart
<1> QED BY <1>1 DEF SlotPart

LEMMA SlotPath ==
    ASSUME NEW h, NEW io, NEW pa, NEW lk, NEW s \in Slots, NEW n \in Inodes \cup {NULL},
           s = 0 => n \in Inodes, io[s] = NULL, SlotPart(h, io, pa, lk)
    PROVE  SlotPart(h, [io EXCEPT ![s] = NULL], [pa EXCEPT ![s] = n], lk)
<1>1. io \in [Slots -> Inodes \cup {NULL}]
  BY DEF SlotPart
<1>2. [io EXCEPT ![s] = NULL] = io
  BY <1>1
<1>3. SlotPart(h, io, [pa EXCEPT ![s] = n], lk)
  BY DEF SlotPart
<1> QED BY <1>2, <1>3

(* The same of directories.                                                 *)
LEMMA DirDrop ==
    ASSUME NEW h \in Tables, NEW p \in Procs, NEW x \in Places, NEW di, NEW dp, NEW lk,
           NEW b \in Blocks, h[p][x] \in DirEntries, h[p][x].obj = b, DirPart(h, di, dp, lk)
    PROVE  /\ di[b] # NULL
           /\ DirPart(Put(h, p, x, NULL), [di EXCEPT ![b] = NULL], [dp EXCEPT ![b] = NULL], lk)
           /\ DirPart(Put(h, p, x, NULL), di, dp, lk \cup {b})
<1>1. h[p][x] \in Kind({"dir"}, b) /\ \A d \in Blocks : h[p][x] \in Kind({"dir"}, d) => d = b
  BY KindsOf DEF Tables
<1>2. NotOf(NULL, {"dir"}, Blocks)
  BY NullInNoKind DEF NotOf
<1>3. di \in [Blocks -> Inodes \cup {NULL}] /\ Owned(h, {"dir"}, di, Blocks, lk)
  BY DEF DirPart
<1>4. di[b] # NULL
  BY <1>1, <1>3, OwnedBy
<1>5. Owned(Put(h, p, x, NULL), {"dir"}, [di EXCEPT ![b] = NULL], Blocks, lk)
  BY <1>1, <1>2, <1>3, OwnedFree
<1>6. Owned(Put(h, p, x, NULL), {"dir"}, di, Blocks, lk \cup {b})
  BY <1>1, <1>2, <1>3, OwnedLost
<1>7. DirPart(Put(h, p, x, NULL), [di EXCEPT ![b] = NULL], [dp EXCEPT ![b] = NULL], lk)
  BY <1>5 DEF DirPart
<1>8. DirPart(Put(h, p, x, NULL), di, dp, lk \cup {b})
  BY <1>6 DEF DirPart
<1> QED BY <1>4, <1>7, <1>8

LEMMA DirPlace ==
    ASSUME NEW h \in Tables, NEW p \in Procs, NEW x \in Places, NEW di, NEW dp, NEW lk,
           NEW b \in Blocks, NEW i \in Inodes, NEW n \in Inodes,
           h[p][x] \notin DirEntries, di[b] = NULL, DirPart(h, di, dp, lk)
    PROVE  DirPart(Put(h, p, x, Entry("dir", b)), [di EXCEPT ![b] = i], [dp EXCEPT ![b] = n], lk)
<1> DEFINE v == Entry("dir", b)
<1>1. v \in DirEntries /\ v \in Entries /\ v.obj = b
  BY DEF DirEntries, Entries, Entry
<1> HIDE DEF v
<1>2. \A d \in Blocks : v \in Kind({"dir"}, d) <=> d = b
  BY <1>1, KindsOf
<1>3. NotOf(h[p][x], {"dir"}, Blocks)
  BY KindsOf DEF Tables
<1>4. di \in [Blocks -> Inodes \cup {NULL}] /\ Owned(h, {"dir"}, di, Blocks, lk)
  BY DEF DirPart
<1>5. Owned(Put(h, p, x, v), {"dir"}, [di EXCEPT ![b] = i], Blocks, lk)
  BY <1>1, <1>2, <1>3, <1>4, OwnedPlace
<1>6. DirPart(Put(h, p, x, v), [di EXCEPT ![b] = i], [dp EXCEPT ![b] = n], lk)
  BY <1>5 DEF DirPart
<1> QED BY <1>6 DEF v

LEMMA DirLose ==
    ASSUME NEW h, NEW di, NEW dp, NEW lk, NEW b \in Blocks, NEW i \in Inodes, NEW n \in Inodes,
           di[b] = NULL, DirPart(h, di, dp, lk)
    PROVE  DirPart(h, [di EXCEPT ![b] = i], [dp EXCEPT ![b] = n], lk \cup {b})
<1>1. Owned(h, {"dir"}, [di EXCEPT ![b] = i], Blocks, lk \cup {b})
  BY OwnedLose DEF DirPart
<1> QED BY <1>1 DEF DirPart

(* A lost directory that is closed after all.                               *)
LEMMA DirFound ==
    ASSUME NEW h, NEW di, NEW dp, NEW lk, NEW b \in Blocks, b \in lk, DirPart(h, di, dp, lk)
    PROVE  /\ di[b] # NULL
           /\ DirPart(h, [di EXCEPT ![b] = NULL], [dp EXCEPT ![b] = NULL], lk \ {b})
<1>1. di[b] # NULL /\ Owned(h, {"dir"}, [di EXCEPT ![b] = NULL], Blocks, lk \ {b})
  BY OwnedFound DEF DirPart
<1> QED BY <1>1 DEF DirPart

(* An end that is closed is counted off, and the last one frees the pipe.   *)
LEMMA EndDrop ==
    ASSUME NEW h \in Tables, NEW p \in Procs, NEW x \in Places, NEW rr, NEW wr, NEW lv,
           NEW c \in Pipes, h[p][x] \in EndEntries, h[p][x].obj = c, PipePart(h, rr, wr, lv),
           NEW r2, NEW w2, NEW l2,
           r2 = [rr EXCEPT ![c] = IF h[p][x].type = "in" THEN @ - 1 ELSE @],
           w2 = [wr EXCEPT ![c] = IF h[p][x].type = "out" THEN @ - 1 ELSE @],
           l2 = IF r2[c] = 0 /\ w2[c] = 0 THEN lv \ {c} ELSE lv
    PROVE  PipePart(Put(h, p, x, NULL), r2, w2, l2)
<1> DEFINE e == h[p][x]
<1>1. rr \in [Pipes -> Nat] /\ wr \in [Pipes -> Nat]
      /\ Counted(h, {"in"}, Pipes, rr) /\ Counted(h, {"out"}, Pipes, wr)
  BY DEF PipePart
<1>2. NotOf(NULL, {"in"}, Pipes) /\ NotOf(NULL, {"out"}, Pipes)
  BY NullInNoKind DEF NotOf
<1>3. /\ e.type \in Ends
      /\ e.type = "in" => /\ NotOf(e, {"out"}, Pipes)
                           /\ \A d \in Pipes : e \in Kind({"in"}, d) <=> d = c
      /\ e.type = "out" => /\ NotOf(e, {"in"}, Pipes)
                            /\ \A d \in Pipes : e \in Kind({"out"}, d) <=> d = c
  BY KindsOf DEF Tables
<1>4. CASE e.type = "in"
  <2>1. r2 = [rr EXCEPT ![c] = @ - 1] /\ w2 = wr
    BY <1>1, <1>4
  <2>0. /\ e \in Kind({"in"}, c) /\ \A d \in Pipes : e \in Kind({"in"}, d) => d = c
    BY <1>3, <1>4
  <2>2. rr[c] > 0 /\ Counted(Put(h, p, x, NULL), {"in"}, Pipes, [rr EXCEPT ![c] = @ - 1])
    BY <1>1, <1>2, <2>0, CountedDrop
  <2>3. Counted(Put(h, p, x, NULL), {"out"}, Pipes, wr)
    BY <1>1, <1>2, <1>3, <1>4, CountedOther
  <2>4. r2 \in [Pipes -> Nat] /\ w2 \in [Pipes -> Nat]
    BY <1>1, <2>1, <2>2
  <2>5. l2 \subseteq Pipes /\ \A d \in Pipes : d \in l2 <=> r2[d] > 0 \/ w2[d] > 0
    BY <2>1, <2>4 DEF PipePart
  <2>6. Counted(Put(h, p, x, NULL), {"in"}, Pipes, r2) /\ Counted(Put(h, p, x, NULL), {"out"}, Pipes, w2)
    BY <2>1, <2>2, <2>3
  <2> QED BY <2>4, <2>5, <2>6 DEF PipePart
<1>5. CASE e.type = "out"
  <2>1. w2 = [wr EXCEPT ![c] = @ - 1] /\ r2 = rr
    BY <1>1, <1>5
  <2>0. /\ e \in Kind({"out"}, c) /\ \A d \in Pipes : e \in Kind({"out"}, d) => d = c
    BY <1>3, <1>5
  <2>2. wr[c] > 0 /\ Counted(Put(h, p, x, NULL), {"out"}, Pipes, [wr EXCEPT ![c] = @ - 1])
    BY <1>1, <1>2, <2>0, CountedDrop
  <2>3. Counted(Put(h, p, x, NULL), {"in"}, Pipes, rr)
    BY <1>1, <1>2, <1>3, <1>5, CountedOther
  <2>4. r2 \in [Pipes -> Nat] /\ w2 \in [Pipes -> Nat]
    BY <1>1, <2>1, <2>2
  <2>5. l2 \subseteq Pipes /\ \A d \in Pipes : d \in l2 <=> r2[d] > 0 \/ w2[d] > 0
    BY <2>1, <2>4 DEF PipePart
  <2>6. Counted(Put(h, p, x, NULL), {"in"}, Pipes, r2) /\ Counted(Put(h, p, x, NULL), {"out"}, Pipes, w2)
    BY <2>1, <2>2, <2>3
  <2> QED BY <2>4, <2>5, <2>6 DEF PipePart
<1> QED BY <1>3, <1>4, <1>5 DEF Ends

LEMMA EndAdd ==
    ASSUME NEW h \in Tables, NEW p \in Procs, NEW x \in Places, NEW rr, NEW wr, NEW lv,
           NEW c \in Pipes, NEW end \in Ends, h[p][x] \notin EndEntries, PipePart(h, rr, wr, lv),
           NEW r2, NEW w2,
           r2 = [rr EXCEPT ![c] = IF end = "in" THEN @ + 1 ELSE @],
           w2 = [wr EXCEPT ![c] = IF end = "out" THEN @ + 1 ELSE @]
    PROVE  PipePart(Put(h, p, x, Entry(end, c)), r2, w2, lv \cup {c})
<1> DEFINE v == Entry(end, c)
<1>1. v \in EndEntries /\ v \in Entries \cup {NULL} /\ v.obj = c /\ v.type = end
  BY DEF EndEntries, Entries, Entry
<1> HIDE DEF v
<1>2. rr \in [Pipes -> Nat] /\ wr \in [Pipes -> Nat]
      /\ Counted(h, {"in"}, Pipes, rr) /\ Counted(h, {"out"}, Pipes, wr)
  BY DEF PipePart
<1>3. NotOf(h[p][x], {"in"}, Pipes) /\ NotOf(h[p][x], {"out"}, Pipes)
  BY KindsOf DEF Tables
<1>4. CASE end = "in"
  <2>1. r2 = [rr EXCEPT ![c] = @ + 1] /\ w2 = wr
    BY <1>2, <1>4
  <2>2. NotOf(v, {"out"}, Pipes) /\ \A d \in Pipes : v \in Kind({"in"}, d) <=> d = c
    BY <1>1, <1>4, KindsOf
  <2>3. Counted(Put(h, p, x, v), {"in"}, Pipes, [rr EXCEPT ![c] = @ + 1])
    BY <1>1, <1>2, <1>3, <2>2, CountedAdd
  <2>4. Counted(Put(h, p, x, v), {"out"}, Pipes, wr)
    BY <1>1, <1>2, <1>3, <2>2, CountedOther
  <2>5. r2 \in [Pipes -> Nat] /\ w2 \in [Pipes -> Nat]
    BY <1>2, <2>1
  <2>6. \A d \in Pipes : d \in lv \cup {c} <=> r2[d] > 0 \/ w2[d] > 0
    BY <1>2, <2>1 DEF PipePart
  <2>7. Counted(Put(h, p, x, v), {"in"}, Pipes, r2) /\ Counted(Put(h, p, x, v), {"out"}, Pipes, w2)
    BY <2>1, <2>3, <2>4
  <2>8. PipePart(Put(h, p, x, v), r2, w2, lv \cup {c})
    BY <2>5, <2>6, <2>7 DEF PipePart
  <2> QED BY <2>8 DEF v
<1>5. CASE end = "out"
  <2>1. w2 = [wr EXCEPT ![c] = @ + 1] /\ r2 = rr
    BY <1>2, <1>5
  <2>2. NotOf(v, {"in"}, Pipes) /\ \A d \in Pipes : v \in Kind({"out"}, d) <=> d = c
    BY <1>1, <1>5, KindsOf
  <2>3. Counted(Put(h, p, x, v), {"out"}, Pipes, [wr EXCEPT ![c] = @ + 1])
    BY <1>1, <1>2, <1>3, <2>2, CountedAdd
  <2>4. Counted(Put(h, p, x, v), {"in"}, Pipes, rr)
    BY <1>1, <1>2, <1>3, <2>2, CountedOther
  <2>5. r2 \in [Pipes -> Nat] /\ w2 \in [Pipes -> Nat]
    BY <1>2, <2>1
  <2>6. \A d \in Pipes : d \in lv \cup {c} <=> r2[d] > 0 \/ w2[d] > 0
    BY <1>2, <2>1 DEF PipePart
  <2>7. Counted(Put(h, p, x, v), {"in"}, Pipes, r2) /\ Counted(Put(h, p, x, v), {"out"}, Pipes, w2)
    BY <2>1, <2>3, <2>4
  <2>8. PipePart(Put(h, p, x, v), r2, w2, lv \cup {c})
    BY <2>5, <2>6, <2>7 DEF PipePart
  <2> QED BY <2>8 DEF v
<1> QED BY <1>4, <1>5 DEF Ends

(* Moving what is at a place to an empty one changes none of them.          *)
LEMMA PartsMove ==
    ASSUME NEW h \in Tables, NEW p \in Procs, NEW x \in Places, NEW y \in Places, x # y,
           h[p][y] = NULL
    PROVE  /\ \A io, pa, lk : SlotPart(h, io, pa, lk) => SlotPart(Moved(h, p, x, y), io, pa, lk)
           /\ \A di, dp, lk : DirPart(h, di, dp, lk) => DirPart(Moved(h, p, x, y), di, dp, lk)
           /\ \A rr, wr, lv : PipePart(h, rr, wr, lv) => PipePart(Moved(h, p, x, y), rr, wr, lv)
<1>1. /\ NotOf(NULL, Files, Slots) /\ NotOf(NULL, {"dir"}, Blocks)
      /\ NotOf(NULL, {"in"}, Pipes) /\ NotOf(NULL, {"out"}, Pipes)
  BY NullInNoKind DEF NotOf
<1>2. \A io, lk : Owned(h, Files, io, Slots, lk) => Owned(Moved(h, p, x, y), Files, io, Slots, lk)
  BY <1>1, OwnedMove
<1>3. \A di, lk : Owned(h, {"dir"}, di, Blocks, lk) => Owned(Moved(h, p, x, y), {"dir"}, di, Blocks, lk)
  BY <1>1, OwnedMove
<1>4. \A n : Counted(h, {"in"}, Pipes, n) => Counted(Moved(h, p, x, y), {"in"}, Pipes, n)
  BY <1>1, CountedMove
<1>5. \A n : Counted(h, {"out"}, Pipes, n) => Counted(Moved(h, p, x, y), {"out"}, Pipes, n)
  BY <1>1, CountedMove
<1>6. \A io, pa, lk : SlotPart(h, io, pa, lk) => SlotPart(Moved(h, p, x, y), io, pa, lk)
  BY <1>2 DEF SlotPart
<1>7. \A di, dp, lk : DirPart(h, di, dp, lk) => DirPart(Moved(h, p, x, y), di, dp, lk)
  BY <1>3 DEF DirPart
<1>8. \A rr, wr, lv : PipePart(h, rr, wr, lv) => PipePart(Moved(h, p, x, y), rr, wr, lv)
  BY <1>4, <1>5 DEF PipePart
<1> QED BY <1>6, <1>7, <1>8

Unuse(rf, i) == [rf EXCEPT ![i] = IF @ > 0 THEN @ - 1 ELSE 0]

LEMMA UnuseType ==
    ASSUME NEW rf \in [Inodes -> Nat], NEW i \in Inodes
    PROVE  Unuse(rf, i) \in [Inodes -> Nat]
<1>1. (IF rf[i] > 0 THEN rf[i] - 1 ELSE 0) \in Nat
  OBVIOUS
<1> QED BY <1>1 DEF Unuse

(* The counter of an inode follows what is open on it.                      *)
LEMMA UserLess ==
    ASSUME NEW D, IsFiniteSet(D), NEW E, IsFiniteSet(E),
           NEW f \in [D -> Inodes \cup {NULL}], NEW g \in [E -> Inodes \cup {NULL}],
           NEW rf \in [Inodes -> Nat], NEW s \in D, f[s] # NULL, NEW i \in Inodes,
           Balanced(rf[i], f, D, g, E, i), NEW n, n = Unuse(rf, f[s]),
           NEW f2, f2 = [f EXCEPT ![s] = NULL]
    PROVE  Balanced(n[i], f2, D, g, E, i)
<1>1. Cardinality(Used(g, E, i)) \in Nat /\ Cardinality(Used(f, D, i)) \in Nat
  BY UsedFinite
<1>2. NULL \in Inodes \cup {NULL} /\ NULL # i
  OBVIOUS
<1>3. CASE f[s] # i
  <2>1. Used(f2, D, i) = Used(f, D, i)
    BY <1>2, <1>3 DEF Used
  <2>2. n[i] = rf[i]
    BY <1>3 DEF Unuse
  <2> QED BY <2>1, <2>2 DEF Balanced
<1>4. CASE f[s] = i
  <2>0a. Used(f2, D, i) = Used(f, D, i) \ {s} /\ s \in Used(f, D, i)
    BY <1>2, <1>4 DEF Used
  <2>0b. Cardinality(Used(f, D, i) \ {s}) = Cardinality(Used(f, D, i)) - 1
    BY <2>0a, UsedFinite, FS_RemoveElement
  <2>1. Cardinality(Used(f2, D, i)) = Cardinality(Used(f, D, i)) - 1
    BY <2>0a, <2>0b
  <2>2. Cardinality(Used(f, D, i)) > 0 /\ Used(f, D, i) # {}
    BY <1>4, UsedBy
  <2>3. n[i] = IF rf[i] > 0 THEN rf[i] - 1 ELSE 0
    BY <1>4 DEF Unuse
  <2>4. rf[i] = 1 + Cardinality(Used(f, D, i)) + Cardinality(Used(g, E, i))
    BY <2>2 DEF Balanced
  <2>5. n[i] = 1 + Cardinality(Used(f2, D, i)) + Cardinality(Used(g, E, i))
    BY <1>1, <2>1, <2>2, <2>3, <2>4
  <2> QED BY <2>5 DEF Balanced
<1> QED BY <1>3, <1>4

LEMMA UserMore ==
    ASSUME NEW D, IsFiniteSet(D), NEW E, IsFiniteSet(E),
           NEW f \in [D -> Inodes \cup {NULL}], NEW g \in [E -> Inodes \cup {NULL}],
           NEW rf \in [Inodes -> Nat], NEW s \in D, f[s] = NULL, NEW j \in Inodes, rf[j] > 0,
           NEW i \in Inodes, Balanced(rf[i], f, D, g, E, i), NEW n, n = [rf EXCEPT ![j] = @ + 1],
           NEW f2, f2 = [f EXCEPT ![s] = j]
    PROVE  Balanced(n[i], f2, D, g, E, i)
<1>1. Cardinality(Used(g, E, i)) \in Nat /\ Cardinality(Used(f, D, i)) \in Nat
  BY UsedFinite
<1>2. f[s] # i
  OBVIOUS
<1>3. CASE j # i
  <2>1. Used(f2, D, i) = Used(f, D, i)
    BY <1>2, <1>3 DEF Used
  <2>2. n[i] = rf[i]
    BY <1>3
  <2> QED BY <2>1, <2>2 DEF Balanced
<1>4. CASE j = i
  <2>0a. Used(f2, D, i) = Used(f, D, i) \cup {s} /\ s \notin Used(f, D, i)
    BY <1>2, <1>4 DEF Used
  <2>1. Cardinality(Used(f2, D, i)) = Cardinality(Used(f, D, i)) + 1
    BY <2>0a, UsedFinite, FS_AddElement
  <2>2. n[i] = rf[i] + 1
    BY <1>4
  <2>4. rf[i] = 1 + Cardinality(Used(f, D, i)) + Cardinality(Used(g, E, i))
    BY <1>4 DEF Balanced
  <2>5. n[i] = 1 + Cardinality(Used(f2, D, i)) + Cardinality(Used(g, E, i))
    BY <1>1, <2>1, <2>2, <2>4
  <2> QED BY <2>5 DEF Balanced
<1> QED BY <1>3, <1>4

(* The same of the counters of all inodes.                                  *)
LEMMA UserParts ==
    ASSUME NEW io \in [Slots -> Inodes \cup {NULL}], NEW di \in [Blocks -> Inodes \cup {NULL}],
           NEW rf, UserPart(io, di, rf)
    PROVE  /\ \A s \in Slots : io[s] # NULL
                => UserPart([io EXCEPT ![s] = NULL], di, Unuse(rf, io[s]))
           /\ \A b \in Blocks : di[b] # NULL
                => UserPart(io, [di EXCEPT ![b] = NULL], Unuse(rf, di[b]))
           /\ \A s \in Slots, j \in Inodes : io[s] = NULL /\ rf[j] > 0
                => UserPart([io EXCEPT ![s] = j], di, [rf EXCEPT ![j] = @ + 1])
           /\ \A b \in Blocks, j \in Inodes : di[b] = NULL /\ rf[j] > 0
                => UserPart(io, [di EXCEPT ![b] = j], [rf EXCEPT ![j] = @ + 1])
<1>0. rf \in [Inodes -> Nat] /\ \A i \in Inodes : Balanced(rf[i], io, Slots, di, Blocks, i)
  BY DEF UserPart, Users
<1>1. IsFiniteSet(Slots) /\ IsFiniteSet(Blocks)
  BY SlotsFinite
<1>2. \A i \in Inodes : Balanced(rf[i], di, Blocks, io, Slots, i)
  BY <1>0, <1>1, BalancedEither
<1>3. ASSUME NEW s \in Slots, io[s] # NULL
      PROVE  UserPart([io EXCEPT ![s] = NULL], di, Unuse(rf, io[s]))
  <2>1. \A i \in Inodes : Balanced(Unuse(rf, io[s])[i], [io EXCEPT ![s] = NULL], Slots, di, Blocks, i)
    BY <1>0, <1>1, <1>3, UserLess
  <2>2. Unuse(rf, io[s]) \in [Inodes -> Nat]
    <3>1. io[s] \in Inodes
      BY <1>3
    <3> QED BY <1>0, <3>1, UnuseType
  <2> QED BY <2>1, <2>2 DEF UserPart, Users
<1>4. ASSUME NEW b \in Blocks, di[b] # NULL
      PROVE  UserPart(io, [di EXCEPT ![b] = NULL], Unuse(rf, di[b]))
  <2>1. \A i \in Inodes : Balanced(Unuse(rf, di[b])[i], [di EXCEPT ![b] = NULL], Blocks, io, Slots, i)
    BY <1>0, <1>1, <1>2, <1>4, UserLess
  <2>2. \A i \in Inodes : Balanced(Unuse(rf, di[b])[i], io, Slots, [di EXCEPT ![b] = NULL], Blocks, i)
    BY <1>1, <2>1, BalancedEither
  <2>3. Unuse(rf, di[b]) \in [Inodes -> Nat]
    <3>1. di[b] \in Inodes
      BY <1>4
    <3> QED BY <1>0, <3>1, UnuseType
  <2> QED BY <2>2, <2>3 DEF UserPart, Users
<1>5. ASSUME NEW s \in Slots, NEW j \in Inodes, io[s] = NULL, rf[j] > 0
      PROVE  UserPart([io EXCEPT ![s] = j], di, [rf EXCEPT ![j] = @ + 1])
  <2>1. \A i \in Inodes :
            Balanced([rf EXCEPT ![j] = @ + 1][i], [io EXCEPT ![s] = j], Slots, di, Blocks, i)
    BY <1>0, <1>1, <1>5, UserMore
  <2>2. [rf EXCEPT ![j] = @ + 1] \in [Inodes -> Nat]
    BY <1>0
  <2> QED BY <2>1, <2>2 DEF UserPart, Users
<1>6. ASSUME NEW b \in Blocks, NEW j \in Inodes, di[b] = NULL, rf[j] > 0
      PROVE  UserPart(io, [di EXCEPT ![b] = j], [rf EXCEPT ![j] = @ + 1])
  <2>1. \A i \in Inodes :
            Balanced([rf EXCEPT ![j] = @ + 1][i], [di EXCEPT ![b] = j], Blocks, io, Slots, i)
    BY <1>0, <1>1, <1>2, <1>6, UserMore
  <2>2. \A i \in Inodes :
            Balanced([rf EXCEPT ![j] = @ + 1][i], io, Slots, [di EXCEPT ![b] = j], Blocks, i)
    BY <1>1, <2>1, BalancedEither
  <2>3. [rf EXCEPT ![j] = @ + 1] \in [Inodes -> Nat]
    BY <1>0
  <2> QED BY <2>2, <2>3 DEF UserPart, Users
<1> QED BY <1>3, <1>4, <1>5, <1>6

(* An inode without users is all that mounts and unmounts change.           *)
LEMMA UserMount ==
    ASSUME NEW io, NEW di, NEW rf, UserPart(io, di, rf), NEW m \in Inodes,
           NEW n \in {0, 1}, rf[m] \in {0, 1}
    PROVE  UserPart(io, di, [rf EXCEPT ![m] = n])
<1>1. rf \in [Inodes -> Nat] /\ \A i \in Inodes : Balanced(rf[i], io, Slots, di, Blocks, i)
  BY DEF UserPart, Users
<1>2. /\ IsFiniteSet(Used(io, Slots, m)) /\ Cardinality(Used(io, Slots, m)) \in Nat
      /\ IsFiniteSet(Used(di, Blocks, m)) /\ Cardinality(Used(di, Blocks, m)) \in Nat
  BY UsedFinite, SlotsFinite
<1>3. Used(io, Slots, m) = {} /\ Used(di, Blocks, m) = {}
  <2>1. CASE rf[m] = 0 /\ Used(io, Slots, m) = {} /\ Used(di, Blocks, m) = {}
    BY <2>1
  <2>2. CASE rf[m] = 1 + Cardinality(Used(io, Slots, m)) + Cardinality(Used(di, Blocks, m))
    <3>1. Cardinality(Used(io, Slots, m)) = 0 /\ Cardinality(Used(di, Blocks, m)) = 0
      BY <1>2, <2>2
    <3> QED BY <1>2, <3>1, FS_EmptySet
  <2> QED BY <1>1, <2>1, <2>2 DEF Balanced
<1>4. Cardinality({}) = 0
  BY FS_EmptySet
<1>5. Balanced(n, io, Slots, di, Blocks, m)
  BY <1>3, <1>4 DEF Balanced
<1>6. \A i \in Inodes : Balanced([rf EXCEPT ![m] = n][i], io, Slots, di, Blocks, i)
  BY <1>1, <1>5
<1>7. [rf EXCEPT ![m] = n] \in [Inodes -> Nat]
  BY <1>1
<1> QED BY <1>6, <1>7 DEF UserPart, Users
-----------------------------------------------------------------------------
(* The inductive invariant: Data is what the files, directories and pipes   *)
(* are, Control where the processes are and what a call still has to open.  *)
Parts(h, io, pa, lk, di, dp, rr, wr, lv, rf) ==
    SlotPart(h, io, pa, lk) /\ DirPart(h, di, dp, lk) /\ PipePart(h, rr, wr, lv) /\ UserPart(io, di, rf)

Data ==
    held \in Tables
    /\ Parts(held, ino, path, leaked, dino, dpath, r_ref, w_ref, live, refs)

Labels == {"none", "new", "user", "call", "store", "abandon", "exit", "dead", "stuck", "lost"}

CallTypes ==
    /\ pc \in [Procs -> Labels] /\ todo \in [Procs -> SUBSET Items] /\ target \in [Procs -> Procs]
    /\ chosen \in [Procs -> Slots \cup {NULL}] /\ found \in [Procs -> Inodes \cup {NULL}]
    /\ dangling \in [Procs -> Blocks \cup {NULL}]

(* One process is in the kernel, the dead and the unborn have nothing, and  *)
(* only a call has something at NewKfd, NewCwd or Local.                    *)
Alone == \A p \in Procs, q \in Procs : pc[p] \in InKernel /\ pc[q] \in InKernel => p = q
Empty == \A p \in Procs : pc[p] \in {"none", "dead"} => \A x \in Places : held[p][x] = NULL
NoNew == \A p \in Procs :
            pc[p] \in {"user", "new"} => held[p][NewKfd] = NULL /\ held[p][NewCwd] = NULL /\ held[p][Local] = NULL
Cwds == \A p \in Procs : \A x \in {Cwd, NewCwd} : held[p][x] \in DirEntries \cup {NULL}

(* What a call has to open goes to places that are empty, one to each.      *)
Calling(p) ==
    /\ target[p] = p \/ pc[target[p]] = "new"
    /\ \A i \in todo[p] : i.at # Nowhere => held[target[p]][i.at] = NULL
    /\ \A i \in todo[p], j \in todo[p] : i.at = j.at => i = j
    /\ \A i \in todo[p] : i.at \in {Cwd, NewCwd} => i.type = "dir"
    /\ target[p] # p => \A i \in todo[p] : i.at \notin {NewKfd, NewCwd, Local}

(* The slot that vfs_open has chosen is still free, and the inode it has    *)
(* found still mounted.                                                     *)
Storing(p) ==
    /\ todo[p] # {} /\ Next1(p).type \in Files
    /\ chosen[p] \in Slots /\ ino[chosen[p]] = NULL
    /\ found[p] \in Inodes /\ refs[found[p]] > 0

Control ==
    /\ CallTypes /\ Alone /\ Empty /\ NoNew /\ Cwds
    /\ \A p \in Procs : pc[p] \in {"call", "store", "abandon"} => Calling(p)
    /\ \A p \in Procs : pc[p] = "store" => Storing(p)

LEMMA NullIsNone == NULL \notin FileEntries /\ NULL \notin DirEntries /\ NULL \notin EndEntries
BY DEF FileEntries, DirEntries, EndEntries, Entries

(* Closing what is at a place keeps the parts.                              *)
LEMMA ReleaseParts ==
    ASSUME Data, NEW p \in Procs, NEW x \in Places, held[p][x] # NULL, Release(p, x)
    PROVE  Parts(Put(held, p, x, NULL), ino', path', leaked', dino', dpath', r_ref', w_ref', live', refs')
<1> DEFINE e == held[p][x]
           h == Put(held, p, x, NULL)
<1>1. held \in Tables /\ e \in Entries /\ NULL \in Entries \cup {NULL}
  BY DEF Data, Tables
<1>2. /\ SlotPart(held, ino, path, leaked) /\ DirPart(held, dino, dpath, leaked)
      /\ PipePart(held, r_ref, w_ref, live) /\ UserPart(ino, dino, refs)
  BY DEF Data, Parts
<1>3. /\ e \notin FileEntries => SlotPart(h, ino, path, leaked)
      /\ e \notin DirEntries => DirPart(h, dino, dpath, leaked)
      /\ e \notin EndEntries => PipePart(h, r_ref, w_ref, live)
  BY <1>1, <1>2, NullIsNone, PartsOther
<1>4. /\ ino \in [Slots -> Inodes \cup {NULL}] /\ dino \in [Blocks -> Inodes \cup {NULL}]
  BY <1>2 DEF SlotPart, DirPart
<1>5. /\ e.type \in Files <=> e \in FileEntries
      /\ e.type = "dir" <=> e \in DirEntries
      /\ e.type \in Ends <=> e \in EndEntries
      /\ e.type = "file" => e.type \in Files
      /\ e.type \in Files => e.obj \in Slots
      /\ e.type = "dir" => e.obj \in Blocks
      /\ e.type \in Ends => e.obj \in Pipes
      /\ e.type \in Files => e \notin DirEntries /\ e \notin EndEntries
      /\ e.type = "dir" => e \notin FileEntries /\ e \notin EndEntries
      /\ e.type \in Ends => e \notin FileEntries /\ e \notin DirEntries
      /\ e.type = "none" => e \notin FileEntries /\ e \notin DirEntries /\ e \notin EndEntries
  BY <1>1, Kinds
<1> HIDE DEF h
<1>6. CASE /\ e.type \in Files /\ ~(x = Kfd /\ e.obj = 0)
           /\ CloseFile(e.obj)
           /\ UNCHANGED <<dirVars, pipeVars, leaked>>
  <2> DEFINE s == e.obj
  <2>1. s \in Slots /\ e \in FileEntries /\ held[p][x].obj = s
    BY <1>5, <1>6
  <2>2. /\ ino[s] # NULL
        /\ SlotPart(h, [ino EXCEPT ![s] = NULL], [path EXCEPT ![s] = IF s = 0 THEN @ ELSE NULL], leaked)
    BY <1>1, <1>2, <2>1, SlotDrop DEF h
  <2>3. /\ ino' = [ino EXCEPT ![s] = NULL] /\ path' = [path EXCEPT ![s] = IF s = 0 THEN @ ELSE NULL]
        /\ refs' = Unuse(refs, ino[s])
    BY <1>6, <2>2 DEF CloseFile, FreeFile, Unused, Unuse
  <2>4. UserPart([ino EXCEPT ![s] = NULL], dino, Unuse(refs, ino[s]))
    BY <1>2, <1>4, <2>1, <2>2, UserParts
  <2>5. DirPart(h, dino, dpath, leaked) /\ PipePart(h, r_ref, w_ref, live)
    BY <1>3, <1>5, <1>6
  <2> QED BY <1>6, <2>2, <2>3, <2>4, <2>5 DEF Parts, dirVars, pipeVars, h
<1>7. ASSUME /\ e.type \in {"file", "dir"}
             /\ leaked' = leaked \cup {e.obj}
             /\ UNCHANGED <<slotVars, refs, dirVars, pipeVars>>
      PROVE  Parts(h, ino', path', leaked', dino', dpath', r_ref', w_ref', live', refs')
  <2>1. CASE e.type = "file"
    <3>1. SlotPart(h, ino, path, leaked \cup {e.obj})
      BY <1>1, <1>2, <1>5, <2>1, SlotDrop DEF h
    <3>2. DirPart(h, dino, dpath, leaked) /\ PipePart(h, r_ref, w_ref, live) /\ e.obj \in Slots
      BY <1>3, <1>5, <2>1
    <3>3. DirPart(h, dino, dpath, leaked \cup {e.obj})
      BY <3>2, PartsApart
    <3> QED BY <1>2, <1>7, <3>1, <3>2, <3>3 DEF Parts, slotVars, dirVars, pipeVars
  <2>2. CASE e.type = "dir"
    <3>1. DirPart(h, dino, dpath, leaked \cup {e.obj})
      BY <1>1, <1>2, <1>5, <2>2, DirDrop DEF h
    <3>2. SlotPart(h, ino, path, leaked) /\ PipePart(h, r_ref, w_ref, live) /\ e.obj \in Blocks
      BY <1>3, <1>5, <2>2
    <3>3. SlotPart(h, ino, path, leaked \cup {e.obj})
      BY <3>2, PartsApart
    <3> QED BY <1>2, <1>7, <3>1, <3>2, <3>3 DEF Parts, slotVars, dirVars, pipeVars
  <2> QED BY <1>7, <2>1, <2>2
<1>8. CASE /\ e.type = "dir"
           /\ CloseDir(e.obj)
           /\ UNCHANGED <<slotVars, pipeVars, leaked>>
  <2> DEFINE b == e.obj
  <2>1. b \in Blocks /\ e \in DirEntries /\ held[p][x].obj = b
    BY <1>5, <1>8
  <2>2. dino[b] # NULL /\ DirPart(h, [dino EXCEPT ![b] = NULL], [dpath EXCEPT ![b] = NULL], leaked)
    BY <1>1, <1>2, <2>1, DirDrop DEF h
  <2>3. /\ dino' = [dino EXCEPT ![b] = NULL] /\ dpath' = [dpath EXCEPT ![b] = NULL]
        /\ refs' = Unuse(refs, dino[b])
    BY <1>8 DEF CloseDir, Unused, Unuse
  <2>4. UserPart(ino, [dino EXCEPT ![b] = NULL], Unuse(refs, dino[b]))
    BY <1>2, <1>4, <2>1, <2>2, UserParts
  <2>5. SlotPart(h, ino, path, leaked) /\ PipePart(h, r_ref, w_ref, live)
    BY <1>3, <1>5, <1>8
  <2> QED BY <1>8, <2>2, <2>3, <2>4, <2>5 DEF Parts, slotVars, pipeVars, h
<1>9. CASE /\ e.type \in Ends
           /\ ClosePipe(e.obj, e.type)
           /\ UNCHANGED <<slotVars, refs, dirVars, leaked>>
  <2>1. PipePart(h, r_ref', w_ref', live')
    BY <1>1, <1>2, <1>5, <1>9, EndDrop DEF h, ClosePipe
  <2>2. SlotPart(h, ino, path, leaked) /\ DirPart(h, dino, dpath, leaked)
    BY <1>3, <1>5, <1>9
  <2> QED BY <1>2, <1>9, <2>1, <2>2 DEF Parts, slotVars, dirVars, h
<1>10. CASE /\ e.type = "none"
            /\ UNCHANGED <<slotVars, refs, dirVars, pipeVars, leaked>>
  <2>1. SlotPart(h, ino, path, leaked) /\ DirPart(h, dino, dpath, leaked) /\ PipePart(h, r_ref, w_ref, live)
    BY <1>3, <1>5, <1>10
  <2> QED BY <1>2, <1>10, <2>1 DEF Parts, slotVars, dirVars, pipeVars, h
<1>11. CASE e.type \in {"file", "dir"} /\ leaked' = leaked \cup {e.obj}
             /\ UNCHANGED <<slotVars, refs, dirVars, pipeVars>>
  BY <1>7, <1>11 DEF h
<1> QED BY <1>6, <1>8, <1>9, <1>10, <1>11 DEF Release

LEMMA CloseAtData ==
    ASSUME Data, NEW p \in Procs, NEW x \in Places, CloseAt(p, x)
    PROVE  Data' /\ held' = Put(held, p, x, NULL)
<1>1. held[p][x] # NULL /\ held' = Put(held, p, x, NULL) /\ Release(p, x)
  BY DEF CloseAt, Put
<1>2. held' \in Tables
  BY <1>1, PutTable DEF Data
<1>3. Parts(held', ino', path', leaked', dino', dpath', r_ref', w_ref', live', refs')
  BY <1>1, ReleaseParts
<1> QED BY <1>1, <1>2, <1>3 DEF Data

LEMMA ReplaceData ==
    ASSUME Data, NEW p \in Procs, NEW new \in Places, NEW old \in Places, new # old,
           Replace(p, new, old)
    PROVE  Data'
<1> DEFINE g == Put(held, p, old, NULL)
<1>1. held \in Tables /\ g \in Tables /\ NULL \in Entries \cup {NULL}
      /\ g[p][old] = NULL /\ g[p][new] = held[p][new]
  BY PutTable DEF Data
<1>2. Parts(g, ino', path', leaked', dino', dpath', r_ref', w_ref', live', refs')
  <2>1. CASE held[p][old] # NULL /\ Release(p, old)
    BY <2>1, ReleaseParts
  <2>2. CASE /\ held[p][old] = NULL
             /\ UNCHANGED <<slotVars, dirVars, refs, pipeVars, leaked>>
    <3>1. g = held
      BY <1>1, <2>2 DEF Put, Tables
    <3> QED BY <2>2, <3>1 DEF Data, slotVars, dirVars, pipeVars
  <2> QED BY <2>1, <2>2 DEF Replace
<1>3. Parts(Moved(g, p, new, old), ino', path', leaked', dino', dpath', r_ref', w_ref', live', refs')
  BY <1>1, <1>2, PartsMove DEF Parts
<1>4. Moved(g, p, new, old) \in Tables
  <2>1. g[p][new] \in Entries \cup {NULL}
    BY <1>1 DEF Tables
  <2> HIDE DEF g
  <2>2. Put(g, p, new, NULL) \in Tables
    BY <1>1, PutTable
  <2>3. Put(Put(g, p, new, NULL), p, old, g[p][new]) \in Tables
    BY <2>1, <2>2, PutTable
  <2> QED BY <2>3 DEF Moved
<1>5. held' = Moved(g, p, new, old)
  <2>1. held' = [held EXCEPT ![p][old] = held[p][new], ![p][new] = NULL]
    BY DEF Replace
  <2>2. held' \in Tables
    BY <1>1, <2>1 DEF Tables
  <2>3. \A q \in Procs, y \in Places :
            held'[q][y] = IF q = p /\ y = new THEN NULL
                          ELSE IF q = p /\ y = old THEN held[p][new] ELSE held[q][y]
    BY <1>1, <2>1 DEF Tables
  <2>4. \A q \in Procs, y \in Places :
            Moved(g, p, new, old)[q][y] = IF q = p /\ y = new THEN NULL
                          ELSE IF q = p /\ y = old THEN held[p][new] ELSE held[q][y]
    BY <1>1 DEF Moved, Put, Tables
  <2> QED BY <1>4, <2>2, <2>3, <2>4 DEF Tables
<1> QED BY <1>3, <1>4, <1>5 DEF Data
(* What a call still has to open.                                           *)
LEMMA ItemKinds ==
    ASSUME NEW i \in Items
    PROVE  /\ i.at \in Places \/ i.at = Nowhere
           /\ i.type \in Files \/ i.type = "dir" \/ i.type \in Ends
           /\ i.type \in Files => i.type # "dir" /\ i.type \notin Ends /\ i.what \in Inodes
           /\ i.type = "dir" => i.type \notin Ends /\ i.what \in Inodes
           /\ i.type \in Ends => i.what \in Pipes /\ i.at # Nowhere
<1>1. Nowhere \notin Places
  BY DEF Nowhere, Places, Fds, Kfd, Cwd, NewKfd, NewCwd, Local
<1> QED BY <1>1 DEF Items, Item, Files, Ends

LEMMA NextItem ==
    ASSUME Control, NEW p \in Procs, pc[p] \in {"call", "store"}, todo[p] # {}
    PROVE  /\ Next1(p) \in todo[p] /\ Next1(p) \in Items /\ target[p] \in Procs
           /\ Next1(p).at # Nowhere => Next1(p).at \in Places /\ held[target[p]][Next1(p).at] = NULL
<1>1. todo[p] \in SUBSET Items /\ target[p] \in Procs
  BY DEF Control, CallTypes
<1>2. Next1(p) \in todo[p]
  BY <1>1, NextIn
<1>3. Calling(p)
  BY DEF Control
<1> QED BY <1>1, <1>2, <1>3, ItemKinds DEF Calling

LEMMA Resolved ==
    ASSUME NEW name, Resolve(name) # NULL, name \in Inodes
    PROVE  Resolve(name) \in Inodes /\ refs[Resolve(name)] > 0
BY DEF Resolve, Inodes

LEMMA StoreData ==
    ASSUME Data, Control, NEW p \in Procs, Store(p)
    PROVE  Data'
<1> DEFINE i == Next1(p)
           s == chosen[p]
           j == found[p]
           v == Entry(i.type, s)
           q == target[p]
<1>1. Storing(p) /\ pc[p] = "store"
  BY DEF Control, Store
<1>2. /\ i \in Items /\ q \in Procs /\ i.type \in Files /\ i.what \in Inodes
      /\ i.at # Nowhere => i.at \in Places /\ held[q][i.at] = NULL
      /\ s \in Slots /\ ino[s] = NULL /\ j \in Inodes /\ refs[j] > 0
  BY <1>1, NextItem, ItemKinds DEF Storing
<1>3. /\ held \in Tables /\ SlotPart(held, ino, path, leaked) /\ DirPart(held, dino, dpath, leaked)
      /\ PipePart(held, r_ref, w_ref, live) /\ UserPart(ino, dino, refs)
  BY DEF Data, Parts
<1>4. /\ ino' = [ino EXCEPT ![s] = j] /\ path' = [path EXCEPT ![s] = i.what]
      /\ refs' = [refs EXCEPT ![j] = @ + 1] /\ Placed(p, i, s)
      /\ UNCHANGED <<dirVars, pipeVars>>
  BY DEF Store
<1>5. /\ v \in Entries /\ v \notin DirEntries /\ v \notin EndEntries
  <2>1. v \in Entries /\ v.type \in Files
    BY <1>2 DEF Entry, Entries
  <2> HIDE DEF v
  <2> QED BY <2>1, Kinds
<1> HIDE DEF i, s, j, q
<1>6. UserPart(ino', dino', refs')
  <2>1. ino \in [Slots -> Inodes \cup {NULL}] /\ dino \in [Blocks -> Inodes \cup {NULL}]
    BY <1>3 DEF SlotPart, DirPart
  <2>2. UserPart([ino EXCEPT ![s] = j], dino, [refs EXCEPT ![j] = @ + 1])
    BY <1>2, <1>3, <2>1, UserParts
  <2> QED BY <1>4, <2>2 DEF dirVars
<1>7. CASE i.at = Nowhere
  <2>1. held' = held /\ leaked' = leaked \cup {s}
    BY <1>4, <1>7 DEF Placed
  <2>2. SlotPart(held, ino', path', leaked')
    BY <1>2, <1>3, <1>4, <2>1, SlotLose
  <2>3. DirPart(held, dino, dpath, leaked')
    BY <1>2, <1>3, <2>1, PartsApart
  <2> QED BY <1>3, <1>4, <1>6, <2>1, <2>2, <2>3 DEF Data, Parts, dirVars, pipeVars
<1>8. CASE i.at # Nowhere
  <2>1. held' = Put(held, q, i.at, v) /\ leaked' = leaked
    BY <1>4, <1>8 DEF Placed, Put, q
  <2>2. i.at \in Places /\ held[q][i.at] = NULL
    BY <1>2, <1>8
  <2>3. SlotPart(held', ino', path', leaked')
    BY <1>2, <1>3, <1>4, <2>1, <2>2, NullIsNone, SlotPlace
  <2> HIDE DEF v
  <2>4. DirPart(held', dino', dpath', leaked') /\ PipePart(held', r_ref', w_ref', live')
    BY <1>2, <1>3, <1>4, <1>5, <2>1, <2>2, NullIsNone, PartsOther DEF dirVars, pipeVars
  <2>5. held' \in Tables
    BY <1>2, <1>3, <1>5, <2>1, <2>2, PutTable
  <2> QED BY <1>6, <2>3, <2>4, <2>5 DEF Data, Parts
<1> QED BY <1>7, <1>8

LEMMA StoreFailsData ==
    ASSUME Data, Control, NEW p \in Procs, StoreFails(p)
    PROVE  Data'
<1> DEFINE s == chosen[p]
           n == IF s = 0 THEN Next1(p).what ELSE NULL
<1>1. Storing(p) /\ pc[p] = "store"
  BY DEF Control, StoreFails
<1>2. s \in Slots /\ ino[s] = NULL /\ Next1(p).what \in Inodes
  BY <1>1, NextItem, ItemKinds DEF Storing
<1>3. /\ held \in Tables /\ SlotPart(held, ino, path, leaked) /\ DirPart(held, dino, dpath, leaked)
      /\ PipePart(held, r_ref, w_ref, live) /\ UserPart(ino, dino, refs)
  BY DEF Data, Parts
<1>4. /\ ino' = [ino EXCEPT ![s] = NULL] /\ path' = [path EXCEPT ![s] = n]
      /\ UNCHANGED <<held, dirVars, refs, pipeVars, leaked>>
  BY DEF StoreFails
<1>5. n \in Inodes \cup {NULL} /\ (s = 0 => n \in Inodes)
  BY <1>2
<1> HIDE DEF s, n
<1>6. SlotPart(held, ino', path', leaked)
  BY <1>2, <1>3, <1>4, <1>5, SlotPath
<1>7. ino' = ino
  BY <1>2, <1>3, <1>4 DEF SlotPart
<1> QED BY <1>3, <1>4, <1>6, <1>7 DEF Data, Parts, dirVars, pipeVars

LEMMA OpenDirData ==
    ASSUME Data, Control, NEW p \in Procs, NEW b \in Blocks, OpenDir(p, b)
    PROVE  Data'
<1> DEFINE i == Next1(p)
           j == Resolve(i.what)
           v == Entry(i.type, b)
           q == target[p]
<1>1. pc[p] = "call" /\ todo[p] # {} /\ i.type = "dir"
  BY DEF OpenDir, Opening
<1>2. /\ i \in Items /\ q \in Procs /\ i.what \in Inodes
      /\ i.at # Nowhere => i.at \in Places /\ held[q][i.at] = NULL
  BY <1>1, NextItem, ItemKinds
<1>3. /\ held \in Tables /\ SlotPart(held, ino, path, leaked) /\ DirPart(held, dino, dpath, leaked)
      /\ PipePart(held, r_ref, w_ref, live) /\ UserPart(ino, dino, refs)
  BY DEF Data, Parts
<1>4. /\ j # NULL /\ dino[b] = NULL
      /\ dino' = [dino EXCEPT ![b] = j] /\ dpath' = [dpath EXCEPT ![b] = i.what]
      /\ refs' = [refs EXCEPT ![j] = @ + 1] /\ Placed(p, i, b)
      /\ UNCHANGED <<slotVars, pipeVars>>
  BY DEF OpenDir
<1>5. /\ v \in Entries /\ v \notin FileEntries /\ v \notin EndEntries
  <2>1. v \in Entries /\ v.type = "dir"
    BY <1>1 DEF Entry, Entries
  <2> HIDE DEF v
  <2> QED BY <2>1, Kinds
<1>6. j \in Inodes /\ refs[j] > 0
  BY <1>2, <1>4, Resolved
<1>7. v = Entry("dir", b) /\ v \in DirEntries
  BY <1>1 DEF DirEntries
<1> HIDE DEF i, j, q
<1>8. UserPart(ino', dino', refs')
  <2>1. ino \in [Slots -> Inodes \cup {NULL}] /\ dino \in [Blocks -> Inodes \cup {NULL}]
    BY <1>3 DEF SlotPart, DirPart
  <2>2. UserPart(ino, [dino EXCEPT ![b] = j], [refs EXCEPT ![j] = @ + 1])
    BY <1>3, <1>4, <1>6, <2>1, UserParts
  <2> QED BY <1>4, <2>2 DEF slotVars
<1>9. CASE i.at = Nowhere
  <2>1. held' = held /\ leaked' = leaked \cup {b}
    BY <1>4, <1>9 DEF Placed
  <2>2. DirPart(held, dino', dpath', leaked')
    BY <1>2, <1>3, <1>4, <1>6, <2>1, DirLose
  <2>3. SlotPart(held, ino, path, leaked')
    BY <1>3, <2>1, PartsApart
  <2> QED BY <1>3, <1>4, <1>8, <2>1, <2>2, <2>3 DEF Data, Parts, slotVars, pipeVars
<1>10. CASE i.at # Nowhere
  <2>1. held' = Put(held, q, i.at, v) /\ leaked' = leaked
    BY <1>4, <1>10 DEF Placed, Put, q
  <2>2. i.at \in Places /\ held[q][i.at] = NULL
    BY <1>2, <1>10
  <2>3. DirPart(held', dino', dpath', leaked')
    BY <1>2, <1>3, <1>4, <1>6, <1>7, <2>1, <2>2, NullIsNone, DirPlace
  <2> HIDE DEF v
  <2>4. SlotPart(held', ino', path', leaked') /\ PipePart(held', r_ref', w_ref', live')
    BY <1>2, <1>3, <1>4, <1>5, <2>1, <2>2, NullIsNone, PartsOther DEF slotVars, pipeVars
  <2>5. held' \in Tables
    BY <1>2, <1>3, <1>5, <2>1, <2>2, PutTable
  <2> QED BY <1>8, <2>3, <2>4, <2>5 DEF Data, Parts
<1> QED BY <1>9, <1>10

(* One more end of a pipe at an empty place.                                *)
LEMMA EndPlaced ==
    ASSUME NEW h \in Tables, NEW p \in Procs, NEW x \in Places, h[p][x] = NULL,
           NEW end \in Ends, NEW c \in Pipes
    PROVE  /\ Put(h, p, x, Entry(end, c)) \in Tables
           /\ \A io, pa, lk : SlotPart(h, io, pa, lk) => SlotPart(Put(h, p, x, Entry(end, c)), io, pa, lk)
           /\ \A di, dp, lk : DirPart(h, di, dp, lk) => DirPart(Put(h, p, x, Entry(end, c)), di, dp, lk)
<1> DEFINE v == Entry(end, c)
<1>1. v \in Entries \cup {NULL} /\ v \notin FileEntries /\ v \notin DirEntries
  <2>1. v \in Entries /\ v.type \in Ends
    BY DEF Entry, Entries
  <2> HIDE DEF v
  <2> QED BY <2>1, Kinds
<1> HIDE DEF v
<1>2. Put(h, p, x, v) \in Tables
  BY <1>1, PutTable
<1>3. \A io, pa, lk : SlotPart(h, io, pa, lk) => SlotPart(Put(h, p, x, v), io, pa, lk)
  BY <1>1, NullIsNone, PartsOther
<1>4. \A di, dp, lk : DirPart(h, di, dp, lk) => DirPart(Put(h, p, x, v), di, dp, lk)
  BY <1>1, NullIsNone, PartsOther
<1> QED BY <1>2, <1>3, <1>4 DEF v

LEMMA SharePipeData ==
    ASSUME Data, Control, NEW p \in Procs, SharePipe(p)
    PROVE  Data'
<1> DEFINE i == Next1(p)
           q == target[p]
<1>1. pc[p] = "call" /\ todo[p] # {} /\ i.type \in Ends
  BY DEF SharePipe, Opening
<1>2. /\ q \in Procs /\ i.what \in Pipes /\ i.at # Nowhere /\ i.at \in Places /\ held[q][i.at] = NULL
  BY <1>1, NextItem, ItemKinds
<1>3. /\ held \in Tables /\ SlotPart(held, ino, path, leaked) /\ DirPart(held, dino, dpath, leaked)
      /\ PipePart(held, r_ref, w_ref, live) /\ UserPart(ino, dino, refs)
  BY DEF Data, Parts
<1>4. /\ i.what \in live
      /\ r_ref' = [r_ref EXCEPT ![i.what] = IF i.type = "in" THEN @ + 1 ELSE @]
      /\ w_ref' = [w_ref EXCEPT ![i.what] = IF i.type = "out" THEN @ + 1 ELSE @]
      /\ Placed(p, i, i.what)
      /\ UNCHANGED <<slotVars, dirVars, refs, live>>
  BY DEF SharePipe, MorePipe
<1>5. held' = Put(held, q, i.at, Entry(i.type, i.what)) /\ leaked' = leaked
  BY <1>2, <1>4 DEF Placed, Put
<1> HIDE DEF i, q
<1>6. PipePart(held', r_ref', w_ref', live \cup {i.what})
  BY <1>1, <1>2, <1>3, <1>4, <1>5, NullIsNone, EndAdd
<1>7. live \cup {i.what} = live'
  BY <1>4
<1>8. held' \in Tables /\ SlotPart(held', ino, path, leaked) /\ DirPart(held', dino, dpath, leaked)
  BY <1>1, <1>2, <1>3, <1>5, EndPlaced
<1> QED BY <1>3, <1>4, <1>5, <1>6, <1>7, <1>8 DEF Data, Parts, slotVars, dirVars

(* The two descriptors that pipe2 takes.                                    *)
LEMMA Pipe2Fds ==
    ASSUME NEW p \in Procs, NEW c \in Pipes, Pipe2(p, c)
    PROVE  \E r \in Fds, w \in Fds :
                /\ r # w /\ held[p][r] = NULL /\ held[p][w] = NULL
                /\ held' = [held EXCEPT ![p][r] = Entry("in", c), ![p][w] = Entry("out", c)]
<1> DEFINE r == NewFd(p)
           w == Lowest(Gaps(p) \ {r})
<1>1. Gaps(p) \in SUBSET Nat /\ Gaps(p) \in SUBSET Fds /\ \A x \in Gaps(p) : held[p][x] = NULL
  BY DEF Gaps, Fds, OpenFds
<1>2. Cardinality(Gaps(p)) > 1
  BY DEF Pipe2
<1>3. Gaps(p) # {}
  <2>1. Gaps(p) = {} => Cardinality(Gaps(p)) = 0
    BY FS_EmptySet
  <2>2. ~(0 > 1)
    OBVIOUS
  <2> QED BY <1>2, <2>1, <2>2
<1>4. r \in Gaps(p)
  BY <1>1, <1>3, LowestOf DEF NewFd
<1>5. held' = [held EXCEPT ![p][r] = Entry("in", c), ![p][w] = Entry("out", c)]
  BY DEF Pipe2
<1> HIDE DEF r
<1>6. Gaps(p) # {r}
  <2>1. Cardinality({r}) = 1
    BY FS_Singleton
  <2> QED BY <1>2, <2>1
<1>7. Gaps(p) \ {r} \in SUBSET Nat /\ Gaps(p) \ {r} # {}
  BY <1>1, <1>4, <1>6
<1>8. w \in Gaps(p) \ {r}
  BY <1>7, LowestOf
<1> HIDE DEF w
<1> QED BY <1>1, <1>4, <1>5, <1>8

LEMMA Pipe2Data ==
    ASSUME Data, NEW p \in Procs, NEW c \in Pipes, Pipe2(p, c)
    PROVE  Data'
<1>1. /\ held \in Tables /\ SlotPart(held, ino, path, leaked) /\ DirPart(held, dino, dpath, leaked)
      /\ PipePart(held, r_ref, w_ref, live) /\ UserPart(ino, dino, refs)
  BY DEF Data, Parts
<1>2. PICK r \in Fds, w \in Fds :
            /\ r # w /\ held[p][r] = NULL /\ held[p][w] = NULL
            /\ held' = [held EXCEPT ![p][r] = Entry("in", c), ![p][w] = Entry("out", c)]
  BY Pipe2Fds
<1>3. Fds \subseteq Places
  BY DEF Places
<1> DEFINE h == Put(held, p, r, Entry("in", c))
           rr == [r_ref EXCEPT ![c] = @ + 1]
<1>4. /\ c \notin live
      /\ r_ref' = [r_ref EXCEPT ![c] = 1] /\ w_ref' = [w_ref EXCEPT ![c] = 1]
      /\ live' = live \cup {c}
      /\ UNCHANGED <<slotVars, dirVars, refs, leaked>>
  BY DEF Pipe2
<1>5. held' = Put(h, p, w, Entry("out", c))
  BY <1>2 DEF Put
<1>6. "in" \in Ends /\ "out" \in Ends /\ r \in Places /\ w \in Places
      /\ held[p][r] = NULL
  BY <1>2, <1>3 DEF Ends
<1>7. /\ h \in Tables /\ SlotPart(h, ino, path, leaked) /\ DirPart(h, dino, dpath, leaked)
  BY <1>1, <1>6, EndPlaced
<1>8. h[p][w] = NULL
  <2>1. Entry("in", c) \in Entries \cup {NULL}
    BY DEF Entries, Ends
  <2>2. h[p][w] = held[p][w]
    BY <1>1, <1>2, <1>6, <2>1, PutTable
  <2> QED BY <1>2, <2>2
<1>9. PipePart(h, [r_ref EXCEPT ![c] = @ + 1], w_ref, live \cup {c})
  <2>1. w_ref = [w_ref EXCEPT ![c] = IF "in" = "out" THEN @ + 1 ELSE @]
    BY <1>1 DEF PipePart
  <2>2. [r_ref EXCEPT ![c] = @ + 1] = [r_ref EXCEPT ![c] = IF "in" = "in" THEN @ + 1 ELSE @]
    OBVIOUS
  <2> QED BY <1>1, <1>6, <2>1, <2>2, NullIsNone, EndAdd
<1>10. PipePart(held', rr, [w_ref EXCEPT ![c] = @ + 1], (live \cup {c}) \cup {c})
  <2> HIDE DEF h
  <2>1. rr = [rr EXCEPT ![c] = IF "out" = "in" THEN @ + 1 ELSE @]
    BY <1>9 DEF PipePart
  <2> HIDE DEF rr
  <2>2. [w_ref EXCEPT ![c] = @ + 1] = [w_ref EXCEPT ![c] = IF "out" = "out" THEN @ + 1 ELSE @]
    OBVIOUS
  <2>3. PipePart(h, rr, w_ref, live \cup {c})
    BY <1>9 DEF rr
  <2> QED BY <1>5, <1>6, <1>7, <1>8, <2>1, <2>2, <2>3, NullIsNone, EndAdd
<1>11. r_ref[c] = 0 /\ w_ref[c] = 0
  <2>1. r_ref[c] \in Nat /\ w_ref[c] \in Nat /\ ~(r_ref[c] > 0) /\ ~(w_ref[c] > 0)
    BY <1>1, <1>4 DEF PipePart
  <2> QED BY <2>1
<1>12. /\ rr = r_ref' /\ [w_ref EXCEPT ![c] = @ + 1] = w_ref'
       /\ (live \cup {c}) \cup {c} = live'
  BY <1>1, <1>4, <1>11 DEF PipePart
<1>13. PipePart(held', r_ref', w_ref', live')
  BY <1>10, <1>12
<1> HIDE DEF h
<1>14. /\ held' \in Tables /\ SlotPart(held', ino, path, leaked) /\ DirPart(held', dino, dpath, leaked)
  BY <1>5, <1>6, <1>7, <1>8, EndPlaced
<1> QED BY <1>1, <1>4, <1>13, <1>14 DEF Data, Parts, slotVars, dirVars

LEMMA MountData ==
    ASSUME Data, NEW p \in Procs, NEW m \in Mounts, Mount(p, m) \/ Umount(p, m)
    PROVE  Data'
<1>1. /\ held \in Tables /\ SlotPart(held, ino, path, leaked) /\ DirPart(held, dino, dpath, leaked)
      /\ PipePart(held, r_ref, w_ref, live) /\ UserPart(ino, dino, refs)
  BY DEF Data, Parts
<1>2. m \in Inodes /\ refs[m] \in Nat
  BY <1>1 DEF Inodes, UserPart
<1>3. UNCHANGED <<held, slotVars, dirVars, pipeVars, leaked>>
  BY DEF Mount, Umount
<1>4. UserPart(ino, dino, refs')
  <2>1. CASE Mount(p, m)
    BY <1>1, <1>2, <2>1, UserMount DEF Mount
  <2>2. CASE Umount(p, m)
    <3>1. refs[m] \in {0, 1}
      BY <1>2, <2>2 DEF Umount, Busy
    <3>2. refs' = [refs EXCEPT ![m] = 0]
      BY <2>2 DEF Umount
    <3> QED BY <1>1, <1>2, <3>1, <3>2, UserMount
  <2> QED BY <2>1, <2>2
<1> QED BY <1>1, <1>3, <1>4 DEF Data, Parts, slotVars, dirVars, pipeVars

(* The second vfs_closedir of a working directory that the first has left.  *)
LEMMA ReapData ==
    ASSUME Data, Control, NEW p \in Procs, NEW q \in Procs, Reap(p, q)
    PROVE  Data'
<1>1. /\ held \in Tables /\ SlotPart(held, ino, path, leaked) /\ DirPart(held, dino, dpath, leaked)
      /\ PipePart(held, r_ref, w_ref, live) /\ UserPart(ino, dino, refs)
  BY DEF Data, Parts
<1>2. UNCHANGED <<held, slotVars, pipeVars>>
  BY DEF Reap
<1>3. CASE UNCHANGED <<dirVars, refs, leaked>>
  BY <1>1, <1>2, <1>3 DEF Data, Parts, slotVars, dirVars, pipeVars
<1> DEFINE b == dangling[q]
<1>4. CASE b \in leaked /\ CloseDir(b) /\ leaked' = leaked \ {b}
  <2>1. b \in Blocks
    <3>1. b \in Slots \cup Blocks
      BY <1>1, <1>4 DEF SlotPart
    <3>2. NULL \notin Slots \cup Blocks
      BY DEF Slots
    <3>3. b \in Blocks \cup {NULL}
      BY DEF Control, CallTypes
    <3> QED BY <3>1, <3>2, <3>3
  <2> HIDE DEF b
  <2>2. /\ dino[b] # NULL
        /\ DirPart(held, [dino EXCEPT ![b] = NULL], [dpath EXCEPT ![b] = NULL], leaked')
    BY <1>1, <1>4, <2>1, DirFound
  <2>3. /\ dino' = [dino EXCEPT ![b] = NULL] /\ dpath' = [dpath EXCEPT ![b] = NULL]
        /\ refs' = Unuse(refs, dino[b])
    BY <1>4 DEF CloseDir, Unused, Unuse
  <2>4. ino \in [Slots -> Inodes \cup {NULL}] /\ dino \in [Blocks -> Inodes \cup {NULL}]
    BY <1>1 DEF SlotPart, DirPart
  <2>5. UserPart(ino, [dino EXCEPT ![b] = NULL], Unuse(refs, dino[b]))
    BY <1>1, <2>1, <2>2, <2>4, UserParts
  <2>6. SlotPart(held, ino, path, leaked')
    BY <1>1, <1>4, <2>1, PartsApart
  <2> QED BY <1>1, <1>2, <2>2, <2>3, <2>5, <2>6 DEF Data, Parts, slotVars, pipeVars
<1> QED BY <1>3, <1>4 DEF Reap
-----------------------------------------------------------------------------
(* What the steps do, by what they change.                                  *)
LEMMA StepEffects ==
    ASSUME NEW p \in Procs, Step(p)
    PROVE  \/ UNCHANGED <<held, untouched>>
           \/ \E x \in Places : CloseAt(p, x)
           \/ Replace(p, NewKfd, Kfd) \/ Replace(p, NewCwd, Cwd)
           \/ Store(p) \/ StoreFails(p) \/ SharePipe(p)
           \/ \E b \in Blocks : OpenDir(p, b)
           \/ \E c \in Pipes : Pipe2(p, c)
           \/ \E m \in Mounts : Mount(p, m) \/ Umount(p, m)
           \/ \E q \in Procs : Reap(p, q)
<1>1. CASE \/ \E n \in Names, type \in {"file", "dir"} :
                    Open(p, type, n) \/ OpenFault(p, type, n) \/ Look(p, type, n)
           \/ \E n \in Names : Chdir(p, n) \/ Exec(p, n)
           \/ OpenDotFails(p)
           \/ \E fd \in Fds : Dup(p, fd)
           \/ \E q \in Procs, mapped \in {{}} \cup {{n} : n \in Names} :
                    Clone(p, q, mapped) \/ \E name \in Names \cup {Dev} : CloneFault(p, q, name, mapped)
  BY <1>1 DEF Open, Chdir, Exec, OpenFault, Look, OpenDotFails, CloneFault, Dup, Clone, MakeChild
<1>2. CASE \/ OpenFails(p) \/ Choose(p) \/ OpenDirFails(p) \/ ExecWithoutDir(p) \/ ShareFreed(p)
           \/ Abandon(p) \/ Return(p) \/ Exit(p) \/ ExitDone(p)
           \/ \E q \in Procs : ReapClosesOther(p, q)
  BY <1>2 DEF OpenFails, NotOpened, Choose, OpenDirFails, ExecWithoutDir, ShareFreed, Abandon,
              Return, Exit, ExitDone, ReapClosesOther, untouched, slotVars, dirVars, pipeVars
<1>3. /\ Fds \subseteq Places /\ NewKfd \in Places /\ NewCwd \in Places
      /\ Cwd \in Places /\ Kfd \in Places /\ Local \in Places
  BY DEF Places
<1>4. ASSUME NEW fd \in Fds, NEW fd2 \in Fds, Dup2(p, fd, fd2)
      PROVE  CloseAt(p, fd2) \/ UNCHANGED <<held, untouched>>
  BY <1>4 DEF Dup2
<1>5. CASE \/ \E fd \in Fds : Close(p, fd)
           \/ AbandonClose(p, NewKfd) \/ AbandonClose(p, NewCwd)
           \/ ExitCwd(p) \/ ExitKfd(p) \/ LookDone(p)
  BY <1>3, <1>5 DEF Close, AbandonClose, ExitCwd, ExitKfd, LookDone
<1>6. ASSUME ExitClose(p) PROVE \E x \in Places : CloseAt(p, x)
  <2>1. OpenFds(p) \in SUBSET Nat /\ OpenFds(p) # {}
    BY <1>6 DEF ExitClose, OpenFds, Fds
  <2>2. Lowest(OpenFds(p)) \in OpenFds(p)
    BY <2>1, LowestOf
  <2> QED BY <1>3, <1>6, <2>2 DEF ExitClose, OpenFds
<1> QED BY <1>1, <1>2, <1>3, <1>4, <1>5, <1>6 DEF Step

LEMMA DataStep ==
    ASSUME Data, Control, NEW p \in Procs, Step(p)
    PROVE  Data'
<1>1. CASE UNCHANGED <<held, untouched>>
  BY <1>1 DEF Data, untouched, slotVars, dirVars, pipeVars
<1>2. NewKfd \in Places /\ Kfd \in Places /\ NewKfd # Kfd
      /\ NewCwd \in Places /\ Cwd \in Places /\ NewCwd # Cwd
  BY DEF Places, NewKfd, Kfd, NewCwd, Cwd
<1> QED
  BY <1>1, <1>2, StepEffects, CloseAtData, ReplaceData, StoreData, StoreFailsData, SharePipeData,
     OpenDirData, Pipe2Data, MountData, ReapData

(* A slot or directory that is used before and after a step is the same.    *)
SameSlot(s) == ino[s] = NULL \/ ino'[s] = NULL \/ (ino'[s] = ino[s] /\ path'[s] = path[s])
SameDir(b) == dino[b] = NULL \/ dino'[b] = NULL \/ (dino'[b] = dino[b] /\ dpath'[b] = dpath[b])
Frame == (\A s \in Slots : SameSlot(s)) /\ (\A b \in Blocks : SameDir(b))

LEMMA FrameStep ==
    ASSUME Data, Control, NEW p \in Procs, Step(p)
    PROVE  Frame
<1>1. /\ ino \in [Slots -> Inodes \cup {NULL}] /\ path \in [Slots -> Inodes \cup {NULL}]
      /\ dino \in [Blocks -> Inodes \cup {NULL}] /\ dpath \in [Blocks -> Inodes \cup {NULL}]
  BY DEF Data, Parts, SlotPart, DirPart
<1>2. ASSUME NEW x, Release(p, x) PROVE Frame
  <2>1. ASSUME NEW s, CloseFile(s), UNCHANGED dirVars PROVE Frame
    <3>1. \A t \in Slots : t # s => ino'[t] = ino[t] /\ path'[t] = path[t]
      BY <1>1, <2>1 DEF CloseFile, FreeFile, slotVars
    <3>2. s \in Slots => ino'[s] = NULL
      BY <1>1, <2>1 DEF CloseFile, FreeFile, slotVars
    <3>3. \A t \in Slots : SameSlot(t)
      BY <3>1, <3>2 DEF SameSlot
    <3>4. \A t \in Blocks : SameDir(t)
      BY <2>1 DEF SameDir, dirVars
    <3> QED BY <3>3, <3>4 DEF Frame
  <2>2. ASSUME NEW b, CloseDir(b), UNCHANGED slotVars PROVE Frame
    <3>1. \A t \in Blocks : t # b => dino'[t] = dino[t] /\ dpath'[t] = dpath[t]
      BY <1>1, <2>2 DEF CloseDir
    <3>2. b \in Blocks => dino'[b] = NULL
      BY <1>1, <2>2 DEF CloseDir
    <3>3. \A t \in Blocks : SameDir(t)
      BY <3>1, <3>2 DEF SameDir
    <3>4. \A t \in Slots : SameSlot(t)
      BY <2>2 DEF SameSlot, slotVars
    <3> QED BY <3>3, <3>4 DEF Frame
  <2>3. ASSUME UNCHANGED <<slotVars, dirVars>> PROVE Frame
    BY <2>3 DEF Frame, SameSlot, SameDir, dirVars, slotVars
  <2> QED BY <1>2, <2>1, <2>2, <2>3 DEF Release
<1>3. CASE UNCHANGED <<slotVars, dirVars>>
  BY <1>3 DEF Frame, SameSlot, SameDir, slotVars, dirVars
<1>4. ASSUME NEW x \in Places, CloseAt(p, x) PROVE Frame
  BY <1>2, <1>4 DEF CloseAt
<1>5. ASSUME NEW new, NEW old, Replace(p, new, old) PROVE Frame
  BY <1>2, <1>3, <1>5 DEF Replace
<1>6. CASE Store(p)
  <2>1. ino[chosen[p]] = NULL
    BY <1>6 DEF Control, Store, Storing
  <2>2. \A t \in Slots : t # chosen[p] => ino'[t] = ino[t] /\ path'[t] = path[t]
    BY <1>1, <1>6 DEF Store
  <2>3. UNCHANGED dirVars
    BY <1>6 DEF Store
  <2>4. \A t \in Slots : SameSlot(t)
    BY <2>1, <2>2 DEF SameSlot
  <2>5. \A b \in Blocks : SameDir(b)
    BY <2>3 DEF SameDir, dirVars
  <2> QED BY <2>4, <2>5 DEF Frame
<1>7. CASE StoreFails(p)
  <2>1. \A t \in Slots : t # chosen[p] => ino'[t] = ino[t] /\ path'[t] = path[t]
    BY <1>1, <1>7 DEF StoreFails
  <2>2. chosen[p] \in Slots => ino'[chosen[p]] = NULL
    BY <1>1, <1>7 DEF StoreFails
  <2>3. UNCHANGED dirVars
    BY <1>7 DEF StoreFails
  <2>4. \A t \in Slots : SameSlot(t)
    BY <2>1, <2>2 DEF SameSlot
  <2>5. \A b \in Blocks : SameDir(b)
    BY <2>3 DEF SameDir, dirVars
  <2> QED BY <2>4, <2>5 DEF Frame
<1>8. ASSUME NEW b \in Blocks, OpenDir(p, b) PROVE Frame
  <2>1. \A t \in Blocks : t # b => dino'[t] = dino[t] /\ dpath'[t] = dpath[t]
    BY <1>1, <1>8 DEF OpenDir
  <2>2. dino[b] = NULL /\ UNCHANGED slotVars
    BY <1>8 DEF OpenDir
  <2>3. \A t \in Blocks : SameDir(t)
    BY <2>1, <2>2 DEF SameDir
  <2>4. \A s \in Slots : SameSlot(s)
    BY <2>2 DEF SameSlot, slotVars
  <2> QED BY <2>3, <2>4 DEF Frame
<1>10. ASSUME NEW q \in Procs, Reap(p, q) PROVE Frame
  <2>1. UNCHANGED slotVars
    BY <1>10 DEF Reap
  <2>2. CASE CloseDir(dangling[q])
    <3>1. \A t \in Blocks : dino'[t] = NULL \/ (dino'[t] = dino[t] /\ dpath'[t] = dpath[t])
      BY <1>1, <2>2 DEF CloseDir
    <3> QED BY <2>1, <3>1 DEF Frame, SameSlot, SameDir, slotVars
  <2> QED BY <1>3, <1>10, <2>1, <2>2 DEF Reap
<1>9. ASSUME \/ SharePipe(p) \/ \E c \in Pipes : Pipe2(p, c)
             \/ \E m \in Mounts : Mount(p, m) \/ Umount(p, m)
             \/ UNCHANGED <<held, untouched>>
      PROVE  UNCHANGED <<slotVars, dirVars>>
  BY <1>9 DEF SharePipe, Pipe2, Mount, Umount, untouched
<1> QED BY <1>3, <1>4, <1>5, <1>6, <1>7, <1>8, <1>9, <1>10, StepEffects

-----------------------------------------------------------------------------
(* On one hart nobody else is in the kernel while p makes a step.           *)
LEMMA OthersOut ==
    ASSUME HartNum = 1, Control, NEW p \in Procs, Step(p)
    PROVE  \A q \in Procs : q # p => pc[q] \notin InKernel
<1>1. CanCall(p) \/ pc[p] \in InKernel
  BY DEF Step, Mount, Umount, Open, Chdir, Exec, OpenFault, Look, LookDone, OpenDotFails, CloneFault,
         Close, Dup, Dup2, Pipe2, Clone, MakeChild, OpenFails, Choose, Store, StoreFails, OpenDirFails, ExecWithoutDir, OpenDir,
         SharePipe, ShareFreed, Opening, Replace, Abandon, AbandonClose, Return, Exit, ExitClose,
         ExitCwd, ExitKfd, ExitDone, Reap, ReapClosesOther, InKernel
<1>2. CASE CanCall(p)
  <2> DEFINE K == {q \in Procs : pc[q] \in InKernel}
  <2>1. Cardinality(K) < 1
    BY <1>2 DEF CanCall, HartFree
  <2>2. IsFiniteSet(K) /\ Cardinality(K) \in Nat
    BY FS_Subset, FS_CardinalityType
  <2> HIDE DEF K
  <2>3. Cardinality(K) = 0
    BY <2>1, <2>2
  <2>4. K = {}
    BY <2>2, <2>3, FS_EmptySet
  <2> QED BY <2>4 DEF K
<1>3. CASE pc[p] \in InKernel
  BY <1>3 DEF Control, Alone
<1> QED BY <1>1, <1>2, <1>3

(* So Control is about p, and about what all hold.                          *)
LEMMA ControlOf ==
    ASSUME NEW p \in Procs, \A q \in Procs : q # p => pc'[q] \notin InKernel,
           CallTypes', Empty', NoNew', Cwds',
           pc'[p] \in {"call", "store", "abandon"} => Calling(p)',
           pc'[p] = "store" => Storing(p)'
    PROVE  Control'
<1>1. Alone'
  BY DEF Alone
<1>2. {"call", "store", "abandon"} \subseteq InKernel
  BY DEF InKernel
<1>3. \A q \in Procs : pc'[q] \in {"call", "store", "abandon"} => Calling(q)'
  BY <1>2
<1>4. \A q \in Procs : pc'[q] = "store" => Storing(q)'
  BY <1>2
<1> QED BY <1>1, <1>3, <1>4 DEF Control
LEMMA PlaceNames ==
    /\ Fds \subseteq Places /\ Fds \subseteq Nat /\ Nowhere \notin Places
    /\ Kfd \in Places /\ Cwd \in Places
    /\ NewKfd \in Places /\ NewCwd \in Places /\ Local \in Places
    /\ Kfd \notin Fds /\ Cwd \notin Fds
    /\ NewKfd \notin Fds /\ NewCwd \notin Fds /\ Local \notin Fds
    /\ Kfd # Cwd /\ Kfd # NewKfd /\ Kfd # NewCwd /\ Cwd # NewKfd /\ Cwd # NewCwd /\ NewKfd # NewCwd
    /\ Local # Kfd /\ Local # Cwd /\ Local # NewKfd /\ Local # NewCwd
BY DEF Places, Fds, Kfd, Cwd, NewKfd, NewCwd, Local, Nowhere

LEMMA ItemsIn ==
    /\ \A x \in Places, type \in Files \cup {"dir"}, i \in Inodes :
            Item(x, type, i) \in Items /\ Item(x, type, i).at = x /\ Item(x, type, i).type = type
    /\ \A x \in Places, end \in Ends, c \in Pipes :
            Item(x, end, c) \in Items /\ Item(x, end, c).at = x /\ Item(x, end, c).type = end
    /\ \A type \in {"file", "dir"}, i \in Inodes :
            /\ Item(Nowhere, type, i) \in Items /\ Item(Nowhere, type, i).at = Nowhere
            /\ Item(Nowhere, type, i).type = type
<1>1. \A x \in Places, type \in Files \cup {"dir"}, i \in Inodes : Item(x, type, i) \in Items
  BY DEF Items
<1>2. \A x \in Places, end \in Ends, c \in Pipes : Item(x, end, c) \in Items
  BY DEF Items
<1>3. \A type \in {"file", "dir"}, i \in Inodes : Item(Nowhere, type, i) \in Items
  BY DEF Items
<1>4. \A x, type, i : Item(x, type, i).at = x /\ Item(x, type, i).type = type
  BY DEF Item
<1> QED BY <1>1, <1>2, <1>3, <1>4

(* What a place holds can be opened again by what is known of it.           *)
LEMMA AgainItem ==
    ASSUME Data, NEW p \in Procs, NEW y \in Places, held[p][y] # NULL, NEW x \in Places
    PROVE  /\ Again(x, held[p][y]) \in Items /\ Again(x, held[p][y]).at = x
           /\ held[p][y] \in DirEntries => Again(x, held[p][y]).type = "dir"
<1> DEFINE e == held[p][y]
<1>1. /\ held \in Tables /\ SlotPart(held, ino, path, leaked) /\ DirPart(held, dino, dpath, leaked)
  BY DEF Data, Parts
<1>2. e \in Entries
  BY <1>1 DEF Tables
<1>3. CASE e.type \in Ends
  <2>1. e.obj \in Pipes /\ e \notin DirEntries
    BY <1>2, <1>3, Kinds
  <2> QED BY <1>3, <2>1, ItemsIn DEF Again
<1>4. CASE e.type = "dir"
  <2>1. e.obj \in Blocks /\ e.type \notin Ends /\ e \in Kind({"dir"}, e.obj)
    BY <1>2, <1>4, Kinds, InKind
  <2>2. dino[e.obj] # NULL
    BY <1>1, <2>1, OwnedBy DEF DirPart
  <2>3. dpath[e.obj] \in Inodes
    BY <1>1, <2>1, <2>2 DEF DirPart
  <2> QED BY <1>4, <2>1, <2>3, ItemsIn DEF Again
<1>5. CASE e.type \in Files
  <2>1. /\ e.obj \in Slots /\ e.type \notin Ends /\ e.type # "dir" /\ e \notin DirEntries
        /\ e \in Kind(Files, e.obj)
    BY <1>2, <1>5, Kinds, InKind
  <2>2. ino[e.obj] # NULL
    BY <1>1, <2>1, OwnedBy DEF SlotPart
  <2>3. path[e.obj] \in Inodes
    BY <1>1, <2>1, <2>2 DEF SlotPart
  <2>4. (IF e.type = "std" THEN "std" ELSE "file") \in Files
    BY DEF Files
  <2> QED BY <2>1, <2>3, <2>4, ItemsIn DEF Again
<1>6. CASE e.type = "none"
  <2>1. e.type \notin Ends /\ e.type # "dir" /\ e \notin DirEntries /\ e = NoKfd
    BY <1>2, <1>6, Kinds
  <2>2. e.obj = 0 /\ e.type # "std"
    BY <2>1 DEF NoKfd, Entry
  <2>3. path[0] \in Inodes
    BY <1>1 DEF SlotPart
  <2>4. "file" \in Files
    BY DEF Files
  <2> QED BY <2>1, <2>2, <2>3, <2>4, ItemsIn DEF Again
<1> QED BY <1>2, <1>3, <1>4, <1>5, <1>6, Kinds

(* The beginning of a call.                                                 *)
Fits(h, p, q, items) ==
    /\ \A i \in items : i.at # Nowhere => h[q][i.at] = NULL
    /\ \A i \in items, j \in items : i.at = j.at => i = j
    /\ \A i \in items : i.at \in {Cwd, NewCwd} => i.type = "dir"
    /\ q # p => \A i \in items : i.at \notin {NewKfd, NewCwd, Local}

LEMMA CallControl ==
    ASSUME Control, NEW p \in Procs, NEW q \in Procs, NEW items \in SUBSET Items,
           todo' = [todo EXCEPT ![p] = items], target' = [target EXCEPT ![p] = q],
           UNCHANGED <<chosen, found, dangling>>,
           pc' \in [Procs -> Labels], pc'[p] = "call", q = p \/ pc'[q] = "new",
           \A r \in Procs : r # p => pc'[r] \notin InKernel,
           Empty', NoNew', Cwds', Fits(held', p, q, items)
    PROVE  Control'
<1>1. CallTypes'
  BY DEF Control, CallTypes
<1>2. todo'[p] = items /\ target'[p] = q
  BY DEF Control, CallTypes
<1>3. Calling(p)'
  BY <1>2 DEF Calling, Fits
<1>4. pc'[p] # "store"
  OBVIOUS
<1> QED BY <1>1, <1>3, <1>4, ControlOf

(* A call that begins with the tables as they are, for p itself.            *)
LEMMA CallSame ==
    ASSUME HartNum = 1, Control, NEW p \in Procs, Step(p), pc[p] = "user",
           NEW items \in SUBSET Items, Call(p, p, items), UNCHANGED <<held, dangling>>,
           Fits(held, p, p, items)
    PROVE  Control'
<1>1. \A r \in Procs : r # p => pc[r] \notin InKernel
  BY OthersOut
<1>2. pc \in [Procs -> Labels] /\ Empty /\ NoNew /\ Cwds
  BY DEF Control, CallTypes
<1>3. /\ pc' = [pc EXCEPT ![p] = "call"]
      /\ todo' = [todo EXCEPT ![p] = items] /\ target' = [target EXCEPT ![p] = p]
      /\ UNCHANGED <<chosen, found, dangling>>
  BY DEF Call, Goto
<1>4. pc' \in [Procs -> Labels] /\ pc'[p] = "call" /\ \A r \in Procs : r # p => pc'[r] = pc[r]
  BY <1>2, <1>3 DEF Labels
<1>5. Empty' /\ NoNew' /\ Cwds'
  BY <1>2, <1>4 DEF Empty, NoNew, Cwds
<1>6. \A r \in Procs : r # p => pc'[r] \notin InKernel
  BY <1>1, <1>4
<1>7. Fits(held', p, p, items)
  OBVIOUS
<1> QED BY <1>3, <1>4, <1>5, <1>6, <1>7, CallControl

LEMMA NewFdIn ==
    ASSUME NEW p \in Procs, Gaps(p) # {}
    PROVE  NewFd(p) \in Fds /\ held[p][NewFd(p)] = NULL
<1>1. Gaps(p) \in SUBSET Nat
  BY PlaceNames DEF Gaps
<1>2. NewFd(p) \in Gaps(p)
  BY <1>1, LowestOf DEF NewFd
<1> QED BY <1>2 DEF Gaps, OpenFds

LEMMA OneItem ==
    ASSUME NEW p \in Procs, NEW i \in Items, i.at # Nowhere => held[p][i.at] = NULL,
           i.at \in {Cwd, NewCwd} => i.type = "dir"
    PROVE  {i} \in SUBSET Items /\ Fits(held, p, p, {i})
BY DEF Fits

LEMMA CallsControl ==
    ASSUME HartNum = 1, Data, Control, NEW p \in Procs, Step(p),
           \/ \E n \in Names, type \in {"file", "dir"} :
                    Open(p, type, n) \/ OpenFault(p, type, n) \/ Look(p, type, n)
           \/ \E n \in Names : Chdir(p, n) \/ Exec(p, n)
           \/ \E fd \in Fds : Dup(p, fd)
    PROVE  Control'
<1>0. pc[p] = "user"
  BY DEF Open, OpenFault, Look, Chdir, Exec, Dup, CanCall
<1>1. held[p][NewKfd] = NULL /\ held[p][NewCwd] = NULL /\ held[p][Local] = NULL
  BY <1>0 DEF Control, NoNew
<1>2. Names \subseteq Inodes
  BY DEF Inodes
<1>3. ASSUME NEW n \in Names, NEW type \in {"file", "dir"}, Open(p, type, n) PROVE Control'
  <2>1. NewFd(p) \in Fds /\ held[p][NewFd(p)] = NULL
    BY <1>3, NewFdIn DEF Open
  <2> DEFINE i == Item(NewFd(p), type, n)
  <2>2. i \in Items /\ i.at = NewFd(p)
    <3>1. type \in Files \cup {"dir"}
      BY DEF Files
    <3>2. NewFd(p) \in Places /\ n \in Inodes
      BY <1>2, <2>1, PlaceNames
    <3>3. Item(NewFd(p), type, n) \in Items /\ Item(NewFd(p), type, n).at = NewFd(p)
      BY <3>1, <3>2, ItemsIn, SMTT(30)
    <3> QED BY <3>3
  <2>3. Call(p, p, {i}) /\ UNCHANGED <<held, dangling>>
    BY <1>3 DEF Open
  <2> HIDE DEF i
  <2>4. {i} \in SUBSET Items /\ Fits(held, p, p, {i})
    BY <2>1, <2>2, PlaceNames, OneItem
  <2> QED BY <1>0, <2>3, <2>4, CallSame
<1>4. ASSUME NEW n \in Names, Chdir(p, n) PROVE Control'
  <2> DEFINE i == Item(NewCwd, "dir", n)
  <2>2. i \in Items /\ i.at = NewCwd /\ i.type = "dir"
    BY <1>2, PlaceNames, ItemsIn
  <2>3. Call(p, p, {i}) /\ UNCHANGED <<held, dangling>>
    BY <1>4 DEF Chdir
  <2> HIDE DEF i
  <2>4. {i} \in SUBSET Items /\ Fits(held, p, p, {i})
    BY <1>1, <2>2, OneItem
  <2> QED BY <1>0, <2>3, <2>4, CallSame
<1>5. ASSUME NEW n \in Names, Exec(p, n) PROVE Control'
  <2> DEFINE i == Item(NewKfd, "file", n)
             j == Item(NewCwd, "dir", n)
  <2>1. "file" \in Files
    BY DEF Files
  <2>2. /\ i \in Items /\ i.at = NewKfd /\ j \in Items /\ j.at = NewCwd /\ j.type = "dir"
    BY <1>2, <2>1, PlaceNames, ItemsIn
  <2>3. Call(p, p, {i, j}) /\ UNCHANGED <<held, dangling>>
    BY <1>5 DEF Exec
  <2> HIDE DEF i, j
  <2>4. {i, j} \in SUBSET Items /\ Fits(held, p, p, {i, j})
    BY <1>1, <2>2, PlaceNames DEF Fits
  <2> QED BY <1>0, <2>3, <2>4, CallSame
<1>6. ASSUME NEW fd \in Fds, Dup(p, fd) PROVE Control'
  <2>1. NewFd(p) \in Fds /\ held[p][NewFd(p)] = NULL
    BY <1>6, NewFdIn DEF Dup
  <2> DEFINE i == Again(NewFd(p), held[p][fd])
  <2>2. i \in Items /\ i.at = NewFd(p)
    BY <1>6, <2>1, PlaceNames, AgainItem DEF Dup
  <2>3. Call(p, p, {i}) /\ UNCHANGED <<held, dangling>>
    BY <1>6 DEF Dup
  <2> HIDE DEF i
  <2>4. {i} \in SUBSET Items /\ Fits(held, p, p, {i})
    BY <2>1, <2>2, PlaceNames, OneItem
  <2> QED BY <1>0, <2>3, <2>4, CallSame
<1>7. ASSUME NEW n \in Names, NEW type \in {"file", "dir"},
             OpenFault(p, type, n) \/ Look(p, type, n)
      PROVE  Control'
  <2>1. type \in Files \cup {"dir"} /\ n \in Inodes
    BY <1>2 DEF Files
  <2>2. PICK x \in {Nowhere, Local} :
            Call(p, p, {Item(x, type, n)}) /\ UNCHANGED <<held, dangling>>
    BY <1>7 DEF OpenFault, Look
  <2> DEFINE i == Item(x, type, n)
  <2>3. i \in Items /\ i.at = x
    BY <2>1, PlaceNames, ItemsIn
  <2>4. Call(p, p, {i}) /\ UNCHANGED <<held, dangling>>
    BY <2>2
  <2> HIDE DEF i
  <2>5. x \notin {Cwd, NewCwd} /\ (x # Nowhere => held[p][x] = NULL)
    BY <1>1, PlaceNames
  <2>6. {i} \in SUBSET Items /\ Fits(held, p, p, {i})
    BY <2>3, <2>5, OneItem
  <2> QED BY <1>0, <2>4, <2>6, CallSame
<1> QED BY <1>3, <1>4, <1>5, <1>6, <1>7

(* Closing what is at a place keeps what the tables promise.                *)
LEMMA PutNull ==
    ASSUME Data, Control, NEW p \in Procs, NEW x \in Places, held' = Put(held, p, x, NULL)
    PROVE  /\ held'[p][x] = NULL
           /\ \A q \in Procs, y \in Places : held'[q][y] = held[q][y] \/ held'[q][y] = NULL
           /\ \A q \in Procs, y \in Places : held[q][y] = NULL => held'[q][y] = NULL
           /\ Cwds'
<1>1. held \in Tables /\ NULL \in Entries \cup {NULL}
  BY DEF Data
<1>2. held'[p][x] = NULL /\ \A q \in Procs, y \in Places : held'[q][y] = held[q][y] \/ held'[q][y] = NULL
  BY <1>1, PutTable
<1>3. \A q \in Procs, y \in Places : held[q][y] = NULL => held'[q][y] = NULL
  BY <1>2
<1>4. Cwds'
  BY <1>2, PlaceNames DEF Cwds, Control
<1> QED BY <1>2, <1>3, <1>4

LEMMA Dup2Control ==
    ASSUME HartNum = 1, Data, Control, NEW p \in Procs, Step(p),
           NEW fd \in Fds, NEW fd2 \in Fds, Dup2(p, fd, fd2)
    PROVE  Control'
<1> DEFINE i == Again(fd2, held[p][fd])
<1>1. /\ pc[p] = "user" /\ held[p][fd] # NULL /\ Call(p, p, {i}) /\ UNCHANGED dangling
  BY DEF Dup2, CanCall
<1>2. i \in Items /\ i.at = fd2
  BY <1>1, PlaceNames, AgainItem
<1> HIDE DEF i
<1>3. CASE held[p][fd2] = NULL /\ UNCHANGED <<held, untouched>>
  <2>1. {i} \in SUBSET Items /\ Fits(held, p, p, {i})
    BY <1>2, <1>3, PlaceNames, OneItem
  <2> QED BY <1>1, <1>3, <2>1, CallSame
<1>4. CASE CloseAt(p, fd2)
  <2>1. held' = Put(held, p, fd2, NULL)
    BY <1>4, PlaceNames, CloseAtData
  <2>2. /\ held'[p][fd2] = NULL
        /\ \A q \in Procs, y \in Places : held[q][y] = NULL => held'[q][y] = NULL
        /\ Cwds'
    BY <2>1, PlaceNames, PutNull
  <2>3. \A r \in Procs : r # p => pc[r] \notin InKernel
    BY OthersOut
  <2>4. pc \in [Procs -> Labels] /\ Empty /\ NoNew
    BY DEF Control, CallTypes
  <2>5. /\ pc' = [pc EXCEPT ![p] = "call"]
        /\ todo' = [todo EXCEPT ![p] = {i}] /\ target' = [target EXCEPT ![p] = p]
        /\ UNCHANGED <<chosen, found, dangling>>
    BY <1>1 DEF Call, Goto
  <2>6. pc' \in [Procs -> Labels] /\ pc'[p] = "call" /\ \A r \in Procs : r # p => pc'[r] = pc[r]
    BY <2>4, <2>5 DEF Labels
  <2>7. Empty' /\ NoNew'
    BY <2>2, <2>4, <2>6, PlaceNames DEF Empty, NoNew
  <2>8. \A r \in Procs : r # p => pc'[r] \notin InKernel
    BY <2>3, <2>6
  <2>9. {i} \in SUBSET Items /\ Fits(held', p, p, {i})
    BY <1>2, <2>2, PlaceNames DEF Fits
  <2> QED BY <2>2, <2>5, <2>6, <2>7, <2>8, <2>9, CallControl
<1> QED BY <1>3, <1>4 DEF Dup2

LEMMA CloneControl ==
    ASSUME HartNum = 1, Data, Control, NEW p \in Procs, Step(p),
           NEW q \in Procs, NEW mapped, mapped \subseteq Names,
           \A n \in mapped, m \in mapped : n = m, NEW name \in Names \cup {Dev},
           Clone(p, q, mapped) \/ CloneFault(p, q, name, mapped)
    PROVE  Control'
<1> DEFINE A == {Again(x, held[p][x]) : x \in {y \in Places : held[p][y] # NULL}}
           M == {Item(Nowhere, "file", n) : n \in mapped}
           F == IF held[p][Kfd] = NULL THEN {Item(Kfd, "file", name)} ELSE {}
<1>1. /\ pc[p] = "user" /\ pc[q] = "none" /\ q # p
      /\ pc' = [pc EXCEPT ![p] = "call", ![q] = "new"]
      /\ todo' = [todo EXCEPT ![p] = A \cup M \cup F] /\ target' = [target EXCEPT ![p] = q]
      /\ UNCHANGED <<held, chosen, found, dangling>>
  BY DEF Clone, CloneFault, MakeChild, ForChild, CanCall
<1>2. pc \in [Procs -> Labels] /\ Empty /\ NoNew /\ Cwds
  BY DEF Control, CallTypes
<1>3. /\ pc' \in [Procs -> Labels] /\ pc'[p] = "call" /\ pc'[q] = "new"
      /\ \A r \in Procs : r # p /\ r # q => pc'[r] = pc[r]
  BY <1>1, <1>2 DEF Labels
<1>4. \A r \in Procs : r # p => pc'[r] \notin InKernel
  <2>1. \A r \in Procs : r # p => pc[r] \notin InKernel
    BY OthersOut
  <2> QED BY <1>3, <2>1 DEF InKernel
<1>5. Empty' /\ NoNew' /\ Cwds'
  BY <1>1, <1>2, <1>3, PlaceNames DEF Empty, NoNew, Cwds
<1>6. /\ held[p][NewKfd] = NULL /\ held[p][NewCwd] = NULL /\ held[p][Local] = NULL
      /\ \A x \in Places : held[q][x] = NULL
      /\ \A x \in {Cwd, NewCwd} : held[p][x] \in DirEntries \cup {NULL}
  BY <1>1, <1>2 DEF NoNew, Empty, Cwds
<1>7. \A x \in Places : held[p][x] # NULL =>
        /\ Again(x, held[p][x]) \in Items /\ Again(x, held[p][x]).at = x
        /\ held[p][x] \in DirEntries => Again(x, held[p][x]).type = "dir"
  BY AgainItem
<1>8. /\ A \subseteq Items
      /\ \A i \in A : /\ i.at \in Places /\ held[p][i.at] # NULL /\ i = Again(i.at, held[p][i.at])
                      /\ i.at \in {Cwd, NewCwd} => i.type = "dir"
  BY <1>6, <1>7
<1>9. /\ M \subseteq Items /\ \A i \in M : i.at = Nowhere /\ \A j \in M : i = j
  BY ItemsIn DEF Inodes
<1>13. /\ F \subseteq Items /\ \A i \in F : i.at = Kfd /\ held[p][Kfd] = NULL /\ \A j \in F : i = j
  <2>1. "file" \in Files /\ name \in Inodes
    BY DEF Files, Inodes
  <2>2. Item(Kfd, "file", name) \in Items /\ Item(Kfd, "file", name).at = Kfd
    BY <2>1, PlaceNames, ItemsIn
  <2> QED BY <2>2
<1> HIDE DEF A, M, F
<1> DEFINE items == A \cup M \cup F
<1>10. Fits(held', p, q, items)
  <2>1. \A i \in items : i.at # Nowhere => held'[q][i.at] = NULL
    <3>1. \A i \in items : i.at = Nowhere \/ i.at \in Places
      BY <1>8, <1>9, <1>13, PlaceNames
    <3>2. \A x \in Places : held'[q][x] = NULL
      BY <1>1, <1>6
    <3> QED BY <3>1, <3>2
  <2>2. \A i \in items, j \in items : i.at = j.at => i = j
    BY <1>8, <1>9, <1>13, PlaceNames
  <2>3. \A i \in items : i.at \in {Cwd, NewCwd} => i.type = "dir"
    BY <1>8, <1>9, <1>13, PlaceNames
  <2>4. \A i \in items : i.at \notin {NewKfd, NewCwd, Local}
    BY <1>6, <1>8, <1>9, <1>13, PlaceNames
  <2> QED BY <2>1, <2>2, <2>3, <2>4 DEF Fits
<1>11. items \in SUBSET Items
  BY <1>8, <1>9, <1>13
<1>12. /\ todo' = [todo EXCEPT ![p] = items] /\ target' = [target EXCEPT ![p] = q]
       /\ UNCHANGED <<chosen, found, dangling>>
  BY <1>1
<1> HIDE DEF items
<1> QED BY <1>3, <1>4, <1>5, <1>10, <1>11, <1>12, CallControl

(* A step that changes where p is and no place.                             *)
LEMMA LabelControl ==
    ASSUME HartNum = 1, Control, NEW p \in Procs, Step(p), NEW l \in Labels,
           pc' = [pc EXCEPT ![p] = l], UNCHANGED held, CallTypes',
           l \in {"none", "dead"} => \A x \in Places : held[p][x] = NULL,
           l \in {"user", "new"} => held[p][NewKfd] = NULL /\ held[p][NewCwd] = NULL /\ held[p][Local] = NULL,
           l \in {"call", "store", "abandon"} => Calling(p)',
           l = "store" => Storing(p)'
    PROVE  Control'
<1>1. pc \in [Procs -> Labels] /\ Empty /\ NoNew /\ Cwds
  BY DEF Control, CallTypes
<1>2. pc'[p] = l /\ \A r \in Procs : r # p => pc'[r] = pc[r]
  BY <1>1
<1>3. Empty' /\ NoNew' /\ Cwds'
  BY <1>1, <1>2 DEF Empty, NoNew, Cwds
<1>4. \A r \in Procs : r # p => pc'[r] \notin InKernel
  BY <1>2, OthersOut
<1> QED BY <1>2, <1>3, <1>4, ControlOf

(* What is left of a call still fits.                                       *)
LEMMA CallingLess ==
    ASSUME Control, NEW p \in Procs, pc[p] \in {"call", "store", "abandon"},
           UNCHANGED <<held, target>>, todo'[p] \subseteq todo[p],
           \A r \in Procs : r # p => pc'[r] = pc[r]
    PROVE  Calling(p)'
<1>1. Calling(p) /\ target[p] \in Procs
  BY DEF Control, CallTypes
<1> QED BY <1>1 DEF Calling

LEMMA ExitControl ==
    ASSUME HartNum = 1, Control, NEW p \in Procs, Step(p),
           Exit(p) \/ ExitDone(p)
    PROVE  Control'
<1>1. UNCHANGED <<held, todo, target, chosen, found, dangling>>
  BY DEF Exit, ExitDone, callVars
<1>2. PICK l \in {"exit", "dead"} :
            /\ pc' = [pc EXCEPT ![p] = l]
            /\ l = "dead" => \A x \in Places : held[p][x] = NULL
  BY DEF Exit, ExitDone, Goto
<1>3. l \in Labels
  BY DEF Labels
<1>4. CallTypes'
  BY <1>1, <1>2, <1>3 DEF Control, CallTypes
<1> QED BY <1>1, <1>2, <1>3, <1>4, LabelControl

LEMMA LostControl ==
    ASSUME Control, NEW p \in Procs, Lost, UNCHANGED <<held, callVars, dangling>>
    PROVE  Control'
<1>1. pc' = [q \in Procs |-> "lost"]
  BY DEF Lost
<1>2. CallTypes'
  BY <1>1 DEF Control, CallTypes, callVars, Labels
<1>3. Empty' /\ NoNew' /\ Cwds'
  BY <1>1 DEF Control, Empty, NoNew, Cwds
<1>4. \A r \in Procs : r # p => pc'[r] \notin InKernel
  BY <1>1 DEF InKernel
<1>5. pc'[p] = "lost"
  BY <1>1
<1> QED BY <1>2, <1>3, <1>4, <1>5, ControlOf

LEMMA NotOpenedControl ==
    ASSUME HartNum = 1, Control, NEW p \in Procs, Step(p), OpenFails(p) \/ OpenDirFails(p)
    PROVE  Control'
<1>1. pc[p] = "call" /\ NotOpened(p) /\ UNCHANGED chosen
  BY DEF OpenFails, OpenDirFails, Opening
<1>2. /\ pc \in [Procs -> Labels] /\ todo \in [Procs -> SUBSET Items]
  BY DEF Control, CallTypes
<1>3. PICK S \in SUBSET todo[p] : todo' = [todo EXCEPT ![p] = S]
  BY <1>1 DEF NotOpened
<1>4. PICK l \in {"stuck", "call"} : pc' = [pc EXCEPT ![p] = l]
  BY <1>1 DEF NotOpened, Goto
<1>5. UNCHANGED <<held, target, chosen, found, dangling>>
  BY <1>1 DEF NotOpened
<1>6. CallTypes'
  BY <1>2, <1>3, <1>4, <1>5 DEF Control, CallTypes, Labels
<1>7. Calling(p)'
  BY <1>1, <1>2, <1>3, <1>4, <1>5, CallingLess
<1>8. l \in Labels
  BY DEF Labels
<1> QED BY <1>4, <1>5, <1>6, <1>7, <1>8, LabelControl

LEMMA ChooseControl ==
    ASSUME HartNum = 1, Data, Control, NEW p \in Procs, Step(p), Choose(p)
    PROVE  Control'
<1> DEFINE i == Next1(p)
           j == Resolve(i.what)
           s == Lowest(FreeSlots)
<1>1. /\ pc[p] = "call" /\ todo[p] # {} /\ i.type \in Files /\ j # NULL /\ FreeSlots # {}
      /\ chosen' = [chosen EXCEPT ![p] = s] /\ found' = [found EXCEPT ![p] = j]
      /\ pc' = [pc EXCEPT ![p] = "store"]
      /\ UNCHANGED <<held, todo, target, dangling, ino, refs>>
  BY DEF Choose, Opening, Goto, untouched, slotVars
<1>2. i.what \in Inodes
  BY <1>1, NextItem, ItemKinds
<1>3. j \in Inodes /\ refs[j] > 0
  BY <1>1, <1>2, Resolved
<1>4. s \in Slots /\ ino[s] = NULL
  <2>1. FreeSlots \in SUBSET Nat
    BY DEF FreeSlots, Slots
  <2>2. s \in FreeSlots
    BY <1>1, <2>1, LowestOf
  <2> QED BY <2>2 DEF FreeSlots
<1>5. Next1(p)' = Next1(p)
  BY <1>1 DEF Next1
<1> HIDE DEF i, j, s
<1>6. CallTypes'
  BY <1>1, <1>3, <1>4 DEF Control, CallTypes, Labels
<1>7. chosen'[p] = s /\ found'[p] = j /\ \A r \in Procs : r # p => pc'[r] = pc[r]
  BY <1>1 DEF Control, CallTypes
<1>8. Calling(p)'
  BY <1>1, <1>7, CallingLess
<1>9. Storing(p)'
  BY <1>1, <1>3, <1>4, <1>5, <1>7 DEF Storing, i
<1>10. "store" \in Labels
  BY DEF Labels
<1> QED BY <1>1, <1>6, <1>8, <1>9, <1>10, LabelControl

LEMMA StoreFailsControl ==
    ASSUME HartNum = 1, Control, NEW p \in Procs, Step(p), StoreFails(p)
    PROVE  Control'
<1>1. /\ pc[p] = "store" /\ pc' = [pc EXCEPT ![p] = "call"]
      /\ chosen' = [chosen EXCEPT ![p] = NULL] /\ found' = [found EXCEPT ![p] = NULL]
      /\ UNCHANGED <<held, target, dangling>>
  BY DEF StoreFails, Goto
<1>2. pc \in [Procs -> Labels] /\ todo \in [Procs -> SUBSET Items]
  BY DEF Control, CallTypes
<1>3. PICK S \in SUBSET todo[p] : todo' = [todo EXCEPT ![p] = S]
  BY DEF StoreFails
<1>4. CallTypes'
  BY <1>1, <1>2, <1>3 DEF Control, CallTypes, Labels
<1>5. Calling(p)'
  BY <1>1, <1>2, <1>3, CallingLess
<1>6. "call" \in Labels
  BY DEF Labels
<1> QED BY <1>1, <1>4, <1>5, <1>6, LabelControl

LEMMA AbandonControl ==
    ASSUME HartNum = 1, Control, NEW p \in Procs, Step(p), Abandon(p)
    PROVE  Control'
<1>1. /\ pc[p] = "call" /\ pc' = [pc EXCEPT ![p] = "abandon"]
      /\ todo' = [todo EXCEPT ![p] = {}]
      /\ UNCHANGED <<held, target, chosen, found, dangling>>
  BY DEF Abandon, Goto
<1>2. pc \in [Procs -> Labels] /\ todo \in [Procs -> SUBSET Items]
  BY DEF Control, CallTypes
<1>3. CallTypes'
  BY <1>1, <1>2 DEF Control, CallTypes, Labels
<1>4. Calling(p)'
  BY <1>1, <1>2, CallingLess
<1>5. "abandon" \in Labels
  BY DEF Labels
<1> QED BY <1>1, <1>3, <1>4, <1>5, LabelControl

(* A place that the call has filled.                                        *)
LEMMA PlacedControl ==
    ASSUME HartNum = 1, Data, Control, NEW p \in Procs, Step(p), pc[p] \in {"call", "store"},
           todo[p] # {}, NEW obj, Placed(p, Next1(p), obj), Entry(Next1(p).type, obj) \in Entries,
           Done(p, Next1(p)), pc' = [pc EXCEPT ![p] = "call"], UNCHANGED <<target, dangling>>,
           chosen' \in [Procs -> Slots \cup {NULL}], found' \in [Procs -> Inodes \cup {NULL}]
    PROVE  Control'
<1> DEFINE i == Next1(p)
           q == target[p]
           v == Entry(i.type, obj)
<1>1. /\ i \in todo[p] /\ i \in Items /\ q \in Procs
      /\ i.at # Nowhere => i.at \in Places /\ held[q][i.at] = NULL
  BY NextItem
<1>2. /\ pc \in [Procs -> Labels] /\ todo \in [Procs -> SUBSET Items]
      /\ target \in [Procs -> Procs] /\ Empty /\ NoNew /\ Cwds /\ Calling(p)
  BY DEF Control, CallTypes
<1>3. /\ todo' = [todo EXCEPT ![p] = @ \ {i}] /\ todo'[p] = todo[p] \ {i} /\ target' = target
      /\ pc'[p] = "call" /\ \A r \in Procs : r # p => pc'[r] = pc[r]
  BY <1>2 DEF Done
<1>4. /\ i.at = Nowhere => held' = held
      /\ i.at # Nowhere => held' = Put(held, q, i.at, v)
  BY DEF Placed, Put
<1>5. v \in Entries /\ held \in Tables /\ v.type = i.type
  BY DEF Data, Entry
<1> HIDE DEF i, q, v
<1>6. /\ i.at # Nowhere => held'[q][i.at] = v
      /\ \A r \in Procs, x \in Places : r # q \/ x # i.at => held'[r][x] = held[r][x]
  <2>1. CASE i.at = Nowhere
    BY <1>4, <2>1
  <2>2. CASE i.at # Nowhere
    <3>1. i.at \in Places /\ q \in Procs /\ v \in Entries \cup {NULL} /\ held \in Tables
      BY <1>1, <1>5, <2>2
    <3>2. held' = Put(held, q, i.at, v)
      BY <1>4, <2>2
    <3>3. /\ Put(held, q, i.at, v)[q][i.at] = v
          /\ \A r \in Procs, x \in Places :
                r # q \/ x # i.at => Put(held, q, i.at, v)[r][x] = held[r][x]
      BY <3>1 DEF Put, Tables
    <3> QED BY <3>2, <3>3
  <2> QED BY <2>1, <2>2
<1>7. CallTypes'
  BY <1>2, <1>3 DEF Control, CallTypes, Labels
<1>8. q = p \/ pc[q] = "new"
  BY <1>2 DEF Calling, q
<1>9. Empty'
  BY <1>2, <1>3, <1>6, <1>8 DEF Empty
<1>10. NoNew'
  <2>1. q # p => i.at \notin {NewKfd, NewCwd, Local}
    BY <1>1, <1>2 DEF Calling, q
  <2> QED BY <1>2, <1>3, <1>6, <1>8, <2>1, PlaceNames DEF NoNew
<1>11. Cwds'
  <2>1. i.at \in {Cwd, NewCwd} => v \in DirEntries
    BY <1>1, <1>2, <1>5, Kinds DEF Calling
  <2>2. ASSUME NEW r \in Procs, NEW x \in {Cwd, NewCwd}
        PROVE  held'[r][x] \in DirEntries \cup {NULL}
    <3>1. x \in Places /\ x # Nowhere /\ held[r][x] \in DirEntries \cup {NULL}
      BY <1>2, PlaceNames DEF Cwds
    <3> QED BY <1>6, <2>1, <3>1
  <2> QED BY <2>2 DEF Cwds
<1>12. Calling(p)'
  <2>1. target'[p] = q /\ (q = p \/ pc'[q] = "new")
    BY <1>1, <1>3, <1>8 DEF q
  <2>2. \A j \in todo'[p] : j \in todo[p] /\ j.at # i.at /\ j \in Items
    BY <1>1, <1>2, <1>3 DEF Calling
  <2>3. \A j \in todo'[p] : j.at # Nowhere => held'[q][j.at] = NULL
    BY <1>1, <1>2, <1>6, <2>2, ItemKinds DEF Calling, q
  <2> QED BY <1>2, <2>1, <2>2, <2>3 DEF Calling, q
<1>13. \A r \in Procs : r # p => pc'[r] \notin InKernel
  BY <1>3, OthersOut
<1>14. pc'[p] # "store"
  BY <1>3
<1> QED BY <1>7, <1>9, <1>10, <1>11, <1>12, <1>13, <1>14, ControlOf

LEMMA FillsControl ==
    ASSUME HartNum = 1, Data, Control, NEW p \in Procs, Step(p),
           Store(p) \/ SharePipe(p) \/ \E b \in Blocks : OpenDir(p, b)
    PROVE  Control'
<1>1. /\ pc \in [Procs -> Labels] /\ chosen \in [Procs -> Slots \cup {NULL}]
      /\ found \in [Procs -> Inodes \cup {NULL}]
  BY DEF Control, CallTypes
<1>2. CASE Store(p)
  <2>1. todo[p] # {} /\ Next1(p).type \in Files /\ chosen[p] \in Slots
    BY <1>2 DEF Control, Store, Storing
  <2>2. Entry(Next1(p).type, chosen[p]) \in Entries
    BY <2>1 DEF Entries
  <2>3. /\ pc[p] = "store" /\ Placed(p, Next1(p), chosen[p]) /\ Done(p, Next1(p))
        /\ pc' = [pc EXCEPT ![p] = "call"] /\ UNCHANGED <<target, dangling>>
        /\ chosen' = [chosen EXCEPT ![p] = NULL] /\ found' = [found EXCEPT ![p] = NULL]
    BY <1>2 DEF Store, Goto
  <2>4. chosen' \in [Procs -> Slots \cup {NULL}] /\ found' \in [Procs -> Inodes \cup {NULL}]
    BY <1>1, <2>3
  <2> QED BY <2>1, <2>2, <2>3, <2>4, PlacedControl
<1>3. ASSUME pc[p] = "call", UNCHANGED <<pc, target, chosen, found, dangling>>, todo[p] # {},
             NEW obj, Placed(p, Next1(p), obj), Done(p, Next1(p)),
             Entry(Next1(p).type, obj) \in Entries
      PROVE  Control'
  <2>1. pc' = [pc EXCEPT ![p] = "call"]
    BY <1>1, <1>3
  <2>2. chosen' \in [Procs -> Slots \cup {NULL}] /\ found' \in [Procs -> Inodes \cup {NULL}]
    BY <1>1, <1>3
  <2> QED BY <1>3, <2>1, <2>2, PlacedControl
<1>4. CASE SharePipe(p)
  <2>1. /\ pc[p] = "call" /\ todo[p] # {} /\ Next1(p).type \in Ends
        /\ Placed(p, Next1(p), Next1(p).what) /\ Done(p, Next1(p))
        /\ UNCHANGED <<pc, target, chosen, found, dangling>>
    BY <1>4 DEF SharePipe, Opening
  <2>2. Next1(p).what \in Pipes
    BY <2>1, NextItem, ItemKinds
  <2>3. Entry(Next1(p).type, Next1(p).what) \in Entries
    BY <2>1, <2>2 DEF Entries
  <2> QED BY <1>3, <2>1, <2>3
<1>5. ASSUME NEW b \in Blocks, OpenDir(p, b) PROVE Control'
  <2>1. /\ pc[p] = "call" /\ todo[p] # {} /\ Next1(p).type = "dir"
        /\ Placed(p, Next1(p), b) /\ Done(p, Next1(p))
        /\ UNCHANGED <<pc, target, chosen, found, dangling>>
    BY <1>5 DEF OpenDir, Opening
  <2>2. Entry(Next1(p).type, b) \in Entries
    BY <2>1 DEF Entries
  <2> QED BY <1>3, <2>1, <2>2
<1> QED BY <1>2, <1>4, <1>5

(* Closing, in a process that stays where it is.                            *)
LEMMA CloseControl ==
    ASSUME HartNum = 1, Data, Control, NEW p \in Procs, Step(p), NEW x \in Places, CloseAt(p, x),
           UNCHANGED <<pc, callVars>>, dangling' \in [Procs -> Blocks \cup {NULL}], pc[p] # "store"
    PROVE  Control'
<1>1. held' = Put(held, p, x, NULL)
  BY CloseAtData
<1>2. /\ \A q \in Procs, y \in Places : held[q][y] = NULL => held'[q][y] = NULL
      /\ Cwds'
  BY <1>1, PutNull
<1>3. UNCHANGED <<pc, todo, target, chosen, found>>
  BY DEF callVars
<1>4. CallTypes' /\ Empty' /\ NoNew'
  BY <1>2, <1>3, PlaceNames DEF Control, CallTypes, Empty, NoNew
<1>5. \A r \in Procs : r # p => pc'[r] \notin InKernel
  BY <1>3, OthersOut
<1>6. ASSUME pc[p] \in {"call", "store", "abandon"} PROVE Calling(p)'
  <2>1. Calling(p) /\ target[p] \in Procs /\ todo[p] \in SUBSET Items
    BY <1>6 DEF Control, CallTypes
  <2>2. \A i \in todo[p] : i.at # Nowhere => held'[target[p]][i.at] = NULL
    BY <1>2, <2>1, ItemKinds DEF Calling
  <2> QED BY <1>3, <2>1, <2>2 DEF Calling
<1> QED BY <1>2, <1>3, <1>4, <1>5, <1>6, ControlOf

LEMMA ClosesControl ==
    ASSUME HartNum = 1, Data, Control, NEW p \in Procs, Step(p),
           \/ \E fd \in Fds : Close(p, fd)
           \/ AbandonClose(p, NewKfd) \/ AbandonClose(p, NewCwd)
           \/ ExitClose(p) \/ ExitCwd(p) \/ ExitKfd(p) \/ LookDone(p)
    PROVE  Control'
<1>0. dangling \in [Procs -> Blocks \cup {NULL}]
  BY DEF Control, CallTypes
<1>1. ASSUME NEW x \in Places, CloseAt(p, x), UNCHANGED <<pc, callVars, dangling>>,
             pc[p] \in {"user", "call", "abandon", "exit"}
      PROVE  Control'
  BY <1>0, <1>1, CloseControl
<1>2. CASE \/ \E fd \in Fds : Close(p, fd)
           \/ AbandonClose(p, NewKfd) \/ AbandonClose(p, NewCwd)
           \/ ExitKfd(p) \/ LookDone(p)
  BY <1>1, <1>2, PlaceNames DEF Close, CanCall, AbandonClose, ExitKfd, LookDone
<1>3. CASE ExitClose(p)
  <2>1. OpenFds(p) \in SUBSET Nat /\ OpenFds(p) # {}
    BY <1>3, PlaceNames DEF ExitClose, OpenFds
  <2>2. Lowest(OpenFds(p)) \in Places
    BY <2>1, LowestOf, PlaceNames DEF OpenFds
  <2> QED BY <1>1, <1>3, <2>2 DEF ExitClose
<1>4. CASE ExitCwd(p)
  <2>1. held[p][Cwd] \in DirEntries
    BY <1>4 DEF Control, Cwds, ExitCwd, CloseAt
  <2>2. held[p][Cwd].obj \in Blocks
    BY <2>1 DEF DirEntries, Entry
  <2>3. dangling' \in [Procs -> Blocks \cup {NULL}]
    BY <1>0, <1>4, <2>2 DEF ExitCwd
  <2> QED BY <1>4, <2>3, PlaceNames, CloseControl DEF ExitCwd
<1> QED BY <1>2, <1>3, <1>4

LEMMA ReplaceControl ==
    ASSUME HartNum = 1, Data, Control, NEW p \in Procs, Step(p), NEW new \in Places,
           NEW old \in Places, <<new, old>> \in {<<NewKfd, Kfd>>, <<NewCwd, Cwd>>},
           Replace(p, new, old)
    PROVE  Control'
<1>1. /\ pc[p] = "call" /\ todo[p] = {} /\ UNCHANGED <<pc, todo, target, chosen, found, dangling>>
      /\ held' = [held EXCEPT ![p][old] = held[p][new], ![p][new] = NULL]
  BY DEF Replace, callVars
<1>2. held \in Tables
  BY DEF Data
<1>3. \A q \in Procs, y \in Places :
        held'[q][y] = IF q = p /\ y = new THEN NULL
                      ELSE IF q = p /\ y = old THEN held[p][new] ELSE held[q][y]
  BY <1>1, <1>2 DEF Tables
<1>4. CallTypes' /\ \A r \in Procs : r # p => pc'[r] \notin InKernel
  BY <1>1, OthersOut DEF Control, CallTypes
<1>5. Empty' /\ NoNew'
  <2>1. pc[p] \notin {"none", "dead", "user", "new"}
    BY <1>1
  <2>2. \A q \in Procs, y \in Places : q # p => held'[q][y] = held[q][y]
    BY <1>3
  <2>3. Empty'
    <3> SUFFICES ASSUME NEW q \in Procs, pc'[q] \in {"none", "dead"}, NEW y \in Places
                 PROVE  held'[q][y] = NULL
      BY DEF Empty
    <3>1. q # p /\ pc[q] \in {"none", "dead"}
      BY <1>1, <2>1
    <3>2. held[q][y] = NULL
      BY <3>1 DEF Control, Empty
    <3> QED BY <2>2, <3>1, <3>2
  <2>4. NoNew'
    BY <1>1, <2>1, <2>2, PlaceNames DEF Control, NoNew
  <2> QED BY <2>3, <2>4
<1>6. Cwds'
  <2>1. \A q \in Procs, y \in {Cwd, NewCwd} : held[q][y] \in DirEntries \cup {NULL} /\ y \in Places
    BY PlaceNames DEF Control, Cwds
  <2>2. ASSUME NEW q \in Procs, NEW y \in {Cwd, NewCwd}
        PROVE  held'[q][y] \in DirEntries \cup {NULL}
    BY <1>3, <2>1, PlaceNames
  <2> QED BY <2>2 DEF Cwds
<1>7. Calling(p)'
  <2>1. Calling(p)
    BY <1>1 DEF Control
  <2> QED BY <1>1, <2>1 DEF Calling
<1>8. pc'[p] # "store"
  BY <1>1
<1> QED BY <1>4, <1>5, <1>6, <1>7, <1>8, ControlOf

LEMMA ReturnControl ==
    ASSUME HartNum = 1, Control, NEW p \in Procs, Step(p), Return(p)
    PROVE  Control'
<1> DEFINE q == target[p]
<1>1. /\ pc[p] \in {"call", "abandon"}
      /\ held[p][NewKfd] = NULL /\ held[p][NewCwd] = NULL /\ held[p][Local] = NULL
      /\ pc' = [pc EXCEPT ![p] = "user", ![q] = "user"]
      /\ target' = [target EXCEPT ![p] = p]
      /\ UNCHANGED <<held, todo, chosen, found, dangling>>
  BY DEF Return
<1>2. /\ pc \in [Procs -> Labels] /\ q \in Procs /\ Empty /\ NoNew /\ Cwds
      /\ q = p \/ pc[q] = "new"
  BY <1>1 DEF Control, CallTypes, Calling
<1>3. \A r \in Procs : pc'[r] = IF r = p \/ r = q THEN "user" ELSE pc[r]
  BY <1>1, <1>2
<1>4. CallTypes'
  BY <1>1, <1>2 DEF Control, CallTypes, Labels
<1>5. Empty' /\ NoNew' /\ Cwds'
  BY <1>1, <1>2, <1>3 DEF Empty, NoNew, Cwds
<1>6. \A r \in Procs : r # p => pc'[r] \notin InKernel
  BY <1>3, OthersOut DEF InKernel
<1>7. pc'[p] = "user"
  BY <1>3
<1> QED BY <1>4, <1>5, <1>6, <1>7, ControlOf

LEMMA ReapControl ==
    ASSUME HartNum = 1, Control, NEW p \in Procs, NEW q \in Procs, Step(p), Reap(p, q)
    PROVE  Control'
<1>1. /\ pc[p] = "user" /\ pc[q] = "dead" /\ pc' = [pc EXCEPT ![q] = "none"]
      /\ dangling' = [dangling EXCEPT ![q] = NULL]
      /\ UNCHANGED <<held, todo, target, chosen, found>>
  BY DEF Reap, CanCall, Goto, callVars
<1>2. pc \in [Procs -> Labels] /\ Empty /\ NoNew /\ Cwds
  BY DEF Control, CallTypes
<1>3. \A r \in Procs : pc'[r] = IF r = q THEN "none" ELSE pc[r]
  BY <1>1, <1>2
<1>4. CallTypes'
  BY <1>1, <1>2 DEF Control, CallTypes, Labels
<1>5. Empty' /\ NoNew' /\ Cwds'
  BY <1>1, <1>2, <1>3 DEF Empty, NoNew, Cwds
<1>6. \A r \in Procs : r # p => pc'[r] \notin InKernel
  BY <1>3, OthersOut DEF InKernel
<1>7. pc'[p] = "user"
  BY <1>1, <1>3
<1> QED BY <1>4, <1>5, <1>6, <1>7, ControlOf

(* Steps of a process in user mode that is there again at once.             *)
LEMMA Pipe2Control ==
    ASSUME HartNum = 1, Data, Control, NEW p \in Procs, Step(p), NEW c \in Pipes, Pipe2(p, c)
    PROVE  Control'
<1>1. pc[p] = "user" /\ UNCHANGED <<pc, todo, target, chosen, found, dangling>>
  BY DEF Pipe2, CanCall, callVars
<1>2. held \in Tables
  BY DEF Data
<1>3. PICK r, w : /\ r \in Fds /\ w \in Fds
                  /\ held' = [held EXCEPT ![p][r] = Entry("in", c), ![p][w] = Entry("out", c)]
  BY Pipe2Fds
<1>4. \A q \in Procs, y \in Places : q # p \/ y \notin Fds => held'[q][y] = held[q][y]
  BY <1>2, <1>3 DEF Tables
<1>5. CallTypes' /\ \A q \in Procs : q # p => pc'[q] \notin InKernel
  BY <1>1, OthersOut DEF Control, CallTypes
<1>6. Empty' /\ NoNew' /\ Cwds'
  BY <1>1, <1>4, PlaceNames DEF Control, Empty, NoNew, Cwds
<1>7. pc'[p] = "user"
  BY <1>1
<1> QED BY <1>5, <1>6, <1>7, ControlOf

LEMMA MountControl ==
    ASSUME HartNum = 1, Control, NEW p \in Procs, Step(p), NEW m \in Mounts,
           Mount(p, m) \/ Umount(p, m)
    PROVE  Control'
<1>1. pc[p] = "user" /\ UNCHANGED <<held, pc, todo, target, chosen, found, dangling>>
  BY DEF Mount, Umount, CanCall, callVars
<1>2. CallTypes' /\ Empty' /\ NoNew' /\ Cwds' /\ \A q \in Procs : q # p => pc'[q] \notin InKernel
  BY <1>1, OthersOut DEF Control, CallTypes, Empty, NoNew, Cwds
<1> QED BY <1>1, <1>2, ControlOf

LEMMA ControlStep ==
    ASSUME HartNum = 1, Data, Control, NEW p \in Procs, Step(p)
    PROVE  Control'
<1>1. CASE OpenDotFails(p) \/ ExecWithoutDir(p) \/ ShareFreed(p) \/ \E q \in Procs : ReapClosesOther(p, q)
  BY <1>1, LostControl DEF OpenDotFails, ExecWithoutDir, ShareFreed, ReapClosesOther
<1>2. ASSUME NEW q \in Procs, NEW mapped \in {{}} \cup {{n} : n \in Names},
             Clone(p, q, mapped) \/ \E name \in Names \cup {Dev} : CloneFault(p, q, name, mapped)
      PROVE  Control'
  <2>1. mapped \subseteq Names /\ \A k \in mapped, m \in mapped : k = m
    OBVIOUS
  <2>2. Dev \in Names \cup {Dev}
    OBVIOUS
  <2> QED BY <1>2, <2>1, <2>2, CloneControl
<1>3. CASE Replace(p, NewKfd, Kfd) \/ Replace(p, NewCwd, Cwd)
  BY <1>3, PlaceNames, ReplaceControl
<1>4. CASE Exit(p) \/ ExitDone(p)
  BY <1>4, ExitControl
<1>5. CASE OpenFails(p) \/ OpenDirFails(p) \/ Choose(p) \/ StoreFails(p) \/ Abandon(p) \/ Return(p)
  BY <1>5, NotOpenedControl, ChooseControl, StoreFailsControl, AbandonControl, ReturnControl
<1>6. CASE \/ \E fd \in Fds : Close(p, fd)
           \/ AbandonClose(p, NewKfd) \/ AbandonClose(p, NewCwd)
           \/ ExitClose(p) \/ ExitCwd(p) \/ ExitKfd(p) \/ LookDone(p)
  BY <1>6, ClosesControl
<1>7. CASE Store(p) \/ SharePipe(p) \/ \E b \in Blocks : OpenDir(p, b)
  BY <1>7, FillsControl
<1>8. CASE \/ \E n \in Names, type \in {"file", "dir"} :
                    Open(p, type, n) \/ OpenFault(p, type, n) \/ Look(p, type, n)
           \/ \E n \in Names : Chdir(p, n) \/ Exec(p, n)
           \/ \E fd \in Fds : Dup(p, fd)
  BY <1>8, CallsControl
<1>9. ASSUME NEW fd \in Fds, NEW fd2 \in Fds, Dup2(p, fd, fd2) PROVE Control'
  BY <1>9, Dup2Control
<1>10. ASSUME NEW c \in Pipes, Pipe2(p, c) PROVE Control'
  BY <1>10, Pipe2Control
<1>11. ASSUME NEW m \in Mounts, Mount(p, m) \/ Umount(p, m) PROVE Control'
  BY <1>11, MountControl
<1>12. ASSUME NEW q \in Procs, Reap(p, q) PROVE Control'
  BY <1>12, ReapControl
<1> QED BY <1>1, <1>2, <1>3, <1>4, <1>5, <1>6, <1>7, <1>8, <1>9, <1>10, <1>11, <1>12 DEF Step
-----------------------------------------------------------------------------
Inv == Data /\ Control

(* The first process begins with the standard descriptors and a directory.  *)
LEMMA InitInv == Init => Inv
<1> SUFFICES ASSUME Init PROVE Inv
  OBVIOUS
<1>1. PICK first \in Procs, b \in Blocks :
        /\ held = [p \in Procs |-> [x \in Places |->
                    IF p = first /\ x \in 0 .. StdNum - 1 THEN Entry("std", x)
                    ELSE IF p = first /\ x = Cwd THEN Entry("dir", b)
                    ELSE IF p = first /\ x = Kfd THEN NoKfd
                    ELSE NULL]]
        /\ ino = [s \in Slots |-> IF s < StdNum THEN Dev ELSE NULL]
        /\ path = [s \in Slots |-> IF s < StdNum THEN Dev ELSE NULL]
        /\ dino = [c \in Blocks |-> IF c = b THEN Root ELSE NULL]
        /\ dpath = [c \in Blocks |-> IF c = b THEN Root ELSE NULL]
        /\ refs = [i \in Inodes |-> IF i = Dev THEN 1 + StdNum ELSE IF i = Root THEN 2 ELSE 0]
        /\ r_ref = [c \in Pipes |-> 0] /\ w_ref = [c \in Pipes |-> 0]
        /\ live = {}
        /\ pc = [p \in Procs |-> IF p = first THEN "user" ELSE "none"]
        /\ todo = [p \in Procs |-> {}]
        /\ target = [p \in Procs |-> p]
        /\ chosen = [p \in Procs |-> NULL]
        /\ found = [p \in Procs |-> NULL]
        /\ dangling = [p \in Procs |-> NULL]
        /\ leaked = {}
  BY DEF Init
<1>2. /\ Dev \in Inodes /\ Root \in Inodes /\ Dev # Root /\ Dev # NULL /\ Root # NULL
      /\ 0 .. StdNum - 1 \subseteq Slots /\ 0 .. StdNum - 1 \subseteq Fds
      /\ \A s \in Slots : s < StdNum <=> s \in 0 .. StdNum - 1
      /\ 0 \in Slots /\ 0 < StdNum
  BY DEF Inodes, Slots, Fds
<1>3. /\ \A s \in Slots : Entry("std", s) \in Entries /\ Entry("std", s).type = "std"
                            /\ Entry("std", s).obj = s
      /\ Entry("dir", b) \in Entries /\ Entry("dir", b).type = "dir" /\ Entry("dir", b).obj = b
      /\ NoKfd \in Entries /\ NoKfd.type = "none"
  <2>1. /\ \A s \in Slots : Entry("std", s) \in Entries
        /\ Entry("dir", b) \in Entries /\ NoKfd \in Entries
    BY DEF Entries, Files
  <2>2. \A t, o : Entry(t, o).type = t /\ Entry(t, o).obj = o
    BY DEF Entry
  <2> QED BY <2>1, <2>2 DEF NoKfd
<1>4. \A p \in Procs, x \in Places :
        held[p][x] = IF p = first /\ x \in 0 .. StdNum - 1 THEN Entry("std", x)
                     ELSE IF p = first /\ x = Cwd THEN Entry("dir", b)
                     ELSE IF p = first /\ x = Kfd THEN NoKfd
                     ELSE NULL
  BY <1>1
<1>5. held \in Tables
  <2>1. \A x \in 0 .. StdNum - 1 : Entry("std", x) \in Entries
    BY <1>2, <1>3
  <2> QED BY <1>1, <1>3, <2>1 DEF Tables
<1>6. \A p \in Procs, x \in Places : \A T, o :
        held[p][x] \in Kind(T, o) /\ NULL \notin Kind(T, o) =>
            /\ p = first
            /\ \/ x \in 0 .. StdNum - 1 /\ "std" \in T /\ o = x
               \/ x = Cwd /\ "dir" \in T /\ o = b
               \/ x = Kfd /\ "none" \in T
  <2> SUFFICES ASSUME NEW p \in Procs, NEW x \in Places, NEW T, NEW o,
                      held[p][x] \in Kind(T, o), NULL \notin Kind(T, o)
               PROVE  /\ p = first
                      /\ \/ x \in 0 .. StdNum - 1 /\ "std" \in T /\ o = x
                         \/ x = Cwd /\ "dir" \in T /\ o = b
                         \/ x = Kfd /\ "none" \in T
    OBVIOUS
  <2>1. held[p][x] \in Entries /\ p = first
    BY <1>4, <1>5 DEF Tables
  <2>2. held[p][x].type \in T /\ held[p][x].obj = o
    BY <2>1, InKind
  <2> QED BY <1>2, <1>3, <1>4, <2>1, <2>2
<1>7. SlotPart(held, ino, path, leaked)
  <2>1. ASSUME NEW s \in Slots, s < StdNum PROVE At(held, Files, s) = {<<first, s>>}
    <3>1. s \in Places /\ s \in 0 .. StdNum - 1
      BY <1>2, <2>1, PlaceNames
    <3>2. "std" \in Files /\ "dir" \notin Files /\ "none" \notin Files /\ NULL \notin Kind(Files, s)
      BY NullInNoKind DEF Files
    <3>3. held[first][s] \in Kind(Files, s)
      BY <1>3, <1>4, <3>1, <3>2, InKind
    <3>4. \A z \in Procs \X Places : held[z[1]][z[2]] \in Kind(Files, s) => z = <<first, s>>
      BY <1>6, <3>2
    <3> QED BY <3>1, <3>3, <3>4 DEF At
  <2>2. ASSUME NEW s \in Slots, ~(s < StdNum) PROVE At(held, Files, s) = {}
    <3>1. s \notin 0 .. StdNum - 1
      BY <1>2, <2>2
    <3>2. "dir" \notin Files /\ "none" \notin Files /\ NULL \notin Kind(Files, s)
      BY NullInNoKind DEF Files
    <3> QED BY <1>6, <3>1, <3>2 DEF At
  <2>3. Owned(held, Files, ino, Slots, leaked)
    BY <1>1, <1>2, <2>1, <2>2 DEF Owned
  <2>4. ino \in [Slots -> Inodes \cup {NULL}] /\ path \in [Slots -> Inodes \cup {NULL}]
    BY <1>1, <1>2
  <2>5. path[0] \in Inodes /\ \A s \in Slots : ino[s] # NULL => path[s] \in Inodes
    BY <1>1, <1>2
  <2> QED BY <1>1, <2>3, <2>4, <2>5 DEF SlotPart
<1>8. DirPart(held, dino, dpath, leaked)
  <2>0. "std" \notin {"dir"} /\ "none" \notin {"dir"}
    OBVIOUS
  <2>1. At(held, {"dir"}, b) = {<<first, Cwd>>}
    <3>1. NULL \notin Kind({"dir"}, b)
      BY NullInNoKind
    <3>2. held[first][Cwd] \in Kind({"dir"}, b)
      <4>1. Cwd \notin 0 .. StdNum - 1
        BY <1>2, PlaceNames
      <4> QED BY <1>3, <1>4, <4>1, PlaceNames, InKind
    <3>3. \A z \in Procs \X Places : held[z[1]][z[2]] \in Kind({"dir"}, b) => z = <<first, Cwd>>
      BY <1>6, <2>0, <3>1
    <3> QED BY <3>2, <3>3, PlaceNames DEF At
  <2>2. ASSUME NEW c \in Blocks, c # b PROVE At(held, {"dir"}, c) = {}
    BY <1>6, <2>0, <2>2, NullInNoKind DEF At
  <2>3. Owned(held, {"dir"}, dino, Blocks, leaked)
    BY <1>1, <1>2, <2>1, <2>2 DEF Owned
  <2> QED BY <1>1, <1>2, <2>3 DEF DirPart
<1>9. PipePart(held, r_ref, w_ref, live)
  <2>1. ASSUME NEW c \in Pipes, NEW T \in {{"in"}, {"out"}} PROVE Cardinality(At(held, T, c)) = 0
    <3>1. "std" \notin T /\ "dir" \notin T /\ "none" \notin T /\ NULL \notin Kind(T, c)
      BY NullInNoKind
    <3>2. At(held, T, c) = {}
      BY <1>6, <3>1 DEF At
    <3> QED BY <3>2, FS_EmptySet
  <2> QED BY <1>1, <2>1 DEF PipePart, Counted
<1>10. UserPart(ino, dino, refs)
  <2>1. /\ Used(ino, Slots, Dev) = 0 .. StdNum - 1 /\ Used(dino, Blocks, Dev) = {}
        /\ \A i \in Inodes : i # Dev => Used(ino, Slots, i) = {}
        /\ Used(dino, Blocks, Root) = {b}
        /\ \A i \in Inodes : i # Root => Used(dino, Blocks, i) = {}
    BY <1>1, <1>2 DEF Used
  <2>2. /\ Cardinality(0 .. StdNum - 1) = StdNum /\ Cardinality({b}) = 1 /\ Cardinality({}) = 0
    <3>1. 0 \in Int /\ StdNum - 1 \in Int /\ ~(0 > StdNum - 1) /\ (StdNum - 1) - 0 + 1 = StdNum
      OBVIOUS
    <3>2. Cardinality(0 .. StdNum - 1) = (StdNum - 1) - 0 + 1
      BY <3>1, FS_Interval
    <3> QED BY <3>1, <3>2, FS_Singleton, FS_EmptySet
  <2>0a. refs[Dev] = 1 + StdNum /\ refs[Root] = 2
    BY <1>1, <1>2
  <2>3. Balanced(refs[Dev], ino, Slots, dino, Blocks, Dev)
    <3>1. 1 + StdNum = 1 + StdNum + 0
      OBVIOUS
    <3> QED BY <2>1, <2>2, <2>0a, <3>1 DEF Balanced
  <2>4. Balanced(refs[Root], ino, Slots, dino, Blocks, Root)
    <3>1. 2 = 1 + 0 + 1
      OBVIOUS
    <3>2. Used(ino, Slots, Root) = {} /\ Used(dino, Blocks, Root) = {b}
      BY <1>2, <2>1
    <3> QED BY <2>2, <2>0a, <3>1, <3>2 DEF Balanced
  <2>5. \A i \in Inodes : i # Dev /\ i # Root => Balanced(refs[i], ino, Slots, dino, Blocks, i)
    BY <1>1, <2>1 DEF Balanced
  <2>6. refs \in [Inodes -> Nat]
    BY <1>1
  <2> QED BY <2>3, <2>4, <2>5, <2>6 DEF UserPart, Users
<1>11. Data
  BY <1>5, <1>7, <1>8, <1>9, <1>10 DEF Data, Parts
<1>12. CallTypes
  BY <1>1 DEF CallTypes, Labels
<1>13. \A p \in Procs : pc[p] \in {"user", "none"} /\ (pc[p] = "none" => p # first)
  BY <1>1
<1>14. Alone /\ \A p \in Procs : pc[p] \notin {"call", "store", "abandon"}
  BY <1>13 DEF Alone, InKernel
<1>15. Empty /\ NoNew
  BY <1>2, <1>4, <1>13, PlaceNames DEF Empty, NoNew
<1>16. Cwds
  <2>1. Entry("dir", b) \in DirEntries
    BY DEF DirEntries
  <2>2. ASSUME NEW p \in Procs, NEW x \in {Cwd, NewCwd} PROVE held[p][x] \in DirEntries \cup {NULL}
    <3>1. x \in Places /\ x \notin 0 .. StdNum - 1 /\ x # Kfd
      BY <1>2, PlaceNames
    <3> QED BY <1>4, <2>1, <3>1
  <2> QED BY <2>2 DEF Cwds
<1>17. Control
  BY <1>12, <1>14, <1>15, <1>16 DEF Control
<1> QED BY <1>11, <1>17 DEF Inv

LEMMA StepInv == HartNum = 1 /\ Inv /\ [Next]_vars => Inv'
<1> SUFFICES ASSUME HartNum = 1, Inv, [Next]_vars PROVE Inv'
  OBVIOUS
<1>1. ASSUME NEW p \in Procs, Step(p) PROVE Inv'
  BY <1>1, DataStep, ControlStep DEF Inv
<1>2. CASE UNCHANGED vars
  <2>1. UNCHANGED <<held, untouched, pc, todo, target, chosen, found, dangling>>
    BY <1>2 DEF vars, untouched, callVars, slotVars, dirVars, pipeVars
  <2>2. Data'
    BY <2>1 DEF Inv, Data, untouched, slotVars, dirVars, pipeVars
  <2>3. CallTypes' /\ Alone' /\ Empty' /\ NoNew' /\ Cwds'
    BY <2>1 DEF Inv, Control, CallTypes, Alone, Empty, NoNew, Cwds
  <2>4. ASSUME NEW q \in Procs PROVE Calling(q)' = Calling(q) /\ Storing(q)' = Storing(q)
    BY <2>1 DEF Calling, Storing, Next1, untouched, slotVars
  <2>5. Control'
    BY <2>1, <2>3, <2>4 DEF Inv, Control
  <2> QED BY <2>2, <2>5 DEF Inv
<1> QED BY <1>1, <1>2 DEF Next

LEMMA InvAlways == HartNum = 1 => (Spec => []Inv)
<1> SUFFICES ASSUME HartNum = 1 PROVE Spec => []Inv
  OBVIOUS
<1>1. Inv /\ [Next]_vars => Inv'
  BY StepInv
<1> QED BY <1>1, InitInv, PTL DEF Spec

-----------------------------------------------------------------------------
(* Every variable keeps its type when there is one hart: the counters of    *)
(* the inodes and the pipes never go below zero.                            *)
THEOREM FilesTypes == HartNum = 1 => (Spec => []TypeOK)
<1>1. Inv => TypeOK
  BY DEF Inv, Data, Parts, Control, CallTypes, Tables, SlotPart, DirPart, PipePart, UserPart, TypeOK, Labels
<1> QED BY <1>1, InvAlways, PTL

(* On one hart every used slot and every open directory is at exactly one   *)
(* place of one process, or was lost in one of the ways the code has to     *)
(* lose it (Release, OpenFault, Clone) and is not handed out again, whatever *)
(* the numbers of processes, slots and descriptors: what is at a place is   *)
(* never shared, never taken for free and never closed twice.               *)
THEOREM FilesSlots == HartNum = 1 => (Spec => []SlotsHaveOneOwner)
<1>1. Inv => SlotsHaveOneOwner
  <2> SUFFICES ASSUME Inv PROVE SlotsHaveOneOwner
    OBVIOUS
  <2>1. Owned(held, Files, ino, Slots, leaked) /\ Owned(held, {"dir"}, dino, Blocks, leaked)
    BY DEF Inv, Data, Parts, SlotPart, DirPart
  <2> QED BY <2>1, HoldersAt DEF Owned, SlotsHaveOneOwner
<1> QED BY <1>1, InvAlways, PTL

(* On one hart the counter of an inode is one more than what is open on it, *)
(* so vfs_fs_umount, which goes by it, takes no file system from its users. *)
THEOREM FilesUsers == HartNum = 1 => (Spec => []UsersCounted)
<1>1. Inv => UsersCounted
  <2> SUFFICES ASSUME Inv PROVE UsersCounted
    OBVIOUS
  <2>1. \A i \in Inodes : Balanced(refs[i], ino, Slots, dino, Blocks, i)
    BY DEF Inv, Data, Parts, UserPart, Users
  <2> QED BY <2>1 DEF Balanced, Used, UsersCounted, UsedSlots, UsedDirs
<1> QED BY <1>1, InvAlways, PTL

(* On one hart r_ref and w_ref of a pipe count the descriptors of its ends, *)
(* and pipe_close frees it with the last of them and not before.            *)
THEOREM FilesPipes == HartNum = 1 => (Spec => []PipesCounted)
<1>1. Inv => PipesCounted
  <2> SUFFICES ASSUME Inv PROVE PipesCounted
    OBVIOUS
  <2>1. PipePart(held, r_ref, w_ref, live)
    BY DEF Inv, Data, Parts
  <2> SUFFICES ASSUME NEW c \in Pipes
               PROVE  /\ r_ref[c] = Cardinality(Holders({"in"}, c))
                      /\ w_ref[c] = Cardinality(Holders({"out"}, c))
                      /\ c \in live <=> Holders(Ends, c) # {}
    BY DEF PipesCounted
  <2>2. r_ref[c] = Cardinality(Holders({"in"}, c)) /\ w_ref[c] = Cardinality(Holders({"out"}, c))
    BY <2>1, HoldersAt DEF PipePart, Counted
  <2>3. Holders(Ends, c) = Holders({"in"}, c) \cup Holders({"out"}, c)
    BY DEF Holders, Ends
  <2>4. /\ IsFiniteSet(Holders({"in"}, c)) /\ IsFiniteSet(Holders({"out"}, c))
    BY AtFinite, HoldersAt
  <2>5. /\ r_ref[c] \in Nat /\ w_ref[c] \in Nat /\ (c \in live <=> r_ref[c] > 0 \/ w_ref[c] > 0)
    BY <2>1 DEF PipePart
  <2>6. /\ r_ref[c] = 0 <=> Holders({"in"}, c) = {}
        /\ w_ref[c] = 0 <=> Holders({"out"}, c) = {}
    BY <2>2, <2>4, FS_EmptySet
  <2> QED BY <2>2, <2>3, <2>5, <2>6
<1> QED BY <1>1, InvAlways, PTL

(* On one hart all these counters are right.                                *)
THEOREM FilesCounted == HartNum = 1 => (Spec => []CountsMatch)
BY FilesUsers, FilesPipes, PTL DEF CountsMatch

(* A place that keeps its entry holds an object that stays.                 *)
LEMMA StaysUsed ==
    ASSUME NEW h \in Tables, NEW io, NEW pa, NEW lk, NEW di, NEW dp, NEW rr, NEW wr, NEW lv, NEW rf,
           Parts(h, io, pa, lk, di, dp, rr, wr, lv, rf),
           NEW p \in Procs, NEW x \in Places, h[p][x] # NULL
    PROVE  /\ h[p][x] \in Entries
           /\ h[p][x].type \in Files => h[p][x].obj \in Slots /\ io[h[p][x].obj] # NULL
           /\ h[p][x].type = "dir" => h[p][x].obj \in Blocks /\ di[h[p][x].obj] # NULL
           /\ h[p][x].type \in Ends => h[p][x].obj \in lv
<1> DEFINE e == h[p][x]
<1>1. SlotPart(h, io, pa, lk) /\ DirPart(h, di, dp, lk) /\ PipePart(h, rr, wr, lv)
  BY DEF Parts
<1>2. e \in Entries
  BY DEF Tables
<1>3. ASSUME e.type \in Files PROVE e.obj \in Slots /\ io[e.obj] # NULL
  <2>1. e.obj \in Slots /\ e \in Kind(Files, e.obj)
    BY <1>2, <1>3, Kinds, InKind
  <2> QED BY <1>1, <2>1, OwnedBy DEF SlotPart
<1>4. ASSUME e.type = "dir" PROVE e.obj \in Blocks /\ di[e.obj] # NULL
  <2>1. e.obj \in Blocks /\ e \in Kind({"dir"}, e.obj)
    BY <1>2, <1>4, Kinds, InKind
  <2> QED BY <1>1, <2>1, OwnedBy DEF DirPart
<1>5. ASSUME e.type \in Ends PROVE e.obj \in lv
  <2>1. e.obj \in Pipes /\ e \in Kind({e.type}, e.obj) /\ e.type \in {"in", "out"}
    BY <1>2, <1>5, Kinds, InKind DEF Ends
  <2>2. <<p, x>> \in At(h, {e.type}, e.obj)
    BY <2>1, AtHere
  <2>3. IsFiniteSet(At(h, {e.type}, e.obj)) /\ Cardinality(At(h, {e.type}, e.obj)) \in Nat
    BY AtFinite
  <2>4. Cardinality(At(h, {e.type}, e.obj)) > 0
    <3>1. Cardinality(At(h, {e.type}, e.obj)) # 0
      BY <2>2, <2>3, FS_EmptySet
    <3> QED BY <2>3, <3>1
  <2>5. e.type = "in" => rr[e.obj] > 0
    BY <1>1, <2>1, <2>4 DEF PipePart, Counted
  <2>6. e.type = "out" => wr[e.obj] > 0
    BY <1>1, <2>1, <2>4 DEF PipePart, Counted
  <2> QED BY <1>1, <2>1, <2>5, <2>6 DEF PipePart
<1> QED BY <1>2, <1>3, <1>4, <1>5

(* On one hart what a descriptor denotes is not changed by anything that    *)
(* leaves the descriptor alone, by its own process or by another.           *)
THEOREM FilesIsolated == HartNum = 1 => (Spec => Isolated)
<1> SUFFICES ASSUME HartNum = 1 PROVE Spec => Isolated
  OBVIOUS
<1> DEFINE Kept == \A p \in Procs, x \in Places :
                    held[p][x] # NULL /\ held'[p][x] = held[p][x]
                        => Denotes(held[p][x])' = Denotes(held[p][x])
<1>1. Inv /\ Next => Kept
  <2> SUFFICES ASSUME Inv, NEW r \in Procs, Step(r),
                      NEW p \in Procs, NEW x \in Places, held[p][x] # NULL, held'[p][x] = held[p][x]
               PROVE  Denotes(held[p][x])' = Denotes(held[p][x])
    BY DEF Next
  <2> DEFINE e == held[p][x]
             f == held'[p][x]
  <2>1. Data /\ Control /\ Data' /\ Frame
    BY DataStep, FrameStep DEF Inv
  <2>2. /\ e \in Entries
        /\ e.type \in Files => e.obj \in Slots /\ ino[e.obj] # NULL
        /\ e.type = "dir" => e.obj \in Blocks /\ dino[e.obj] # NULL
        /\ e.type \in Ends => e.obj \in live
    BY <2>1, StaysUsed DEF Data
  <2>3. /\ f.type \in Files => ino'[f.obj] # NULL
        /\ f.type = "dir" => dino'[f.obj] # NULL
        /\ f.type \in Ends => f.obj \in live'
    BY <2>1, StaysUsed DEF Data
  <2>4. e.type \in Files => ino'[e.obj] = ino[e.obj] /\ path'[e.obj] = path[e.obj]
    BY <2>1, <2>2, <2>3 DEF Frame, SameSlot
  <2>5. e.type = "dir" => dino'[e.obj] = dino[e.obj] /\ dpath'[e.obj] = dpath[e.obj]
    BY <2>1, <2>2, <2>3 DEF Frame, SameDir
  <2>6. e.type \in Ends => (e.obj \in live') = (e.obj \in live)
    BY <2>2, <2>3
  <2> QED BY <2>4, <2>5, <2>6 DEF Denotes
<1>2. Spec => []Inv
  BY InvAlways
<1>3. Inv /\ [Next]_vars => [Kept]_vars
  BY <1>1
<1> QED BY <1>2, <1>3, PTL DEF Spec, Isolated
=============================================================================
