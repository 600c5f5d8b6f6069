------------------------------ MODULE MakeDevs ------------------------------
(***************************************************************************)
(* makedevs (meta/recipes-devtools/makedevs/makedevs-1.0.0/makedevs.c),    *)
(* which puts the nodes of a device table into the root of an image, as    *)
(* root and with the root directory given by an absolute path.  A root is  *)
(* a function from the paths that exist to nodes; a path has a directory   *)
(* ("" is the top), a name and a number, NoNumber if it has none.  What    *)
(* becomes of the program goes with the root: it goes on, dies or blocks.  *)
(***************************************************************************)
EXTENDS Integers, Sequences, SequencesExt

NoNumber == -1
Path(dir, base, n) == [ dir |-> dir, base |-> base, n |-> n ]
NoDevice == [ major |-> 0, minor |-> 0 ]
RootDir  == Path("", "", NoNumber)

Exists(fs, p)  == p \in DOMAIN fs
HasPlace(fs, p) ==
  p.dir = "" \/ LET d == Path("", p.dir, NoNumber) IN Exists(fs, d) /\ fs[d].type = "d"

(* The calls.  Their failure is for the caller to see, or to ignore.        *)
Fresh(fs, p) == HasPlace(fs, p) /\ ~Exists(fs, p)
Made(fs, p, type, rdev) ==
  IF Fresh(fs, p)
  THEN [ q \in DOMAIN fs \cup {p} |->
           IF q = p THEN [ type |-> type, owner |-> "root", rdev |-> rdev ] ELSE fs[q] ]
  ELSE fs
Chowned(fs, p, owner) == IF Exists(fs, p) THEN [fs EXCEPT ![p].owner = owner] ELSE fs

Ok(fs)      == [ end |-> "ok", fs |-> fs ]
Died(fs)    == [ end |-> "died", fs |-> fs ]
Blocked(fs) == [ end |-> "blocked", fs |-> fs ]

-----------------------------------------------------------------------------
add_new_directory_Strict(fs, path, owner) ==
  IF Fresh(fs, path) THEN Ok(Chowned(Made(fs, path, "d", NoDevice), path, owner)) ELSE Died(fs)

(* What is there already, even a file, is taken.                            *)
add_new_directory(fs, path, owner) == Ok(Chowned(Made(fs, path, "d", NoDevice), path, owner))

(* The node is made under name; the test and the owner are path's.          *)
add_new_device(fs, name, path, owner, type, rdev) ==
  IF Exists(fs, path) /\ fs[path].type # type
  THEN Died(fs)
  ELSE Ok(Chowned(Made(fs, name, type, rdev), path, owner))

(* open(O_CREAT) makes the file that is not there.  A directory cannot be   *)
(* opened for writing, nor the node of a device that is not there; a fifo   *)
(* is, when there is a reader, and nobody reads in the root of an image.    *)
add_new_file(fs, path, owner) ==
  IF Fresh(fs, path) \/ (Exists(fs, path) /\ fs[path].type = "f")
  THEN Ok(Chowned(Made(fs, path, "f", NoDevice), path, owner))
  ELSE IF Exists(fs, path) /\ fs[path].type = "p" THEN Blocked(fs) ELSE Died(fs)

add_new_fifo(fs, path, owner) ==
  IF Fresh(fs, path) THEN Ok(Chowned(Made(fs, path, "p", NoDevice), path, owner)) ELSE Died(fs)

(* The nodes of an entry with a count, in their order.                      *)
Numbers(e) == [k \in 1 .. (IF e.count > e.start THEN e.count - e.start ELSE 0) |-> e.start + k - 1]
Rdev(e, i) == [ major |-> e.major, minor |-> e.minor + (i * e.increment - e.start) ]

interpret_table_entry(r, e) ==
  LET path == e.path
      NumberedDevice(s, i) ==
        IF s.end = "ok" THEN add_new_device(s.fs, [path EXCEPT !.n = i], path, e.owner, e.type, Rdev(e, i)) ELSE s
  IN IF r.end # "ok" THEN r
     ELSE IF path = RootDir \/ e.type \notin { "d", "f", "p", "c", "b" } THEN Died(r.fs)
     ELSE CASE e.type = "d" -> add_new_directory(r.fs, path, e.owner)
            [] e.type = "f" -> add_new_file(r.fs, path, e.owner)
            [] e.type = "p" -> add_new_fifo(r.fs, path, e.owner)
            [] e.type \in { "c", "b" } /\ e.count > 0 -> FoldLeft(NumberedDevice, r, Numbers(e))
            [] e.type \in { "c", "b" } /\ e.count = 0 ->
                 add_new_device(r.fs, path, path, e.owner, e.type, [ major |-> e.major, minor |-> e.minor ])

parse_device_table(fs, table) == FoldLeft(interpret_table_entry, Ok(fs), table)

-----------------------------------------------------------------------------
(* What a table says: the nodes of an entry, the entries in conflict, and   *)
(* whether the directory of each entry is there before it.                  *)
IsNumbered(e) == e.type \in { "c", "b" } /\ e.count > 0
Nodes(e) == IF IsNumbered(e) THEN { [e.path EXCEPT !.n = i] : i \in ToSet(Numbers(e)) } ELSE { e.path }
Touched(e) == Nodes(e) \cup { e.path }

Agree(fs, table) ==
  /\ \A j, k \in DOMAIN table :
       Touched(table[j]) \cap Touched(table[k]) # {} => table[j].type = table[k].type
  /\ \A k \in DOMAIN table : \A p \in Touched(table[k]) : Exists(fs, p) => fs[p].type = table[k].type

DirectoriesFirst(fs, table) ==
  \A k \in DOMAIN table :
    HasPlace(fs, table[k].path) \/ \E j \in 1 .. k - 1 :
      table[j].type = "d" /\ table[j].path = Path("", table[k].path.dir, NoNumber)

(* "Regular files must exist in the target root directory" (the comment     *)
(* above interpret_table_entry; add_new_file makes one that does not).      *)
FilesThere(fs, table) == \A e \in ToSet(table) : e.type = "f" => Exists(fs, e.path)

(* The node is what the entry says; its owner is the one of the last entry  *)
(* that names it, but the nodes of a range stay root's; two new nodes of    *)
(* one entry are two devices.                                               *)
Honoured(old, fs, table) ==
  \A k \in DOMAIN table :
    LET e == table[k]
    IN /\ \A p \in Nodes(e) : Exists(fs, p) /\ fs[p].type = e.type
       /\ (/\ ~IsNumbered(e)
           /\ \A j \in k + 1 .. Len(table) : table[j].path # e.path) => fs[e.path].owner = e.owner
       /\ \A p, q \in Nodes(e) \ DOMAIN old :
            (/\ p # q /\ e.increment > 0
             /\ \A j \in DOMAIN table \ {k} : {p, q} \cap Touched(table[j]) = {}) => fs[p].rdev # fs[q].rdev

Fifos(table) == { e.path : e \in { x \in ToSet(table) : x.type = "p" } }
EachFifoOnce(table) ==
  \A j, k \in DOMAIN table :
    (table[j].type = "p" /\ table[k].type = "p" /\ j # k) => table[j].path # table[k].path

(* A table whose entries agree with each other and with the root, that      *)
(* lists directories first and regular files that are there, is put in as   *)
(* it says; and when it is put in again, as when an image is built again on *)
(* its root, nothing changes, unless it has a fifo.                         *)
TablePutIn(fs, table) ==
  (Agree(fs, table) /\ DirectoriesFirst(fs, table) /\ FilesThere(fs, table)) =>
    LET once  == parse_device_table(fs, table)
        again == parse_device_table(once.fs, table)
    IN /\ once.end = "ok" <=> Fifos(table) \cap DOMAIN fs = {} /\ EachFifoOnce(table)
       /\ once.end = "ok" =>
            /\ \A p \in DOMAIN fs : once.fs[p].type = fs[p].type
            /\ DOMAIN once.fs = DOMAIN fs \cup UNION { Nodes(e) : e \in ToSet(table) }
            /\ Honoured(fs, once.fs, table)
            /\ IF Fifos(table) = {} THEN again = once ELSE again.end = "died"
=============================================================================
