----------------------------- MODULE GstRegistry -----------------------------
(***************************************************************************)
(* The binary plugin cache of GStreamer (meta/recipes-multimedia/          *)
(* gstreamer/gstreamer-0.10.32/gstregistrybinary.c): processes that read   *)
(* it when they start, bring their registry up to date with the plugin     *)
(* files, and write it again, while files change, writes fail and          *)
(* processes are killed.  A structure of the file is a chunk.  What the    *)
(* rest of GStreamer does, scanning the files, is external.                *)
(***************************************************************************)
EXTENDS Naturals, Sequences, FiniteSets, SequencesExt

CONSTANTS
  Process,       (* processes that share the cache                         *)
  Plugin,        (* plugins                                                *)
  Kinds,         (* what the plugins may be, functions as in PluginKinds   *)
  MaxVersion     (* bound: versions of a plugin file                       *)

(* A plugin may be in a file; or built in, without one; or in a file whose  *)
(* time is before 1970; or have a feature of a type that only the plugin,   *)
(* once loaded, registers.                                                  *)
PluginKinds == [Plugin -> { "file", "static", "old", "foreign" }]

ASSUME KindsAssumption == Kinds \subseteq PluginKinds
ASSUME PluginAssumption == IsFiniteSet(Plugin)

VARIABLES
  kind,
  file,          (* the version of each plugin's file, 0 when it is gone   *)
  location,      (* the cache: its chunks; empty when there is none        *)
  pc,            (* where each process is                                  *)
  mapped,        (* what each process still has to read of the cache it    *)
                 (* mapped, which stays when another is renamed over it    *)
  plugins,       (* registry->plugins of each process                      *)
  left,          (* plugins that are still to be walked, from the last     *)
  to_write,
  tmp,           (* the temporary file of each process                     *)
  goal,          (* the plugins that are in the cache a process reads, and *)
                 (* later those that are to be in the one it writes        *)
  cached         (* those in the cache that was renamed last               *)

vars == <<kind, file, location, pc, mapped, plugins, left, to_write, tmp, goal, cached>>

Magic          == [ kind |-> "magic", plugin |-> "none", version |-> 0 ]
Element(e)     == [ kind |-> "plugin", plugin |-> e.plugin, version |-> e.version ]
Feature(e)     == [ kind |-> "feature", plugin |-> e.plugin, version |-> e.version ]
Torn           == [ kind |-> "torn", plugin |-> "none", version |-> 0 ]
Entry(p, v, c) == [ plugin |-> p, version |-> v, cached |-> c ]

(* A newer version of a plugin has one more feature.                        *)
nfeatures(e) == e.version

-----------------------------------------------------------------------------
(* read_cache maps the file that has the name now.  Without one, or without *)
(* the magic, there is nothing to read.                                     *)
Start(i) ==
  /\ pc[i] = "off"
  /\ LET known == location # <<>> /\ Head(location).kind = "magic"
     IN mapped' = [mapped EXCEPT ![i] = IF known THEN Tail(location) ELSE <<>>]
  /\ pc' = [pc EXCEPT ![i] = "reading"]
  /\ goal' = [goal EXCEPT ![i] = cached]
  /\ UNCHANGED <<kind, file, location, plugins, left, to_write, tmp, cached>>

(* get_binary_plugin refuses an invalid time, and a feature of an unknown   *)
(* type.                                                                    *)
Refused(p) == kind[p] \in { "old", "foreign" }

Readable(chunks) ==
  /\ Head(chunks).kind = "plugin" /\ ~Refused(Head(chunks).plugin)
  /\ nfeatures(Head(chunks)) < Len(chunks)
  /\ \A k \in 2 .. nfeatures(Head(chunks)) + 1 : chunks[k].kind = "feature"

(* get_binary_plugin adds a plugin in front of the list, as                 *)
(* gst_registry_add_plugin does, and the loop goes on behind its features.  *)
(* It returns -1 for what it refuses; but inc is unsigned and not zero, so  *)
(* the loop goes on one byte before the plugin, and what it reads from      *)
(* there on is anything.                                                    *)
ReadPlugin(i) ==
  /\ pc[i] = "reading" /\ mapped[i] # <<>>
  /\ LET e == Head(mapped[i])
     IN IF Readable(mapped[i])
        THEN /\ plugins' = [plugins EXCEPT ![i] = <<Entry(e.plugin, e.version, TRUE)>> \o @]
             /\ mapped' = [mapped EXCEPT ![i] = SubSeq(@, nfeatures(e) + 2, Len(@))]
             /\ UNCHANGED pc
        ELSE /\ pc' = [pc EXCEPT ![i] = "astray"]
             /\ UNCHANGED <<plugins, mapped>>
  /\ UNCHANGED <<kind, file, location, left, to_write, tmp, goal, cached>>

HasRead(i) == pc[i] = "reading" /\ mapped[i] = <<>>

(* External: what is cached and current stays, what is not is loaded, what  *)
(* is gone is forgotten.                                                    *)
Scan(i) ==
  /\ HasRead(i)
  /\ LET kept  == { e \in ToSet(plugins[i]) : e.version = file[e.plugin] }
         known == { e.plugin : e \in kept }
         new   == { p \in Plugin \ known : kind[p] = "static" \/ file[p] # 0 }
     IN \E list \in SetToSeqs(kept \cup { Entry(p, file[p], FALSE) : p \in new }) :
          plugins' = [plugins EXCEPT ![i] = list]
  /\ pc' = [pc EXCEPT ![i] = "scanned"]
  /\ goal' = [goal EXCEPT ![i] = {}]
  /\ UNCHANGED <<kind, file, location, mapped, left, to_write, tmp, cached>>

-----------------------------------------------------------------------------
(* write_cache: a temporary file of its own, and the chunk with the magic.  *)
Mkstemp(i) ==
  /\ pc[i] = "scanned"
  /\ pc' = [pc EXCEPT ![i] = "walk"]
  /\ tmp' = [tmp EXCEPT ![i] = <<>>]
  /\ to_write' = [to_write EXCEPT ![i] = <<Magic>>]
  /\ left' = [left EXCEPT ![i] = Len(plugins[i])]
  /\ UNCHANGED <<kind, file, location, mapped, plugins, goal, cached>>

(* A plugin without a file is not written, nor one that came from the cache *)
(* and is not as its file is now.                                           *)
Saved(e) ==
  /\ kind[e.plugin] # "static"
  /\ e.cached => e.version = file[e.plugin]

save_plugin(e) == <<Element(e)>> \o [k \in 1 .. nfeatures(e) |-> Feature(e)]

Walk(i) ==
  /\ pc[i] = "walk" /\ left[i] > 0
  /\ LET e == plugins[i][left[i]]
     IN IF Saved(e)
        THEN /\ to_write' = [to_write EXCEPT ![i] = @ \o save_plugin(e)]
             /\ goal' = [goal EXCEPT ![i] = @ \cup { Entry(e.plugin, e.version, TRUE) }]
        ELSE UNCHANGED <<to_write, goal>>
  /\ left' = [left EXCEPT ![i] = @ - 1]
  /\ UNCHANGED <<kind, file, location, pc, mapped, plugins, tmp, cached>>

Write_TryAnyway(i) ==
  /\ pc[i] = "walk" /\ left[i] = 0 /\ to_write[i] # <<>>
  /\ to_write' = [to_write EXCEPT ![i] = Tail(@)]
  /\ \E chunk \in { Head(to_write[i]), Torn } : tmp' = [tmp EXCEPT ![i] = Append(@, chunk)]
  /\ UNCHANGED <<kind, file, location, pc, mapped, plugins, left, goal, cached>>

(* A process that is through with the cache, or ended, keeps nothing of it; *)
(* what it left of its temporary file stays there and is never read.        *)
Over(i) ==
  /\ pc' = [pc EXCEPT ![i] = "off"]
  /\ mapped' = [mapped EXCEPT ![i] = <<>>]
  /\ plugins' = [plugins EXCEPT ![i] = <<>>]
  /\ left' = [left EXCEPT ![i] = 0]
  /\ to_write' = [to_write EXCEPT ![i] = <<>>]
  /\ tmp' = [tmp EXCEPT ![i] = <<>>]
  /\ goal' = [goal EXCEPT ![i] = {}]

(* A chunk is written; or only a part of it is, the write has failed, and   *)
(* write_cache gives up.                                                    *)
Write(i) ==
  /\ pc[i] = "walk" /\ left[i] = 0 /\ to_write[i] # <<>>
  /\ to_write' = [to_write EXCEPT ![i] = Tail(@)]
  /\ tmp' = [tmp EXCEPT ![i] = Append(@, Head(to_write[i]))]
  /\ UNCHANGED <<kind, file, location, pc, mapped, plugins, left, goal, cached>>

WriteFails(i) ==
  /\ pc[i] = "walk" /\ left[i] = 0 /\ to_write[i] # <<>>
  /\ Over(i)
  /\ UNCHANGED <<kind, file, location, cached>>

Close(i) ==
  /\ pc[i] = "walk" /\ left[i] = 0 /\ to_write[i] = <<>>
  /\ pc' = [pc EXCEPT ![i] = "closed"]
  /\ UNCHANGED <<kind, file, location, mapped, plugins, left, to_write, tmp, goal, cached>>

Rename(i) ==
  /\ pc[i] = "closed"
  /\ location' = tmp[i]
  /\ cached' = goal[i]
  /\ Over(i)
  /\ UNCHANGED <<kind, file>>

(* mkstemp or close fails, the process is killed, or it simply ends.        *)
End(i) ==
  /\ pc[i] # "off"
  /\ Over(i)
  /\ UNCHANGED <<kind, file, location, cached>>

(* A plugin's file is replaced by the next version, or removed.             *)
FileChanges(p) ==
  /\ kind[p] # "static" /\ file[p] # 0
  /\ \E v \in { 0, file[p] + 1 } \cap 0 .. MaxVersion : file' = [file EXCEPT ![p] = v]
  /\ UNCHANGED <<kind, location, pc, mapped, plugins, left, to_write, tmp, goal, cached>>

Init ==
  /\ kind \in Kinds
  /\ file = [p \in Plugin |-> IF kind[p] = "static" THEN 0 ELSE 1]
  /\ location = <<>>
  /\ pc = [i \in Process |-> "off"]
  /\ mapped = [i \in Process |-> <<>>]
  /\ plugins = [i \in Process |-> <<>>]
  /\ left = [i \in Process |-> 0]
  /\ to_write = [i \in Process |-> <<>>]
  /\ tmp = [i \in Process |-> <<>>]
  /\ goal = [i \in Process |-> {}]
  /\ cached = {}

Next ==
  \/ \E i \in Process :
       \/ Start(i) \/ ReadPlugin(i) \/ Scan(i) \/ Mkstemp(i)
       \/ Walk(i) \/ Write(i) \/ WriteFails(i) \/ Close(i) \/ Rename(i) \/ End(i)
  \/ \E p \in Plugin : FileChanges(p)

Spec == Init /\ [][Next]_vars

-----------------------------------------------------------------------------
(* Whichever processes write, fail and are killed, and whatever is renamed  *)
(* while a process reads, it finds the cache that was renamed last when it  *)
(* began, whole: the plugins its writer had, each with all its features,    *)
(* and no others.  Not so with a plugin that is written and then refused.   *)
CacheWhole ==
  (\A p \in Plugin : ~Refused(p)) =>
    \A i \in Process :
      /\ pc[i] # "astray"
      /\ HasRead(i) => ToSet(plugins[i]) = goal[i]
=============================================================================
