----------------------------- MODULE FileProofs -----------------------------
(***************************************************************************)
(* Two components whose state is in files.  Whoever reads GStreamer's      *)
(* plugin cache finds the one that was renamed last when it began, whole,  *)
(* for any processes, plugins and versions; and a lock taken through       *)
(* lockfile excludes, for any callers and any inodes.                      *)
(***************************************************************************)
EXTENDS GstRegistry, LockFile, FiniteSetTheorems, TLAPS

EntryType == [ plugin : Plugin, version : Nat, cached : BOOLEAN ]
ChunkType == [ kind : { "magic", "torn" }, plugin : { "none" }, version : { 0 } ]
        \cup [ kind : { "plugin", "feature" }, plugin : Plugin, version : Nat ]
CacheSteps == { "off", "reading", "astray", "scanned", "walk", "closed" }

CacheTypeOK ==
  /\ kind \in PluginKinds
  /\ file \in [Plugin -> Nat]
  /\ location \in Seq(ChunkType)
  /\ pc \in [Process -> CacheSteps]
  /\ mapped \in [Process -> Seq(ChunkType)]
  /\ plugins \in [Process -> Seq(EntryType)]
  /\ left \in [Process -> Nat]
  /\ to_write \in [Process -> Seq(ChunkType)]
  /\ tmp \in [Process -> Seq(ChunkType)]
  /\ goal \in [Process -> SUBSET EntryType]
  /\ cached \in SUBSET EntryType

(* Chunks in groups: a plugin, as many features as it has, and the next     *)
(* plugin or the end.                                                       *)
Grouped(s) ==
  /\ s # <<>> => s[1].kind = "plugin"
  /\ \A k \in 1 .. Len(s) : s[k].kind = "plugin" =>
       /\ k + nfeatures(s[k]) <= Len(s)
       /\ \A j \in 1 .. nfeatures(s[k]) : s[k + j].kind = "feature"
       /\ k + nfeatures(s[k]) < Len(s) => s[k + nfeatures(s[k]) + 1].kind = "plugin"

(* The plugins of a sequence of chunks, as a reader enters them.            *)
Places(s) == { k \in 1 .. Len(s) : s[k].kind = "plugin" }
Listed(s) == { Entry(s[k].plugin, s[k].version, TRUE) : k \in Places(s) }

(* A whole cache with these plugins.                                        *)
Whole(s, entries) ==
  /\ s # <<>> /\ Head(s).kind = "magic"
  /\ Grouped(Tail(s))
  /\ Listed(Tail(s)) = entries

NoneRefused == \A p \in Plugin : ~Refused(p)

(* What a process has read and is still to read is what was renamed last    *)
(* when it began; what it has written and is still to write is whole, and   *)
(* lists what it has walked.                                                *)
Reads(i) ==
  /\ pc[i] = "off" => plugins[i] = <<>>
  /\ pc[i] = "reading" =>
       /\ Grouped(mapped[i])
       /\ ToSet(plugins[i]) \cup Listed(mapped[i]) = goal[i]
  /\ NoneRefused => pc[i] # "astray"
Writes(i) ==
  /\ pc[i] = "scanned" => goal[i] = {}
  /\ pc[i] = "walk" =>
       /\ Whole(tmp[i] \o to_write[i], goal[i])
       /\ left[i] <= Len(plugins[i])
       /\ left[i] > 0 => tmp[i] = <<>>
  /\ pc[i] = "closed" => Whole(tmp[i], goal[i])

AtName ==
  \/ location = <<>> /\ cached = {}
  \/ Whole(location, cached)

CacheInv ==
  /\ CacheTypeOK
  /\ AtName
  /\ \A i \in Process : Reads(i) /\ Writes(i)

-----------------------------------------------------------------------------
LEMMA Joined ==
  ASSUME NEW S, NEW s \in Seq(S), NEW t \in Seq(S)
  PROVE  /\ s \o t \in Seq(S) /\ Len(s \o t) = Len(s) + Len(t)
         /\ \A k \in 1 .. Len(s) : (s \o t)[k] = s[k]
         /\ \A k \in 1 .. Len(t) : (s \o t)[Len(s) + k] = t[k]
         /\ \A k \in 1 .. Len(s) + Len(t) :
              k > Len(s) => k - Len(s) \in 1 .. Len(t) /\ (s \o t)[k] = t[k - Len(s)]
OBVIOUS

LEMMA Remainder ==
  ASSUME NEW S, NEW s \in Seq(S), NEW m \in Nat, m <= Len(s)
  PROVE  /\ SubSeq(s, m + 1, Len(s)) \in Seq(S)
         /\ Len(SubSeq(s, m + 1, Len(s))) = Len(s) - m
         /\ \A k \in 1 .. Len(s) - m : SubSeq(s, m + 1, Len(s))[k] = s[m + k]
OBVIOUS

LEMMA TailOf ==
  ASSUME NEW S, NEW s \in Seq(S), s # <<>>
  PROVE  /\ Len(s) \in Nat /\ Len(s) > 0 /\ Head(s) \in S /\ Head(s) = s[1]
         /\ Tail(s) \in Seq(S) /\ Len(Tail(s)) = Len(s) - 1
         /\ \A k \in 1 .. Len(s) - 1 : Tail(s)[k] = s[k + 1]
OBVIOUS

LEMMA ChunkFields ==
  ASSUME NEW c \in ChunkType
  PROVE  /\ c.version \in Nat
         /\ c.kind = "plugin" => c.plugin \in Plugin
BY DEF ChunkType

(* What save_plugin adds is a group.                                        *)
LEMMA SavedGroup ==
  ASSUME NEW e \in EntryType
  PROVE  /\ save_plugin(e) \in Seq(ChunkType)
         /\ Len(save_plugin(e)) = e.version + 1
         /\ save_plugin(e)[1] = Element(e)
         /\ \A k \in 1 .. e.version : save_plugin(e)[k + 1] = Feature(e)
<1> DEFINE f == [k \in 1 .. e.version |-> Feature(e)]
<1>1. e.version \in Nat /\ e.plugin \in Plugin
  BY DEF EntryType
<1>2. Element(e) \in ChunkType /\ Feature(e) \in ChunkType
  BY <1>1 DEF Element, Feature, ChunkType
<1>3. f \in Seq(ChunkType) /\ Len(f) = e.version /\ \A k \in 1 .. e.version : f[k] = Feature(e)
  BY <1>1, <1>2
<1>4. <<Element(e)>> \in Seq(ChunkType) /\ Len(<<Element(e)>>) = 1 /\ <<Element(e)>>[1] = Element(e)
  BY <1>2
<1>5. save_plugin(e) = <<Element(e)>> \o f
  BY DEF save_plugin, nfeatures
<1> HIDE DEF f
<1> QED
  BY <1>1, <1>3, <1>4, <1>5, Joined

LEMMA GroupAdded ==
  ASSUME NEW s \in Seq(ChunkType), Grouped(s), NEW e \in EntryType
  PROVE  /\ Grouped(s \o save_plugin(e))
         /\ Listed(s \o save_plugin(e)) = Listed(s) \cup { Entry(e.plugin, e.version, TRUE) }
<1> DEFINE g == save_plugin(e)
           t == s \o g
           n == Len(s)
<1>1. e.version \in Nat /\ n \in Nat
  BY DEF EntryType
<1>2. g \in Seq(ChunkType) /\ Len(g) = e.version + 1
  BY SavedGroup
<1>3. g[1].kind = "plugin" /\ g[1].version = e.version /\ g[1].plugin = e.plugin
  <2>1. g[1] = Element(e)
    BY SavedGroup
  <2> HIDE DEF g
  <2> QED BY <2>1 DEF Element
<1>4. \A k \in 1 .. e.version : g[k + 1].kind = "feature"
  <2>1. \A k \in 1 .. e.version : g[k + 1] = Feature(e)
    BY SavedGroup
  <2> HIDE DEF g
  <2> QED BY <2>1 DEF Feature
<1> HIDE DEF g
<1>5. /\ t \in Seq(ChunkType) /\ Len(t) = n + e.version + 1
      /\ \A k \in 1 .. n : t[k] = s[k]
      /\ \A k \in 1 .. e.version + 1 : t[n + k] = g[k]
  <2>1. Len(t) = n + (e.version + 1)
    BY <1>2, Joined
  <2> QED BY <1>1, <1>2, <2>1, Joined
<1> HIDE DEF t
<1>6. /\ \A k \in 1 .. n : t[k].kind = s[k].kind /\ t[k].version = s[k].version /\ t[k].plugin = s[k].plugin
      /\ t[n + 1].kind = "plugin" /\ t[n + 1].version = e.version /\ t[n + 1].plugin = e.plugin
  <2>1. 1 \in 1 .. e.version + 1
    BY <1>1
  <2>2. t[n + 1] = g[1]
    BY <1>5, <2>1
  <2> QED BY <1>3, <1>5, <2>2
<1>7. \A j \in 1 .. e.version : t[n + 1 + j].kind = "feature"
  <2> TAKE j \in 1 .. e.version
  <2>1. j + 1 \in 1 .. e.version + 1 /\ n + (j + 1) = n + 1 + j
    BY <1>1
  <2> QED BY <1>4, <1>5, <2>1
<1>8. \A k \in 1 .. n : s[k].version \in Nat
  BY ChunkFields
<1>9. \A k \in 1 .. Len(t) : k <= n \/ k = n + 1 \/ \E j \in 1 .. e.version : k = n + 1 + j
  <2> TAKE k \in 1 .. Len(t)
  <2>1. CASE k > n + 1
    <3>1. k - n - 1 \in 1 .. e.version /\ k = n + 1 + (k - n - 1)
      BY <1>1, <1>5, <2>1
    <3> QED BY <3>1
  <2> QED BY <1>1, <2>1
<1>10. Places(t) = Places(s) \cup { n + 1 }
  <2>1. ASSUME NEW k \in Places(t) PROVE k \in Places(s) \cup { n + 1 }
    <3>1. k \in 1 .. Len(t) /\ t[k].kind = "plugin"
      BY <2>1 DEF Places
    <3>2. CASE k <= n
      BY <1>1, <1>6, <3>1, <3>2 DEF Places
    <3>3. CASE k = n + 1
      BY <3>3
    <3>4. CASE \E j \in 1 .. e.version : k = n + 1 + j
      BY <1>7, <3>1, <3>4
    <3> QED BY <1>9, <3>1, <3>2, <3>3, <3>4
  <2>2. ASSUME NEW k \in Places(s) PROVE k \in Places(t)
    <3>1. k \in 1 .. n /\ s[k].kind = "plugin"
      BY DEF Places
    <3>2. k \in 1 .. Len(t)
      BY <1>1, <1>5, <3>1
    <3> QED BY <1>6, <3>1, <3>2 DEF Places
  <2>3. n + 1 \in Places(t)
    BY <1>1, <1>5, <1>6 DEF Places
  <2> QED BY <2>1, <2>2, <2>3
<1>11. Listed(t) = Listed(s) \cup { Entry(e.plugin, e.version, TRUE) }
  <2>1. \A k \in Places(s) : t[k].plugin = s[k].plugin /\ t[k].version = s[k].version
    BY <1>6 DEF Places
  <2> QED BY <1>6, <1>10, <2>1 DEF Listed, Entry
<1>12. Grouped(t)
  <2>1. t[1].kind = "plugin"
    <3>1. CASE n = 0
      BY <1>6, <3>1
    <3>2. CASE n > 0
      BY <1>6, <3>2 DEF Grouped
    <3> QED BY <1>1, <3>1, <3>2
  <2> DEFINE Behind(k) == k + nfeatures(t[k])
             Good(k) == /\ Behind(k) <= Len(t)
                        /\ \A j \in 1 .. nfeatures(t[k]) : t[k + j].kind = "feature"
                        /\ Behind(k) < Len(t) => t[Behind(k) + 1].kind = "plugin"
  <2>2. Good(n + 1)
    BY <1>1, <1>5, <1>6, <1>7 DEF nfeatures
  <2>3. ASSUME NEW k \in Places(s) PROVE Good(k)
    <3>1. /\ k \in 1 .. n /\ s[k].kind = "plugin" /\ s[k].version \in Nat
          /\ nfeatures(t[k]) = s[k].version
      BY <1>6, <1>8, <2>3 DEF Places, nfeatures
    <3> DEFINE v == s[k].version
    <3>2. k + v <= n /\ (\A j \in 1 .. v : s[k + j].kind = "feature")
          /\ (k + v < n => s[k + v + 1].kind = "plugin")
      BY <3>1 DEF Grouped, nfeatures
    <3>3. Behind(k) <= Len(t)
      BY <1>1, <1>5, <3>1, <3>2
    <3>4. ASSUME NEW j \in 1 .. v PROVE t[k + j].kind = "feature"
      <4>1. k + j \in 1 .. n
        <5>1. j \in Nat /\ j >= 1 /\ j <= v /\ v \in Nat /\ k \in Nat /\ k >= 1
          BY <1>1, <3>1
        <5> HIDE DEF n, v
        <5> QED BY <1>1, <3>2, <5>1
      <4> QED BY <1>6, <3>2, <4>1
    <3>5. t[k + v + 1].kind = "plugin"
      <4>1. CASE k + v < n
        <5>1. k + v + 1 \in 1 .. n
          BY <1>1, <3>1, <4>1
        <5> QED BY <1>6, <3>2, <4>1, <5>1
      <4>2. CASE k + v = n
        BY <1>6, <4>2
      <4> QED BY <1>1, <3>1, <3>2, <4>1, <4>2
    <3> QED BY <3>1, <3>3, <3>4, <3>5
  <2>4. \A k \in Places(t) : Good(k)
    BY <1>10, <2>2, <2>3
  <2> HIDE DEF n
  <2> QED BY <2>1, <2>4 DEF Grouped, Places
<1> QED BY <1>11, <1>12 DEF t, g

(* What is read is the first group.                                         *)
LEMMA GroupRead ==
  ASSUME NEW s \in Seq(ChunkType), Grouped(s), s # <<>>
  PROVE  LET n == nfeatures(Head(s))
             r == SubSeq(s, n + 2, Len(s))
         IN /\ Head(s) \in ChunkType /\ Head(s).kind = "plugin" /\ n < Len(s)
            /\ \A k \in 2 .. n + 1 : s[k].kind = "feature"
            /\ r \in Seq(ChunkType) /\ Grouped(r)
            /\ Listed(s) = Listed(r) \cup { Entry(Head(s).plugin, Head(s).version, TRUE) }
<1> DEFINE n == nfeatures(Head(s))
           m == Len(s)
           r == SubSeq(s, n + 2, m)
<1>1. m \in Nat /\ m > 0 /\ Head(s) \in ChunkType /\ Head(s) = s[1]
  BY TailOf
<1>2. n \in Nat
  BY <1>1, ChunkFields DEF nfeatures
<1>3. s[1].kind = "plugin" /\ nfeatures(s[1]) = n
  BY <1>1 DEF Grouped
<1>4. 1 + n <= m /\ (\A j \in 1 .. n : s[1 + j].kind = "feature")
      /\ (1 + n < m => s[1 + n + 1].kind = "plugin")
  BY <1>1, <1>3 DEF Grouped
<1> HIDE DEF n
<1>5. \A k \in 2 .. n + 1 : s[k].kind = "feature"
  <2> TAKE k \in 2 .. n + 1
  <2>1. k - 1 \in 1 .. n /\ 1 + (k - 1) = k
    BY <1>2
  <2> QED BY <1>4, <2>1
<1>6. /\ r \in Seq(ChunkType) /\ Len(r) = m - (n + 1)
      /\ \A k \in 1 .. m - (n + 1) : r[k] = s[n + 1 + k]
  <2>1. n + 1 \in Nat /\ n + 1 <= m /\ (n + 1) + 1 = n + 2
    BY <1>1, <1>2, <1>4
  <2> QED BY <2>1, Remainder
<1> HIDE DEF r, m
<1>7. \A k \in 1 .. Len(r) : k \in Nat /\ n + 1 + k \in 1 .. m /\ r[k] = s[n + 1 + k]
  BY <1>1, <1>2, <1>6
<1>8. \A k \in 1 .. m : k > n + 1 => k - (n + 1) \in 1 .. Len(r) /\ s[k] = r[k - (n + 1)]
  <2> TAKE k \in 1 .. m
  <2> HAVE k > n + 1
  <2>1. k - (n + 1) \in 1 .. Len(r) /\ n + 1 + (k - (n + 1)) = k
    BY <1>1, <1>2, <1>6
  <2> QED BY <1>7, <2>1
<1>9. Listed(s) = Listed(r) \cup { Entry(s[1].plugin, s[1].version, TRUE) }
  <2>1. ASSUME NEW x \in Listed(s) PROVE x \in Listed(r) \cup { Entry(s[1].plugin, s[1].version, TRUE) }
    <3>1. PICK k \in 1 .. m : s[k].kind = "plugin" /\ x = Entry(s[k].plugin, s[k].version, TRUE)
      BY <2>1 DEF Listed, Places, m
    <3>2. CASE k = 1
      BY <3>1, <3>2
    <3>3. CASE k > n + 1
      BY <1>8, <3>1, <3>3 DEF Listed, Places
    <3>4. CASE k \in 2 .. n + 1
      BY <1>5, <3>1, <3>4
    <3>5. k = 1 \/ k > n + 1 \/ k \in 2 .. n + 1
      BY <1>1, <1>2
    <3> QED BY <3>2, <3>3, <3>4, <3>5
  <2>2. ASSUME NEW x \in Listed(r) PROVE x \in Listed(s)
    <3>1. PICK k \in 1 .. Len(r) : r[k].kind = "plugin" /\ x = Entry(r[k].plugin, r[k].version, TRUE)
      BY <2>2 DEF Listed, Places
    <3> QED BY <1>7, <3>1 DEF Listed, Places, m
  <2>3. Entry(s[1].plugin, s[1].version, TRUE) \in Listed(s)
    <3>1. 1 \in 1 .. m
      BY <1>1
    <3> QED BY <1>3, <3>1 DEF Listed, Places, m
  <2> QED BY <2>1, <2>2, <2>3
<1>10. Grouped(r)
  <2>1. r # <<>> => r[1].kind = "plugin"
    <3> HAVE r # <<>>
    <3>1. Len(r) > 0 /\ Len(r) \in Nat
      BY <1>6
    <3>2. r[1] = s[n + 1 + 1] /\ 1 + n < m /\ n + 1 + 1 = 1 + n + 1
      BY <1>1, <1>2, <1>6, <1>7, <3>1
    <3> QED BY <1>4, <3>2
  <2>2. ASSUME NEW k \in 1 .. Len(r), r[k].kind = "plugin"
        PROVE  /\ k + nfeatures(r[k]) <= Len(r)
               /\ \A j \in 1 .. nfeatures(r[k]) : r[k + j].kind = "feature"
               /\ k + nfeatures(r[k]) < Len(r) => r[k + nfeatures(r[k]) + 1].kind = "plugin"
    <3> DEFINE q == n + 1 + k
               v == nfeatures(r[k])
    <3>1. k \in Nat /\ k >= 1 /\ q \in 1 .. m /\ r[k] = s[q] /\ Len(r) = m - (n + 1)
      BY <1>6, <1>7
    <3>2. s[q] \in ChunkType
      BY <3>1 DEF m
    <3>3. v \in Nat /\ v = nfeatures(s[q])
      BY <3>1, <3>2, ChunkFields DEF nfeatures
    <3>4. /\ q + v <= m /\ (\A j \in 1 .. v : s[q + j].kind = "feature")
          /\ (q + v < m => s[q + v + 1].kind = "plugin")
      BY <2>2, <3>1, <3>3 DEF Grouped, m
    <3> HIDE DEF v
    <3>5. k + v <= Len(r)
      BY <1>1, <1>2, <3>1, <3>3, <3>4
    <3>6. ASSUME NEW j \in 1 .. v PROVE r[k + j].kind = "feature"
      <4>1. k + j \in 1 .. Len(r) /\ n + 1 + (k + j) = q + j
        <5>1. j \in Nat /\ j >= 1 /\ j <= v
          BY <3>3
        <5> QED BY <1>1, <1>2, <3>1, <3>3, <3>5, <5>1
      <4>2. r[k + j] = s[q + j]
        BY <1>7, <4>1
      <4> QED BY <3>4, <4>2
    <3>7. k + v < Len(r) => r[k + v + 1].kind = "plugin"
      <4> HAVE k + v < Len(r)
      <4>1. k + v + 1 \in 1 .. Len(r) /\ n + 1 + (k + v + 1) = q + v + 1 /\ q + v < m
        <5> DEFINE l == Len(r)
        <5>1. l \in Nat /\ l = m - (n + 1) /\ k + v < l
          BY <1>1, <1>2, <1>4, <3>1
        <5> HIDE DEF l
        <5>2. k + v + 1 \in 1 .. l /\ n + 1 + (k + v + 1) = q + v + 1 /\ q + v < m
          <6>1. k \in Nat /\ v \in Nat /\ n \in Nat /\ m \in Nat
            BY <1>1, <1>2, <3>1, <3>3
          <6>2. k + v + 1 \in 1 .. l
            BY <5>1, <6>1
          <6> QED BY <5>1, <6>1, <6>2
        <5> QED BY <5>2 DEF l
      <4>2. r[k + v + 1] = s[q + v + 1]
        BY <1>7, <4>1
      <4> QED BY <3>4, <4>1, <4>2
    <3> QED BY <3>5, <3>6, <3>7 DEF v
  <2> QED BY <2>1, <2>2 DEF Grouped
<1>11. n < m
  BY <1>1, <1>2, <1>4
<1> QED
  BY <1>1, <1>3, <1>5, <1>6, <1>9, <1>10, <1>11 DEF n, r, m

-----------------------------------------------------------------------------
LEMMA NoChunks == Grouped(<<>>) /\ Listed(<<>>) = {} /\ ToSet(<<>>) = {}
  BY DEF Grouped, Listed, Places, ToSet

LEMMA CacheInitInv == Init => CacheInv
<1> SUFFICES ASSUME Init PROVE CacheInv
  OBVIOUS
<1>1. CacheTypeOK
  BY KindsAssumption DEF Init, CacheTypeOK, CacheSteps, PluginKinds
<1> QED
  BY <1>1 DEF Init, CacheInv, Reads, Writes, AtName

(* The other processes are as they were.                                    *)
Alone(i) ==
  /\ kind' = kind
  /\ \A j \in Process \ {i} :
       /\ pc'[j] = pc[j] /\ mapped'[j] = mapped[j] /\ plugins'[j] = plugins[j]
       /\ left'[j] = left[j] /\ to_write'[j] = to_write[j] /\ tmp'[j] = tmp[j] /\ goal'[j] = goal[j]

LEMMA OneProcess ==
  ASSUME CacheInv, NEW i \in Process, Alone(i), CacheTypeOK', AtName', Reads(i)', Writes(i)'
  PROVE  CacheInv'
<1>1. ASSUME NEW j \in Process \ {i} PROVE Reads(j)' /\ Writes(j)'
  BY DEF CacheInv, Alone, Reads, Writes, NoneRefused, Refused
<1> QED
  BY <1>1 DEF CacheInv

LEMMA StartStep == ASSUME CacheInv, NEW i \in Process, Start(i) PROVE CacheInv'
<1> USE DEF CacheInv, Start
<1> DEFINE known == location # <<>> /\ Head(location).kind = "magic"
<1>1. CacheTypeOK'
  <2>1. location # <<>> => Tail(location) \in Seq(ChunkType)
    BY TailOf DEF CacheTypeOK
  <2> QED BY <2>1 DEF CacheTypeOK, CacheSteps
<1>2. Alone(i) /\ AtName'
  BY DEF Alone, CacheTypeOK, AtName
<1>3. pc'[i] = "reading" /\ plugins'[i] = <<>> /\ goal'[i] = cached
      /\ mapped'[i] = IF known THEN Tail(location) ELSE <<>>
  BY DEF CacheTypeOK, Reads
<1>4. Grouped(mapped'[i]) /\ Listed(mapped'[i]) = cached
  <2>1. CASE known
    BY <1>3, <2>1 DEF AtName, Whole
  <2>2. CASE ~known
    BY <1>3, <2>2, NoChunks DEF AtName, Whole
  <2> QED BY <2>1, <2>2
<1>5. Reads(i)'
  BY <1>3, <1>4, NoChunks DEF Reads
<1>6. Writes(i)'
  BY <1>3 DEF Writes
<1> QED
  BY <1>1, <1>2, <1>5, <1>6, OneProcess

LEMMA InFront ==
  ASSUME NEW S, NEW x \in S, NEW s \in Seq(S)
  PROVE  <<x>> \o s \in Seq(S) /\ ToSet(<<x>> \o s) = { x } \cup ToSet(s)
<1> DEFINE o == <<x>>
           t == o \o s
<1>1. o \in Seq(S) /\ Len(o) = 1 /\ o[1] = x
  OBVIOUS
<1> HIDE DEF o
<1>2. /\ t \in Seq(S) /\ Len(t) = 1 + Len(s) /\ t[1] = x
      /\ \A k \in 1 .. Len(s) : t[1 + k] = s[k]
  <2>1. o \in Seq(S)
    BY <1>1
  <2>2. t \in Seq(S) /\ Len(t) = Len(o) + Len(s)
    BY <2>1, Joined
  <2>3. \A k \in 1 .. Len(o) : t[k] = o[k]
    BY <2>1, Joined
  <2>4. \A k \in 1 .. Len(s) : t[Len(o) + k] = s[k]
    BY <2>1, Joined
  <2> HIDE DEF t
  <2> QED BY <1>1, <2>2, <2>3, <2>4
<1> HIDE DEF t
<1>3. DOMAIN t = 1 .. 1 + Len(s) /\ DOMAIN s = 1 .. Len(s) /\ Len(s) \in Nat
  BY <1>2
<1>4. ASSUME NEW y \in ToSet(t) PROVE y = x \/ y \in ToSet(s)
  <2>1. PICK k \in 1 .. 1 + Len(s) : y = t[k]
    BY <1>3, <1>4 DEF ToSet
  <2>2. k = 1 \/ (k - 1 \in 1 .. Len(s) /\ 1 + (k - 1) = k)
    BY <1>3
  <2> QED BY <1>2, <1>3, <2>1, <2>2 DEF ToSet
<1>5. x \in ToSet(t)
  BY <1>2, <1>3 DEF ToSet
<1>6. ASSUME NEW y \in ToSet(s) PROVE y \in ToSet(t)
  <2>1. PICK k \in 1 .. Len(s) : y = s[k]
    BY <1>3, <1>6 DEF ToSet
  <2>2. 1 + k \in 1 .. 1 + Len(s)
    BY <1>3
  <2> QED BY <1>2, <1>3, <2>1, <2>2 DEF ToSet
<1>7. ToSet(t) = { x } \cup ToSet(s)
  BY <1>4, <1>5, <1>6
<1> QED
  BY <1>2, <1>7 DEF t, o

LEMMA ReadPluginStep == ASSUME CacheInv, NEW i \in Process, ReadPlugin(i) PROVE CacheInv'
<1> DEFINE s == mapped[i]
           e == Head(s)
           x == Entry(e.plugin, e.version, TRUE)
           n == nfeatures(e)
           r == SubSeq(s, n + 2, Len(s))
<1>1. CacheTypeOK /\ AtName /\ Reads(i) /\ Writes(i) /\ pc[i] = "reading"
  BY DEF CacheInv, ReadPlugin
<1>2. s \in Seq(ChunkType) /\ s # <<>> /\ Grouped(s) /\ plugins[i] \in Seq(EntryType)
      /\ ToSet(plugins[i]) \cup Listed(s) = goal[i]
  BY <1>1 DEF CacheTypeOK, Reads, ReadPlugin
<1>3. /\ e \in ChunkType /\ e.kind = "plugin" /\ n < Len(s)
      /\ \A k \in 2 .. n + 1 : s[k].kind = "feature"
      /\ r \in Seq(ChunkType) /\ Grouped(r)
      /\ Listed(s) = Listed(r) \cup { x }
  BY <1>2, GroupRead
<1>4. e.plugin \in Plugin /\ x \in EntryType
  BY <1>3, ChunkFields DEF Entry, EntryType
<1>5. Readable(s) <=> ~Refused(e.plugin)
  BY <1>3 DEF Readable
<1>6. CASE Readable(s)
  <2>1. /\ plugins' = [plugins EXCEPT ![i] = <<x>> \o plugins[i]]
        /\ mapped' = [mapped EXCEPT ![i] = r]
        /\ pc' = pc
        /\ UNCHANGED <<kind, file, location, left, to_write, tmp, goal, cached>>
    BY <1>6 DEF ReadPlugin
  <2>2. <<x>> \o plugins[i] \in Seq(EntryType) /\ ToSet(<<x>> \o plugins[i]) = { x } \cup ToSet(plugins[i])
    <3> DEFINE list == plugins[i]
    <3>1. list \in Seq(EntryType)
      BY <1>2
    <3> HIDE DEF list, x
    <3>2. <<x>> \o list \in Seq(EntryType) /\ ToSet(<<x>> \o list) = { x } \cup ToSet(list)
      BY <1>4, <3>1, InFront
    <3> QED BY <3>2 DEF list
  <2> HIDE DEF s, e, x, n, r
  <2>3. CacheTypeOK'
    BY <1>1, <1>3, <2>1, <2>2 DEF CacheTypeOK
  <2>4. Alone(i) /\ AtName'
    BY <1>1, <2>1 DEF CacheTypeOK, Alone, AtName
  <2>5. plugins'[i] = <<x>> \o plugins[i] /\ mapped'[i] = r /\ pc'[i] = "reading" /\ goal'[i] = goal[i]
    BY <1>1, <2>1 DEF CacheTypeOK
  <2>6. ToSet(plugins'[i]) \cup Listed(mapped'[i]) = goal'[i]
    BY <1>2, <1>3, <2>2, <2>5 DEF s
  <2>7. Reads(i)'
    BY <1>3, <2>5, <2>6 DEF Reads
  <2>8. Writes(i)'
    BY <2>5 DEF Writes
  <2> QED BY <2>3, <2>4, <2>7, <2>8, OneProcess
<1>7. CASE ~Readable(s)
  <2>1. /\ pc' = [pc EXCEPT ![i] = "astray"]
        /\ UNCHANGED <<kind, file, location, mapped, plugins, left, to_write, tmp, goal, cached>>
    BY <1>7 DEF ReadPlugin
  <2>2. CacheTypeOK'
    BY <1>1, <2>1 DEF CacheTypeOK, CacheSteps
  <2>3. Alone(i) /\ AtName' /\ pc'[i] = "astray"
    BY <1>1, <2>1 DEF CacheTypeOK, Alone, AtName
  <2>4. ~NoneRefused /\ ~NoneRefused'
    BY <1>4, <1>5, <1>7, <2>1 DEF NoneRefused, Refused
  <2>5. Reads(i)'
    BY <2>3, <2>4 DEF Reads
  <2>6. Writes(i)'
    BY <2>3 DEF Writes
  <2> QED BY <2>2, <2>3, <2>5, <2>6, OneProcess
<1> QED
  BY <1>6, <1>7

(* The list that the scan leaves may have any order.                        *)
LEMMA Orders ==
  ASSUME NEW S, NEW T \in SUBSET S, IsFiniteSet(T), NEW list \in SetToSeqs(T)
  PROVE  list \in Seq(S)
<1>1. Cardinality(T) \in Nat
  BY FS_CardinalityType
<1>2. list \in [1 .. Cardinality(T) -> T]
  BY DEF SetToSeqs
<1> QED
  BY <1>1, <1>2

LEMMA FiniteElements ==
  ASSUME NEW S, NEW s \in Seq(S)
  PROVE  ToSet(s) \in SUBSET S /\ IsFiniteSet(ToSet(s))
<1> DEFINE f == [k \in 1 .. Len(s) |-> s[k]]
<1>1. ToSet(s) = { s[k] : k \in 1 .. Len(s) }
  BY DEF ToSet
<1>2. f \in Surjection(1 .. Len(s), ToSet(s))
  BY <1>1 DEF Surjection
<1>3. IsFiniteSet(1 .. Len(s))
  BY FS_Interval
<1> QED
  BY <1>1, <1>2, <1>3, FS_Surjection

LEMMA LoadedEntries ==
  ASSUME NEW T \in SUBSET Plugin, file \in [Plugin -> Nat]
  PROVE  LET loaded == { Entry(p, file[p], FALSE) : p \in T }
         IN loaded \in SUBSET EntryType /\ IsFiniteSet(loaded)
<1> DEFINE loaded == { Entry(p, file[p], FALSE) : p \in T }
           f == [p \in T |-> Entry(p, file[p], FALSE)]
<1>1. \A p \in T : f[p] \in EntryType /\ f[p] = Entry(p, file[p], FALSE)
  BY DEF Entry, EntryType
<1>2. f \in Surjection(T, loaded)
  BY DEF Surjection
<1>3. IsFiniteSet(T)
  BY PluginAssumption, FS_Subset
<1> QED
  BY <1>1, <1>2, <1>3, FS_Surjection

LEMMA ScanStep == ASSUME CacheInv, NEW i \in Process, Scan(i) PROVE CacheInv'
<1> DEFINE kept   == { e \in ToSet(plugins[i]) : e.version = file[e.plugin] }
           known  == { e.plugin : e \in kept }
           new    == { p \in Plugin \ known : kind[p] = "static" \/ file[p] # 0 }
           loaded == { Entry(p, file[p], FALSE) : p \in new }
<1>1. CacheTypeOK /\ AtName
  BY DEF CacheInv
<1>2. PICK list \in SetToSeqs(kept \cup loaded) : plugins' = [plugins EXCEPT ![i] = list]
  BY DEF Scan
<1>3. /\ pc' = [pc EXCEPT ![i] = "scanned"]
      /\ goal' = [goal EXCEPT ![i] = {}]
      /\ UNCHANGED <<kind, file, location, mapped, left, to_write, tmp, cached>>
  BY DEF Scan
<1>4. kept \in SUBSET EntryType /\ IsFiniteSet(kept)
  <2>1. plugins[i] \in Seq(EntryType)
    BY <1>1 DEF CacheTypeOK
  <2> QED BY <2>1, FiniteElements, FS_Subset
<1>5. loaded \in SUBSET EntryType /\ IsFiniteSet(loaded)
  <2>1. new \in SUBSET Plugin /\ file \in [Plugin -> Nat]
    BY <1>1 DEF CacheTypeOK
  <2> HIDE DEF new
  <2> QED BY <2>1, LoadedEntries
<1> HIDE DEF kept, loaded
<1>6. list \in Seq(EntryType)
  <2>1. IsFiniteSet(kept \cup loaded)
    BY <1>4, <1>5, FS_Union
  <2> QED BY <1>4, <1>5, <2>1, Orders
<1>7. CacheTypeOK'
  BY <1>1, <1>2, <1>3, <1>6 DEF CacheTypeOK, CacheSteps
<1>8. Alone(i) /\ AtName' /\ pc'[i] = "scanned" /\ goal'[i] = {}
  BY <1>1, <1>2, <1>3 DEF CacheTypeOK, Alone, AtName
<1>9. Reads(i)' /\ Writes(i)'
  BY <1>8 DEF Reads, Writes
<1> QED
  BY <1>7, <1>8, <1>9, OneProcess

LEMMA MagicAlone == Magic \in ChunkType /\ <<Magic>> \in Seq(ChunkType) /\ Whole(<<>> \o <<Magic>>, {})
<1> DEFINE s == <<Magic>>
<1>1. Magic \in ChunkType /\ Magic.kind = "magic"
  BY DEF Magic, ChunkType
<1> HIDE DEF Magic
<1>2. s \in Seq(ChunkType) /\ s # <<>> /\ Head(s) = Magic /\ Tail(s) = <<>> /\ <<>> \o s = s
  BY <1>1
<1> HIDE DEF s
<1>3. Whole(s, {})
  BY <1>1, <1>2, NoChunks DEF Whole
<1> QED
  BY <1>1, <1>2, <1>3 DEF s

LEMMA MkstempStep == ASSUME CacheInv, NEW i \in Process, Mkstemp(i) PROVE CacheInv'
<1>1. CacheTypeOK /\ AtName /\ Reads(i) /\ Writes(i)
  BY DEF CacheInv
<1>2. /\ pc[i] = "scanned"
      /\ pc' = [pc EXCEPT ![i] = "walk"]
      /\ tmp' = [tmp EXCEPT ![i] = <<>>]
      /\ to_write' = [to_write EXCEPT ![i] = <<Magic>>]
      /\ left' = [left EXCEPT ![i] = Len(plugins[i])]
      /\ UNCHANGED <<kind, file, location, mapped, plugins, goal, cached>>
  BY DEF Mkstemp
<1>3. plugins[i] \in Seq(EntryType) /\ Len(plugins[i]) \in Nat
  BY <1>1 DEF CacheTypeOK
<1>4. CacheTypeOK'
  BY <1>1, <1>2, <1>3, MagicAlone DEF CacheTypeOK, CacheSteps
<1>5. Alone(i) /\ AtName'
  BY <1>1, <1>2 DEF CacheTypeOK, Alone, AtName
<1>6. /\ pc'[i] = "walk" /\ tmp'[i] = <<>> /\ to_write'[i] = <<Magic>> /\ goal'[i] = {}
      /\ left'[i] = Len(plugins'[i])
  BY <1>1, <1>2 DEF CacheTypeOK, Writes
<1>7. Reads(i)'
  BY <1>6 DEF Reads
<1>8. Writes(i)'
  <2>1. Whole(tmp'[i] \o to_write'[i], goal'[i])
    BY <1>6, MagicAlone
  <2>2. left'[i] <= Len(plugins'[i])
    BY <1>2, <1>3, <1>6
  <2> QED BY <1>6, <2>1, <2>2 DEF Writes
<1> QED
  BY <1>4, <1>5, <1>7, <1>8, OneProcess

(* A whole cache with another group is whole.                               *)
LEMMA WholeAdded ==
  ASSUME NEW s \in Seq(ChunkType), NEW g, Whole(s, g), NEW e \in EntryType
  PROVE  /\ s \o save_plugin(e) \in Seq(ChunkType)
         /\ Whole(s \o save_plugin(e), g \cup { Entry(e.plugin, e.version, TRUE) })
<1> DEFINE a == save_plugin(e)
           b == Tail(s)
<1>1. a \in Seq(ChunkType)
  BY SavedGroup
<1>2. s # <<>> /\ Head(s).kind = "magic" /\ Grouped(b) /\ Listed(b) = g
  BY DEF Whole
<1>3. b \in Seq(ChunkType)
  BY <1>2, TailOf
<1>4. Grouped(b \o a) /\ Listed(b \o a) = Listed(b) \cup { Entry(e.plugin, e.version, TRUE) }
  BY <1>2, <1>3, GroupAdded
<1> HIDE DEF a
<1>5. s \o a \in Seq(ChunkType) /\ s \o a # <<>> /\ Head(s \o a) = Head(s) /\ Tail(s \o a) = b \o a
  BY <1>1, <1>2
<1>6. Whole(s \o a, g \cup { Entry(e.plugin, e.version, TRUE) })
  BY <1>2, <1>4, <1>5 DEF Whole
<1> QED
  BY <1>5, <1>6 DEF a

LEMMA WalkStep == ASSUME CacheInv, NEW i \in Process, Walk(i) PROVE CacheInv'
<1> DEFINE e == plugins[i][left[i]]
           w == to_write[i]
<1>1. CacheTypeOK /\ AtName /\ Reads(i) /\ Writes(i)
  BY DEF CacheInv
<1>2. pc[i] = "walk" /\ left[i] > 0
  BY DEF Walk
<1>3. left[i] \in Nat /\ left[i] <= Len(plugins[i]) /\ plugins[i] \in Seq(EntryType)
  BY <1>1, <1>2 DEF CacheTypeOK, Writes
<1>4. e \in EntryType
  BY <1>2, <1>3
<1>5. w \in Seq(ChunkType) /\ tmp[i] = <<>> /\ Whole(w, goal[i])
  <2>1. w \in Seq(ChunkType) /\ tmp[i] = <<>> /\ Whole(tmp[i] \o w, goal[i])
    BY <1>1, <1>2 DEF CacheTypeOK, Writes
  <2>2. <<>> \o w = w
    BY <2>1
  <2> QED BY <2>1, <2>2
<1>6. w \o save_plugin(e) \in Seq(ChunkType)
      /\ Whole(w \o save_plugin(e), goal[i] \cup { Entry(e.plugin, e.version, TRUE) })
  BY <1>4, <1>5, WholeAdded
<1>7. Entry(e.plugin, e.version, TRUE) \in EntryType
  BY <1>4 DEF Entry, EntryType
<1>8. /\ left' = [left EXCEPT ![i] = left[i] - 1]
      /\ UNCHANGED <<kind, file, location, pc, mapped, plugins, tmp, cached>>
  BY DEF Walk
<1>9. \/ /\ to_write' = [to_write EXCEPT ![i] = w \o save_plugin(e)]
         /\ goal' = [goal EXCEPT ![i] = goal[i] \cup { Entry(e.plugin, e.version, TRUE) }]
      \/ to_write' = to_write /\ goal' = goal
  BY DEF Walk
<1> HIDE DEF e, w
<1>10. to_write' \in [Process -> Seq(ChunkType)] /\ goal' \in [Process -> SUBSET EntryType]
  <2>1. to_write \in [Process -> Seq(ChunkType)] /\ goal \in [Process -> SUBSET EntryType]
    BY <1>1 DEF CacheTypeOK
  <2>2. goal[i] \cup { Entry(e.plugin, e.version, TRUE) } \in SUBSET EntryType
    BY <1>7, <2>1
  <2> DEFINE more == goal[i] \cup { Entry(e.plugin, e.version, TRUE) }
             longer == w \o save_plugin(e)
  <2> HIDE DEF more, longer
  <2>3. \/ to_write' = [to_write EXCEPT ![i] = longer] /\ goal' = [goal EXCEPT ![i] = more]
        \/ to_write' = to_write /\ goal' = goal
    BY <1>9, <2>1 DEF longer, more
  <2>4. longer \in Seq(ChunkType) /\ more \in SUBSET EntryType
    BY <1>6, <2>2 DEF longer, more
  <2> QED BY <2>1, <2>3, <2>4
<1>11. left' \in [Process -> Nat] /\ left'[i] = left[i] - 1
  BY <1>1, <1>2, <1>3, <1>8 DEF CacheTypeOK
<1>12. CacheTypeOK'
  BY <1>1, <1>8, <1>10, <1>11 DEF CacheTypeOK
<1>13. Alone(i) /\ AtName'
  BY <1>1, <1>8, <1>9 DEF CacheTypeOK, Alone, AtName
<1>14. Reads(i)'
  BY <1>2, <1>8 DEF Reads
<1>15. tmp'[i] = <<>> /\ to_write'[i] \in Seq(ChunkType) /\ Whole(to_write'[i], goal'[i])
  BY <1>1, <1>5, <1>6, <1>8, <1>9 DEF CacheTypeOK, w
<1>16. Whole(tmp'[i] \o to_write'[i], goal'[i])
  <2>1. <<>> \o to_write'[i] = to_write'[i]
    BY <1>15
  <2> QED BY <1>15, <2>1
<1>17. Writes(i)'
  <2>1. left'[i] <= Len(plugins'[i])
    BY <1>3, <1>8, <1>11
  <2> QED BY <1>2, <1>8, <1>15, <1>16, <2>1 DEF Writes
<1> QED
  BY <1>12, <1>13, <1>14, <1>17, OneProcess

(* A chunk that is written is the next of the whole.                        *)
LEMMA SameFile ==
  ASSUME NEW s \in Seq(ChunkType), NEW t \in Seq(ChunkType), t # <<>>
  PROVE  /\ Append(s, Head(t)) \in Seq(ChunkType) /\ Tail(t) \in Seq(ChunkType)
         /\ Append(s, Head(t)) \o Tail(t) = s \o t
OBVIOUS

LEMMA WriteStep == ASSUME CacheInv, NEW i \in Process, Write(i) PROVE CacheInv'
<1> DEFINE s == tmp[i]
           t == to_write[i]
<1>1. CacheTypeOK /\ AtName /\ Reads(i) /\ Writes(i)
  BY DEF CacheInv
<1>2. /\ pc[i] = "walk" /\ left[i] = 0 /\ t # <<>>
      /\ to_write' = [to_write EXCEPT ![i] = Tail(t)]
      /\ tmp' = [tmp EXCEPT ![i] = Append(s, Head(t))]
      /\ UNCHANGED <<kind, file, location, pc, mapped, plugins, left, goal, cached>>
  BY DEF Write
<1>3. s \in Seq(ChunkType) /\ t \in Seq(ChunkType) /\ Whole(s \o t, goal[i])
  BY <1>1, <1>2 DEF CacheTypeOK, Writes
<1>4. /\ Append(s, Head(t)) \in Seq(ChunkType) /\ Tail(t) \in Seq(ChunkType)
      /\ Append(s, Head(t)) \o Tail(t) = s \o t
  <2> HIDE DEF s, t
  <2> QED BY <1>2, <1>3, SameFile
<1> DEFINE more == Append(s, Head(t))
           rest == Tail(t)
<1> HIDE DEF s, t, more, rest
<1>5. tmp' = [tmp EXCEPT ![i] = more] /\ to_write' = [to_write EXCEPT ![i] = rest]
      /\ more \in Seq(ChunkType) /\ rest \in Seq(ChunkType) /\ more \o rest = s \o t
  BY <1>2, <1>4 DEF more, rest
<1>6. CacheTypeOK'
  BY <1>1, <1>2, <1>5 DEF CacheTypeOK
<1>7. Alone(i) /\ AtName'
  BY <1>1, <1>2, <1>5 DEF CacheTypeOK, Alone, AtName
<1>8. pc'[i] = "walk" /\ left'[i] = 0 /\ plugins'[i] = plugins[i] /\ goal'[i] = goal[i]
      /\ tmp'[i] = more /\ to_write'[i] = rest
  BY <1>1, <1>2, <1>5 DEF CacheTypeOK
<1>9. Reads(i)'
  BY <1>8 DEF Reads
<1>10. Writes(i)'
  <2>1. Whole(tmp'[i] \o to_write'[i], goal'[i])
    BY <1>3, <1>5, <1>8
  <2>2. left'[i] <= Len(plugins'[i]) /\ ~(left'[i] > 0)
    BY <1>1, <1>2, <1>8 DEF Writes
  <2> QED BY <1>8, <2>1, <2>2 DEF Writes
<1> QED
  BY <1>6, <1>7, <1>9, <1>10, OneProcess

LEMMA CloseStep == ASSUME CacheInv, NEW i \in Process, Close(i) PROVE CacheInv'
<1>1. CacheTypeOK /\ AtName /\ Reads(i) /\ Writes(i)
  BY DEF CacheInv
<1>2. /\ pc[i] = "walk" /\ to_write[i] = <<>>
      /\ pc' = [pc EXCEPT ![i] = "closed"]
      /\ UNCHANGED <<kind, file, location, mapped, plugins, left, to_write, tmp, goal, cached>>
  BY DEF Close
<1>3. Whole(tmp[i], goal[i])
  <2>1. Whole(tmp[i] \o to_write[i], goal[i]) /\ tmp[i] \in Seq(ChunkType)
    BY <1>1, <1>2 DEF CacheTypeOK, Writes
  <2>2. tmp[i] \o <<>> = tmp[i]
    BY <2>1
  <2> QED BY <1>2, <2>1, <2>2
<1>4. CacheTypeOK'
  BY <1>1, <1>2 DEF CacheTypeOK, CacheSteps
<1>5. Alone(i) /\ AtName' /\ pc'[i] = "closed"
  BY <1>1, <1>2 DEF CacheTypeOK, Alone, AtName
<1>6. Reads(i)' /\ Writes(i)'
  BY <1>2, <1>3, <1>5 DEF Reads, Writes
<1> QED
  BY <1>4, <1>5, <1>6, OneProcess

(* A process that is over has nothing to be sound about.                    *)
LEMMA OverIsSound ==
  ASSUME CacheTypeOK, NEW i \in Process, Over(i), UNCHANGED <<kind, file>>,
         location' \in Seq(ChunkType), cached' \in SUBSET EntryType
  PROVE  CacheTypeOK' /\ Alone(i) /\ Reads(i)' /\ Writes(i)'
<1>1. CacheTypeOK'
  BY DEF CacheTypeOK, Over, CacheSteps
<1>2. Alone(i) /\ pc'[i] = "off" /\ plugins'[i] = <<>>
  BY DEF CacheTypeOK, Over, Alone
<1>3. Reads(i)' /\ Writes(i)'
  BY <1>2 DEF Reads, Writes
<1> QED
  BY <1>1, <1>2, <1>3

LEMMA RenameStep == ASSUME CacheInv, NEW i \in Process, Rename(i) PROVE CacheInv'
<1>1. CacheTypeOK /\ Writes(i)
  BY DEF CacheInv
<1>2. pc[i] = "closed" /\ location' = tmp[i] /\ cached' = goal[i] /\ Over(i) /\ UNCHANGED <<kind, file>>
  BY DEF Rename
<1>3. location' \in Seq(ChunkType) /\ cached' \in SUBSET EntryType /\ Whole(location', cached')
  BY <1>1, <1>2 DEF CacheTypeOK, Writes
<1>4. CacheTypeOK' /\ Alone(i) /\ Reads(i)' /\ Writes(i)'
  BY <1>1, <1>2, <1>3, OverIsSound
<1>5. AtName'
  BY <1>3 DEF AtName
<1> QED
  BY <1>4, <1>5, OneProcess

LEMMA EndStep == ASSUME CacheInv, NEW i \in Process, WriteFails(i) \/ End(i) PROVE CacheInv'
<1>1. CacheTypeOK /\ AtName
  BY DEF CacheInv
<1>2. Over(i) /\ UNCHANGED <<kind, file, location, cached>>
  BY DEF WriteFails, End
<1>3. location' \in Seq(ChunkType) /\ cached' \in SUBSET EntryType /\ AtName'
  BY <1>1, <1>2 DEF CacheTypeOK, AtName
<1>4. CacheTypeOK' /\ Alone(i) /\ Reads(i)' /\ Writes(i)'
  BY <1>1, <1>2, <1>3, OverIsSound
<1> QED
  BY <1>3, <1>4, OneProcess

LEMMA FileStep == ASSUME CacheInv, NEW p \in Plugin, FileChanges(p) PROVE CacheInv'
<1>1. PICK v \in { 0, file[p] + 1 } : file' = [file EXCEPT ![p] = v]
  BY DEF FileChanges
<1>2. UNCHANGED <<kind, location, pc, mapped, plugins, left, to_write, tmp, goal, cached>>
  BY DEF FileChanges
<1>3. CacheTypeOK'
  <2>1. v \in Nat
    BY <1>1 DEF CacheInv, CacheTypeOK
  <2> QED BY <1>1, <1>2, <2>1 DEF CacheInv, CacheTypeOK
<1>4. AtName' /\ \A i \in Process : Reads(i)' /\ Writes(i)'
  BY <1>2 DEF CacheInv, AtName, Reads, Writes, NoneRefused, Refused
<1> QED
  BY <1>3, <1>4 DEF CacheInv

LEMMA CacheStepInv == CacheInv /\ [Next]_vars => CacheInv'
<1> SUFFICES ASSUME CacheInv, [Next]_vars PROVE CacheInv'
  OBVIOUS
<1>1. ASSUME NEW i \in Process,
             \/ Start(i) \/ ReadPlugin(i) \/ Scan(i) \/ Mkstemp(i) \/ Walk(i) \/ Write(i)
             \/ WriteFails(i) \/ Close(i) \/ Rename(i) \/ End(i)
      PROVE  CacheInv'
  BY <1>1, StartStep, ReadPluginStep, ScanStep, MkstempStep, WalkStep, WriteStep,
     CloseStep, RenameStep, EndStep
<1>2. ASSUME NEW p \in Plugin, FileChanges(p) PROVE CacheInv'
  BY <1>2, FileStep
<1>3. CASE UNCHANGED vars
  <2>1. CacheTypeOK'
    BY <1>3 DEF vars, CacheInv, CacheTypeOK
  <2>2. AtName' /\ \A i \in Process : Reads(i)' /\ Writes(i)'
    BY <1>3 DEF vars, CacheInv, AtName, Reads, Writes, NoneRefused, Refused
  <2> QED BY <2>1, <2>2 DEF CacheInv
<1> QED
  BY <1>1, <1>2, <1>3 DEF Next

LEMMA CacheIsWhole == CacheInv => CacheWhole
<1> SUFFICES ASSUME CacheInv, NoneRefused, NEW i \in Process
             PROVE  pc[i] # "astray" /\ (HasRead(i) => ToSet(plugins[i]) = goal[i])
  BY DEF CacheWhole, NoneRefused
<1>1. Reads(i)
  BY DEF CacheInv
<1> QED
  BY <1>1, NoChunks DEF Reads, HasRead

(* Every reader finds the cache that was renamed last when it began.        *)
THEOREM CacheWholeHolds == Spec => []CacheWhole
<1>1. Spec => []CacheInv
  BY CacheInitInv, CacheStepInv, PTL DEF Spec
<1> QED
  BY <1>1, CacheIsWhole, PTL

-----------------------------------------------------------------------------
(* The lock files.                                                          *)

Modes == { "no", "sh", "ex" }
Steps == { "out", "open", "flock", "exists", "stat", "holds", "unlink", "unlock" }

LockTypeOK ==
  /\ disk \in Inode \cup {None}
  /\ at \in [Client -> Steps]
  /\ want \in [Client -> [ op : { "sh", "ex" }, retry : BOOLEAN ]]
  /\ fd \in [Client -> Inode \cup {None}]
  /\ lock \in [Client -> Modes]

(* Who has the name's file open and may take it for the lock.               *)
Sure(p) == at[p] \in { "holds", "unlink" }

(* flock's own exclusion; a call past flock has the lock it wanted; one     *)
(* that is sure has the file of the name; one that removes the name has the *)
(* exclusive lock.                                                          *)
Exclusive == \A p, q \in Client : (p # q /\ fd[p] = fd[q] /\ lock[p] = "ex") => lock[q] = "no"
HasLock   == \A p \in Client : at[p] \in { "exists", "stat", "holds" } => lock[p] = want[p].op
IsOpen    == \A p \in Client : at[p] \in { "flock", "exists", "stat", "holds", "unlink" } => fd[p] # None
Named     == \A p \in Client : Sure(p) => fd[p] = disk
Removes   == \A p \in Client : at[p] = "unlink" => lock[p] = "ex"

LockInv == LockTypeOK /\ Exclusive /\ HasLock /\ IsOpen /\ Named /\ Removes

(* The invariant holds before the first call.                               *)
LEMMA InitInv == LockInit => LockInv
  BY DEF LockInit, LockInv, LockTypeOK, Exclusive, HasLock, IsOpen, Named, Removes, Sure, Steps, Modes

(* Every step of every caller keeps it: a name is made only of an inode     *)
(* that nobody has open, and is removed only by who excludes all others.    *)
LEMMA StepInv == LockInv /\ [LockNext]_lockvars => LockInv'
<1> SUFFICES ASSUME LockInv, [LockNext]_lockvars PROVE LockInv'
  OBVIOUS
<1> USE NoneAssumption DEF LockInv, Goto, CloseFile
<1>1. ASSUME NEW p \in Client, Call(p) PROVE LockInv'
  <2>1. LockTypeOK'
    BY <1>1 DEF Call, LockTypeOK, Steps, Modes
  <2>2. Exclusive'
    BY <1>1 DEF Call, LockTypeOK, Exclusive, Modes
  <2>3. HasLock'
    BY <1>1 DEF Call, LockTypeOK, HasLock, Steps
  <2>4. IsOpen'
    BY <1>1 DEF Call, LockTypeOK, IsOpen, Steps
  <2>5. Named'
    BY <1>1 DEF Call, LockTypeOK, Named, IsOpen, Sure, Steps
  <2>6. Removes'
    BY <1>1 DEF Call, LockTypeOK, Removes, Steps
  <2>7. QED
    BY <2>1, <2>2, <2>3, <2>4, <2>5, <2>6
<1>2. ASSUME NEW p \in Client, Open(p) PROVE LockInv'
  <2>1. LockTypeOK'
    BY <1>2 DEF Open, LockTypeOK, Steps, Modes
  <2>2. Exclusive'
    BY <1>2 DEF Open, LockTypeOK, Exclusive, Modes
  <2>3. HasLock'
    BY <1>2 DEF Open, LockTypeOK, HasLock, Steps
  <2>4. IsOpen'
    BY <1>2 DEF Open, LockTypeOK, IsOpen, Steps
  <2>5. Named'
    BY <1>2 DEF Open, LockTypeOK, Named, IsOpen, Sure, Steps
  <2>6. Removes'
    BY <1>2 DEF Open, LockTypeOK, Removes, Steps
  <2>7. QED
    BY <2>1, <2>2, <2>3, <2>4, <2>5, <2>6
<1>3. ASSUME NEW p \in Client, Flock(p) PROVE LockInv'
  <2>1. LockTypeOK'
    BY <1>3 DEF Flock, Free, LockTypeOK, Steps, Modes
  <2>2. Exclusive'
    BY <1>3 DEF Flock, Free, LockTypeOK, Exclusive, Modes
  <2>3. HasLock'
    BY <1>3 DEF Flock, Free, LockTypeOK, HasLock, Steps
  <2>4. IsOpen'
    BY <1>3 DEF Flock, Free, LockTypeOK, IsOpen, Steps
  <2>5. Named'
    BY <1>3 DEF Flock, Free, LockTypeOK, Named, IsOpen, Sure, Steps
  <2>6. Removes'
    BY <1>3 DEF Flock, Free, LockTypeOK, Removes, Steps
  <2>7. QED
    BY <2>1, <2>2, <2>3, <2>4, <2>5, <2>6
<1>4. ASSUME NEW p \in Client, FlockRaises(p) PROVE LockInv'
  <2>1. LockTypeOK'
    BY <1>4 DEF FlockRaises, LockTypeOK, Steps, Modes
  <2>2. Exclusive'
    BY <1>4 DEF FlockRaises, LockTypeOK, Exclusive, Modes
  <2>3. HasLock'
    BY <1>4 DEF FlockRaises, LockTypeOK, HasLock, Steps
  <2>4. IsOpen'
    BY <1>4 DEF FlockRaises, LockTypeOK, IsOpen, Steps
  <2>5. Named'
    BY <1>4 DEF FlockRaises, LockTypeOK, Named, IsOpen, Sure, Steps
  <2>6. Removes'
    BY <1>4 DEF FlockRaises, LockTypeOK, Removes, Steps
  <2>7. QED
    BY <2>1, <2>2, <2>3, <2>4, <2>5, <2>6
<1>5. ASSUME NEW p \in Client, Exists(p) PROVE LockInv'
  <2>1. LockTypeOK'
    BY <1>5 DEF Exists, NotThis, LockTypeOK, Steps, Modes
  <2>2. Exclusive'
    BY <1>5 DEF Exists, NotThis, LockTypeOK, Exclusive, Modes
  <2>3. HasLock'
    BY <1>5 DEF Exists, NotThis, LockTypeOK, HasLock, Steps
  <2>4. IsOpen'
    BY <1>5 DEF Exists, NotThis, LockTypeOK, IsOpen, Steps
  <2>5. Named'
    BY <1>5 DEF Exists, NotThis, LockTypeOK, Named, IsOpen, Sure, Steps
  <2>6. Removes'
    BY <1>5 DEF Exists, NotThis, LockTypeOK, Removes, Steps
  <2>7. QED
    BY <2>1, <2>2, <2>3, <2>4, <2>5, <2>6
<1>6. ASSUME NEW p \in Client, Stat(p) PROVE LockInv'
  <2>1. LockTypeOK'
    BY <1>6 DEF Stat, NotThis, LockTypeOK, Steps, Modes
  <2>2. Exclusive'
    BY <1>6 DEF Stat, NotThis, LockTypeOK, Exclusive, Modes
  <2>3. HasLock'
    BY <1>6 DEF Stat, NotThis, LockTypeOK, HasLock, Steps
  <2>4. IsOpen'
    BY <1>6 DEF Stat, NotThis, LockTypeOK, IsOpen, Steps
  <2>5. Named'
    BY <1>6 DEF Stat, NotThis, LockTypeOK, Named, IsOpen, Sure, Steps
  <2>6. Removes'
    BY <1>6 DEF Stat, NotThis, LockTypeOK, Removes, Steps
  <2>7. QED
    BY <2>1, <2>2, <2>3, <2>4, <2>5, <2>6
<1>7. ASSUME NEW p \in Client, Promote(p) PROVE LockInv'
  <2>1. LockTypeOK'
    BY <1>7 DEF Promote, Free, LockTypeOK, Steps, Modes
  <2>2. Exclusive'
    BY <1>7 DEF Promote, Free, LockTypeOK, Exclusive, Modes
  <2>3. HasLock'
    BY <1>7 DEF Promote, Free, LockTypeOK, HasLock, Steps
  <2>4. IsOpen'
    BY <1>7 DEF Promote, Free, LockTypeOK, IsOpen, Steps
  <2>5. Named'
    BY <1>7 DEF Promote, Free, LockTypeOK, Named, IsOpen, Sure, Steps
  <2>6. Removes'
    BY <1>7 DEF Promote, Free, LockTypeOK, Removes, Steps
  <2>7. QED
    BY <2>1, <2>2, <2>3, <2>4, <2>5, <2>6
<1>8. ASSUME NEW p \in Client, Unlink(p) PROVE LockInv'
  <2>1. LockTypeOK'
    BY <1>8 DEF Unlink, LockTypeOK, Steps, Modes
  <2>2. Exclusive'
    BY <1>8 DEF Unlink, LockTypeOK, Exclusive, Modes
  <2>3. HasLock'
    BY <1>8 DEF Unlink, LockTypeOK, HasLock, Steps
  <2>4. IsOpen'
    BY <1>8 DEF Unlink, LockTypeOK, IsOpen, Steps
  <2>5. Named'
    BY <1>8 DEF Unlink, LockTypeOK, Named, IsOpen, HasLock, Removes, Exclusive, Sure, Steps, Modes
  <2>6. Removes'
    BY <1>8 DEF Unlink, LockTypeOK, Removes, Steps
  <2>7. QED
    BY <2>1, <2>2, <2>3, <2>4, <2>5, <2>6
<1>9. ASSUME NEW p \in Client, Unlock(p) PROVE LockInv'
  <2>1. LockTypeOK'
    BY <1>9 DEF Unlock, LockTypeOK, Steps, Modes
  <2>2. Exclusive'
    BY <1>9 DEF Unlock, LockTypeOK, Exclusive, Modes
  <2>3. HasLock'
    BY <1>9 DEF Unlock, LockTypeOK, HasLock, Steps
  <2>4. IsOpen'
    BY <1>9 DEF Unlock, LockTypeOK, IsOpen, Steps
  <2>5. Named'
    BY <1>9 DEF Unlock, LockTypeOK, Named, IsOpen, Sure, Steps
  <2>6. Removes'
    BY <1>9 DEF Unlock, LockTypeOK, Removes, Steps
  <2>7. QED
    BY <2>1, <2>2, <2>3, <2>4, <2>5, <2>6
<1>10. ASSUME NEW p \in Client, Killed(p) PROVE LockInv'
  <2>1. LockTypeOK'
    BY <1>10 DEF Killed, LockTypeOK, Steps, Modes
  <2>2. Exclusive'
    BY <1>10 DEF Killed, LockTypeOK, Exclusive, Modes
  <2>3. HasLock'
    BY <1>10 DEF Killed, LockTypeOK, HasLock, Steps
  <2>4. IsOpen'
    BY <1>10 DEF Killed, LockTypeOK, IsOpen, Steps
  <2>5. Named'
    BY <1>10 DEF Killed, LockTypeOK, Named, IsOpen, Sure, Steps
  <2>6. Removes'
    BY <1>10 DEF Killed, LockTypeOK, Removes, Steps
  <2>7. QED
    BY <2>1, <2>2, <2>3, <2>4, <2>5, <2>6
<1>11. CASE UNCHANGED lockvars
  BY <1>11 DEF lockvars, LockTypeOK, Exclusive, HasLock, IsOpen, Named, Removes, Sure
<1>12. QED
  BY <1>1, <1>2, <1>3, <1>4, <1>5, <1>6, <1>7, <1>8, <1>9, <1>10, <1>11 DEF LockNext

(* Two callers that are sure have one file open, and flock lets only shared *)
(* locks meet there.                                                        *)
LEMMA InvExcludes == LockInv => LockExcludes
  BY DEF LockInv, LockTypeOK, Exclusive, HasLock, Named, Sure, LockExcludes, Modes

(* lockfile excludes, whatever the others remove, make and lock meanwhile.  *)
THEOREM LockExcludesHolds == LockSpec => []LockExcludes
<1>1. LockSpec => []LockInv
  BY InitInv, StepInv, PTL DEF LockSpec
<1>2. QED
  BY <1>1, InvExcludes, PTL
=============================================================================
