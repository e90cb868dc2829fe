--------------------------- MODULE Pipeline_proofs ---------------------------
(***************************************************************************)
(* Proofs about Pipeline: every variable keeps its type; a handler that    *)
(* runs alone publishes the table; a user that is gone stays gone; and     *)
(* with one handler, however it fails or is cut off, wg0.conf and the      *)
(* interface keep the promise of Publication.                              *)
(***************************************************************************)
EXTENDS Pipeline, FiniteSetTheorems, TLAPS

(***************************************************************************)
(* No two names stand for one file, and wg0.conf, once there, stays.       *)
(***************************************************************************)
Apart == \A m, n \in Names : m # n /\ path[m] # Missing => path[m] # path[n]

ConfThere == \A p \in Procs : pc[p] \in {"up", "strip"} => path["wg0.conf"] # Missing

TypeInv == TypeOK /\ Apart /\ ConfThere

\* As long as a name has no file, there is an inode to give it.
LEMMA FreshIs ==
  ASSUME path \in [Names -> Inodes \cup {Missing}], fd \in [Procs -> Inodes \cup {Missing}],
         NEW n \in Names, path[n] = Missing
  PROVE  /\ Fresh \in Inodes
         /\ \A m \in Names : Fresh # path[m]
         /\ \A q \in Procs : Fresh # fd[q]
<1> DEFINE fds == {fd[q] : q \in Procs}
           used == {path[m] : m \in Names} \cup fds
<1>1. \E i \in Inodes : i \notin used
  <2> SUFFICES ASSUME Inodes \subseteq used PROVE FALSE
    OBVIOUS
  <2>1. PICK x, y \in Names : Names \ {n} = {x, y}
    <3>1. CASE n = "wg0.conf"
      BY <3>1 DEF Names
    <3>2. CASE n = "wg0.conf.tmp"
      BY <3>2 DEF Names
    <3>3. CASE n = "wg0.conf.peers.tmp"
      BY <3>3 DEF Names
    <3> QED  BY <3>1, <3>2, <3>3 DEF Names
  <2> DEFINE two == {path[x]} \cup {path[y]}
  <2>2. Inodes \subseteq two \cup fds
    <3>1. \A m \in Names : path[m] = Missing \/ path[m] \in two
      BY <2>1
    <3> QED  BY <3>1, PipelineAssumption
  <2>3. IsFiniteSet(two) /\ Cardinality(two) \in Nat /\ Cardinality(two) <= 2
    <3>1. IsFiniteSet({path[x]}) /\ Cardinality({path[x]}) = 1
      BY FS_Singleton
    <3>2. IsFiniteSet(two)
          /\ Cardinality(two) = IF path[y] \in {path[x]} THEN 1 ELSE 1 + 1
      BY <3>1, FS_AddElement
    <3> QED  BY <3>2
  <2>4. IsFiniteSet(fds) /\ Cardinality(fds) <= Cardinality(Procs)
    <3>1. fd \in Surjection(Procs, fds)
      BY DEF Surjection
    <3> HIDE DEF fds
    <3> QED  BY <3>1, FS_Surjection, PipelineAssumption
  <2>5. /\ Cardinality(fds) \in Nat /\ Cardinality(Procs) \in Nat
        /\ Cardinality(two \cap fds) \in Nat /\ Cardinality(Inodes) \in Nat
    <3>1. IsFiniteSet(two \cap fds)
      BY <2>4, FS_Intersection
    <3> QED  BY <2>4, <3>1, FS_CardinalityType, PipelineAssumption
  <2>6. IsFiniteSet(two \cup fds)
        /\ Cardinality(two \cup fds) = Cardinality(two) + Cardinality(fds) - Cardinality(two \cap fds)
    <3> HIDE DEF two, fds
    <3> QED  BY <2>3, <2>4, FS_Union
  <2>7. Cardinality(Inodes) <= Cardinality(two \cup fds)
    <3> HIDE DEF two, fds
    <3> QED  BY <2>2, <2>6, FS_Subset
  <2> HIDE DEF two, fds
  <2> QED  BY <2>3, <2>4, <2>5, <2>6, <2>7, PipelineAssumption
<1>2. \E i \in Inodes : i \notin {path[m] : m \in Names} \cup {fd[q] : q \in Procs}
  BY <1>1
<1>3. Fresh \in Inodes /\ Fresh \notin {path[m] : m \in Names} \cup {fd[q] : q \in Procs}
  BY <1>2 DEF Fresh
<1> QED  BY <1>3

\* Opening a name empties its file and leaves the other names and their files alone.
LEMMA Opened ==
  ASSUME TypeInv, NEW p \in Procs, NEW n \in Names, OpenTrunc(p, n)
  PROVE  /\ path' \in [Names -> Inodes \cup {Missing}] /\ data' \in [Inodes -> SUBSET Users]
         /\ fd' \in [Procs -> Inodes \cup {Missing}] /\ fd'[p] # Missing
         /\ \A q \in Procs \ {p} : fd'[q] = fd[q]
         /\ Apart'
         /\ fd'[p] = path'[n] /\ path'[n] # Missing /\ data'[path'[n]] = {}
         /\ \A m \in Names \ {n} : path'[m] = path[m] /\ Content(m)' = Content(m)
<1> DEFINE i == IF path[n] = Missing THEN Fresh ELSE path[n]
<1>1. /\ path \in [Names -> Inodes \cup {Missing}] /\ fd \in [Procs -> Inodes \cup {Missing}]
      /\ data \in [Inodes -> SUBSET Users] /\ Apart
  BY DEF TypeInv, TypeOK
<1>2. i \in Inodes /\ \A m \in Names \ {n} : path[m] # i
  <2>1. CASE path[n] = Missing
    BY <1>1, <2>1, FreshIs
  <2>2. CASE path[n] # Missing
    BY <1>1, <2>2 DEF Apart
  <2> QED  BY <2>1, <2>2
<1>3. /\ path' = [path EXCEPT ![n] = i] /\ fd' = [fd EXCEPT ![p] = i]
      /\ data' = [data EXCEPT ![i] = {}]
  BY DEF OpenTrunc
<1> HIDE DEF i
<1>4. i # Missing
  BY <1>2, PipelineAssumption
<1>5. \A m \in Names \ {n} : path'[m] = path[m]
  BY <1>1, <1>3
<1>6. path'[n] = i /\ fd'[p] = i /\ data'[i] = {}
  BY <1>1, <1>2, <1>3
<1>7. ASSUME NEW m \in Names \ {n} PROVE Content(m)' = Content(m)
  <2>1. CASE path[m] = Missing
    BY <1>5, <2>1 DEF Content
  <2>2. CASE path[m] # Missing
    <3>1. path[m] \in Inodes /\ path[m] # i
      BY <1>1, <1>2, <2>2
    <3> QED  BY <1>1, <1>3, <1>5, <2>2, <3>1 DEF Content
  <2> QED  BY <2>1, <2>2
<1>8. Apart'
  BY <1>1, <1>2, <1>4, <1>5, <1>6 DEF Apart
<1>9. /\ path' \in [Names -> Inodes \cup {Missing}] /\ data' \in [Inodes -> SUBSET Users]
      /\ fd' \in [Procs -> Inodes \cup {Missing}]
      /\ \A q \in Procs \ {p} : fd'[q] = fd[q]
  BY <1>1, <1>2, <1>3
<1> QED  BY <1>4, <1>5, <1>6, <1>7, <1>8, <1>9

\* A handler goes on with, or without, an open file; the others stay where they are.
LEMMA Turn ==
  ASSUME TypeInv, NEW p \in Procs, NEW s \in Steps \cup {"idle"}, Goto(p, s),
         fd' \in [Procs -> Inodes \cup {Missing}],
         \A q \in Procs \ {p} : fd'[q] = fd[q],
         fd'[p] # Missing <=> s \in {"fill", "pfill"},
         path["wg0.conf"] # Missing => path'["wg0.conf"] # Missing,
         s \in {"up", "strip"} => path'["wg0.conf"] # Missing
  PROVE  /\ pc' \in [Procs -> Steps \cup {"idle"}]
         /\ \A q \in Procs : (fd'[q] # Missing) = (pc'[q] \in {"fill", "pfill"})
         /\ ConfThere'
<1>1. pc \in [Procs -> Steps \cup {"idle"}]
      /\ \A q \in Procs : (fd[q] # Missing) <=> (pc[q] \in {"fill", "pfill"})
  BY DEF TypeInv, TypeOK
<1>2. pc' \in [Procs -> Steps \cup {"idle"}] /\ pc'[p] = s /\ \A q \in Procs \ {p} : pc'[q] = pc[q]
  BY <1>1 DEF Goto
<1>3. \A q \in Procs : (fd'[q] # Missing) <=> (pc'[q] \in {"fill", "pfill"})
  BY <1>1, <1>2
<1>4. ConfThere'
  BY <1>2 DEF TypeInv, ConfThere
<1> QED  BY <1>2, <1>3, <1>4

\* A step that only moves the handler on, with no file open before or after.
LEMMA Moved ==
  ASSUME TypeInv, NEW p \in Procs, NEW s \in (Steps \cup {"idle"}) \ {"fill", "pfill"},
         Goto(p, s), pc[p] \notin {"fill", "pfill"}, UNCHANGED fd,
         path["wg0.conf"] # Missing => path'["wg0.conf"] # Missing,
         s \in {"up", "strip"} => path'["wg0.conf"] # Missing
  PROVE  /\ pc' \in [Procs -> Steps \cup {"idle"}] /\ fd' \in [Procs -> Inodes \cup {Missing}]
         /\ \A q \in Procs : (fd'[q] # Missing) = (pc'[q] \in {"fill", "pfill"})
         /\ ConfThere'
<1>1. fd' \in [Procs -> Inodes \cup {Missing}] /\ fd'[p] = Missing
  BY DEF TypeInv, TypeOK
<1> QED  BY <1>1, Turn

\* TypeInv after a step, from its parts.
LEMMA Parts ==
  ASSUME db' \subseteq Users, path' \in [Names -> Inodes \cup {Missing}],
         data' \in [Inodes -> SUBSET Users], iface' \in {Down} \cup SUBSET Users, iface' # Missing,
         dump' \in {Missing} \cup SUBSET Users,
         pc' \in [Procs -> Steps \cup {"idle"}], strict' \subseteq Procs,
         buf' \in [Procs -> SUBSET Users], fd' \in [Procs -> Inodes \cup {Missing}],
         \A q \in Procs : (fd'[q] # Missing) = (pc'[q] \in {"fill", "pfill"}),
         solo' \in Procs \cup {Missing}, Apart', ConfThere'
  PROVE  TypeInv'
BY DEF TypeInv, TypeOK

\* Writing to an open file.
LEMMA Filled ==
  ASSUME TypeInv, NEW p \in Procs, pc[p] \in {"fill", "pfill"}, Fill(p)
  PROVE  /\ data' \in [Inodes -> SUBSET Users] /\ UNCHANGED path
         /\ fd' \in [Procs -> Inodes \cup {Missing}] /\ fd'[p] = Missing
         /\ \A q \in Procs \ {p} : fd'[q] = fd[q]
         /\ data[fd[p]] = {} => data'[fd[p]] = buf[p]
         /\ \A i \in Inodes \ {fd[p]} : data'[i] = data[i]
<1>1. /\ path \in [Names -> Inodes \cup {Missing}] /\ fd \in [Procs -> Inodes \cup {Missing}]
      /\ data \in [Inodes -> SUBSET Users] /\ buf \in [Procs -> SUBSET Users]
  BY DEF TypeInv, TypeOK
<1>2. fd[p] \in Inodes
  BY <1>1 DEF TypeInv, TypeOK
<1>3. PICK tail \in SUBSET (data[fd[p]] \ buf[p]) :
        data' = [data EXCEPT ![fd[p]] = buf[p] \cup tail]
  BY DEF Fill
<1>4. buf[p] \cup tail \in SUBSET Users /\ (data[fd[p]] = {} => buf[p] \cup tail = buf[p])
  BY <1>1, <1>2
<1>5. UNCHANGED path /\ fd' = [fd EXCEPT ![p] = Missing]
  BY DEF Fill
<1> QED  BY <1>1, <1>2, <1>3, <1>4, <1>5

\* What is read by name is a set of users, unless there is no such file.
LEMMA ContentTyped ==
  ASSUME TypeInv, NEW n \in Names
  PROVE  path[n] # Missing => Content(n) \in SUBSET Users /\ Content(n) \notin {Down, Missing}
<1>1. path \in [Names -> Inodes \cup {Missing}] /\ data \in [Inodes -> SUBSET Users]
  BY DEF TypeInv, TypeOK
<1> QED  BY <1>1, PipelineAssumption DEF Content

\* The installation starts well-typed, without files.
LEMMA TypeInit == Init => TypeInv
<1> SUFFICES ASSUME Init PROVE TypeInv
  OBVIOUS
<1>1. TypeOK
  BY PipelineAssumption DEF Init, TypeOK, Steps
<1> QED  BY <1>1 DEF Init, TypeInv, Apart, ConfThere

\* The steps of a request keep the types.
LEMMA TypeRun ==
  ASSUME TypeInv, NEW p \in Procs, Run(p) PROVE TypeInv'
<1>0. /\ db \subseteq Users /\ path \in [Names -> Inodes \cup {Missing}]
      /\ data \in [Inodes -> SUBSET Users] /\ iface # Missing
      /\ iface \in {Down} \cup SUBSET Users /\ dump \in {Missing} \cup SUBSET Users
      /\ pc \in [Procs -> Steps \cup {"idle"}]
      /\ strict \subseteq Procs /\ buf \in [Procs -> SUBSET Users]
      /\ fd \in [Procs -> Inodes \cup {Missing}] /\ solo \in Procs \cup {Missing}
      /\ Apart /\ ConfThere
  BY DEF TypeInv, TypeOK
<1>1. CASE Begin(p)
  <2>1. db' \subseteq Users /\ strict' \subseteq Procs
    BY <1>0, <1>1 DEF Begin, Flip
  <2>2. UNCHANGED <<path, data, iface, dump, buf, fd>> /\ solo' \in Procs \cup {Missing}
    BY <1>1 DEF Begin, files, AloneAfter
  <2>3. Goto(p, "read") /\ pc[p] = "idle"
    BY <1>1 DEF Begin, At
  <2>4. Apart'
    BY <1>0, <2>2 DEF Apart
  <2> QED  BY <1>0, <2>1, <2>2, <2>3, <2>4, Moved, Parts DEF Steps
<1>2. CASE Read(p)
  <2>1. UNCHANGED <<db, path, data, iface, dump, strict, fd, solo>> /\ buf' \in [Procs -> SUBSET Users]
    BY <1>0, <1>2 DEF Read, files, Hold
  <2>2. Goto(p, "open") /\ pc[p] = "read"
    BY <1>2 DEF Read, At
  <2>3. Apart'
    BY <1>0, <2>1 DEF Apart
  <2> QED  BY <1>0, <2>1, <2>2, <2>3, Moved, Parts DEF Steps
<1>3. CASE Open(p)
  <2>1. Goto(p, "fill") /\ UNCHANGED <<db, iface, dump, strict, buf, solo>>
    BY <1>3 DEF Open
  <2>2. OpenTrunc(p, "wg0.conf.tmp") /\ "wg0.conf.tmp" \in Names /\ "wg0.conf" \in Names
    BY <1>3 DEF Open, Names
  <2>3. /\ path' \in [Names -> Inodes \cup {Missing}] /\ data' \in [Inodes -> SUBSET Users]
        /\ fd' \in [Procs -> Inodes \cup {Missing}] /\ fd'[p] # Missing
        /\ \A q \in Procs \ {p} : fd'[q] = fd[q]
        /\ Apart' /\ path'["wg0.conf"] = path["wg0.conf"]
    BY <2>2, Opened
  <2> QED  BY <1>0, <2>1, <2>3, Turn, Parts DEF Steps
<1>4. CASE FillConf(p)
  <2>1. Goto(p, "rename") /\ UNCHANGED <<db, iface, dump, strict, buf, solo>> /\ Fill(p) /\ pc[p] = "fill"
    BY <1>4 DEF FillConf, At
  <2>2. /\ data' \in [Inodes -> SUBSET Users] /\ UNCHANGED path
        /\ fd' \in [Procs -> Inodes \cup {Missing}] /\ fd'[p] = Missing
        /\ \A q \in Procs \ {p} : fd'[q] = fd[q]
    BY <2>1, Filled
  <2>3. Apart'
    BY <1>0, <2>2 DEF Apart
  <2> QED  BY <1>0, <2>1, <2>2, <2>3, Turn, Parts DEF Steps
<1>5. CASE Rename(p)
  <2>1. UNCHANGED <<db, data, iface, dump, strict, fd, solo>> /\ buf' \in [Procs -> SUBSET Users]
        /\ pc[p] = "rename"
    BY <1>0, <1>5 DEF Rename, Hold, At
  <2>2. PICK s \in {"idle", "probe"} : Goto(p, s)
    BY <1>5 DEF Rename, AfterFailedWrite
  <2>3. path' \in [Names -> Inodes \cup {Missing}] /\ Apart'
        /\ (path["wg0.conf"] # Missing => path'["wg0.conf"] # Missing)
    <3>1. CASE path["wg0.conf.tmp"] = Missing
      BY <1>0, <1>5, <3>1 DEF Rename, Apart
    <3>2. CASE path["wg0.conf.tmp"] # Missing
      <4>1. path' = [path EXCEPT !["wg0.conf"] = path["wg0.conf.tmp"],
                                 !["wg0.conf.tmp"] = Missing]
        BY <1>5, <3>2 DEF Rename
      <4>2. /\ path' \in [Names -> Inodes \cup {Missing}]
            /\ path'["wg0.conf"] = path["wg0.conf.tmp"] /\ path'["wg0.conf.tmp"] = Missing
            /\ path'["wg0.conf.peers.tmp"] = path["wg0.conf.peers.tmp"]
        BY <1>0, <4>1 DEF Names
      <4>3. Apart'
        BY <1>0, <3>2, <4>2 DEF Apart, Names
      <4> QED  BY <3>2, <4>2, <4>3
    <3> QED  BY <3>1, <3>2
  <2> QED  BY <1>0, <2>1, <2>2, <2>3, Moved, Parts DEF Steps
<1>6. CASE Probe(p)
  <2>1. UNCHANGED <<db, path, data, iface, dump, strict, buf, fd, solo>> /\ pc[p] = "probe"
    BY <1>6 DEF Probe, files, At
  <2>2. PICK s \in {"idle", "up", "strip"} :
          Goto(p, s) /\ (s \in {"up", "strip"} => path["wg0.conf"] # Missing)
    BY <1>6 DEF Probe
  <2>3. Apart'
    BY <1>0, <2>1 DEF Apart
  <2> QED  BY <1>0, <2>1, <2>2, <2>3, Moved, Parts DEF Steps
<1>7. CASE Up(p)
  <2>1. UNCHANGED <<db, path, data, dump, strict, buf, fd, solo>> /\ pc[p] = "up" /\ Goto(p, "idle")
    BY <1>7 DEF Up, files, At
  <2>2. iface' # Missing /\ iface' \in {Down} \cup SUBSET Users
    <3>1. Content("wg0.conf") \in SUBSET Users /\ Content("wg0.conf") # Missing
      BY <1>0, <2>1, ContentTyped DEF ConfThere, Names
    <3> QED  BY <1>0, <1>7, <3>1 DEF Up
  <2>3. Apart'
    BY <1>0, <2>1 DEF Apart
  <2> QED  BY <1>0, <2>1, <2>2, <2>3, Moved, Parts DEF Steps
<1>8. CASE Strip(p)
  <2>1. UNCHANGED <<db, path, data, iface, dump, strict, fd, solo>> /\ pc[p] = "strip" /\ Goto(p, "popen")
    BY <1>8 DEF Strip, files, At
  <2>2. buf' \in [Procs -> SUBSET Users]
    <3>1. Content("wg0.conf") \in SUBSET Users
      BY <1>0, <2>1, ContentTyped DEF ConfThere, Names
    <3> QED  BY <1>0, <1>8, <3>1 DEF Strip, Hold
  <2>3. Apart'
    BY <1>0, <2>1 DEF Apart
  <2> QED  BY <1>0, <2>1, <2>2, <2>3, Moved, Parts DEF Steps
<1>9. CASE OpenPeers(p)
  <2>1. Goto(p, "pfill") /\ UNCHANGED <<db, iface, dump, strict, buf, solo>>
    BY <1>9 DEF OpenPeers
  <2>2. OpenTrunc(p, "wg0.conf.peers.tmp") /\ "wg0.conf.peers.tmp" \in Names /\ "wg0.conf" \in Names
    BY <1>9 DEF OpenPeers, Names
  <2>3. /\ path' \in [Names -> Inodes \cup {Missing}] /\ data' \in [Inodes -> SUBSET Users]
        /\ fd' \in [Procs -> Inodes \cup {Missing}] /\ fd'[p] # Missing
        /\ \A q \in Procs \ {p} : fd'[q] = fd[q]
        /\ Apart' /\ path'["wg0.conf"] = path["wg0.conf"]
    BY <2>2, Opened
  <2> QED  BY <1>0, <2>1, <2>3, Turn, Parts DEF Steps
<1>10. CASE FillPeers(p)
  <2>1. Goto(p, "sync") /\ UNCHANGED <<db, iface, dump, strict, solo>> /\ Fill(p) /\ pc[p] = "pfill"
        /\ buf' \in [Procs -> SUBSET Users]
    BY <1>0, <1>10 DEF FillPeers, At, Hold
  <2>2. /\ data' \in [Inodes -> SUBSET Users] /\ UNCHANGED path
        /\ fd' \in [Procs -> Inodes \cup {Missing}] /\ fd'[p] = Missing
        /\ \A q \in Procs \ {p} : fd'[q] = fd[q]
    BY <2>1, Filled
  <2>3. Apart'
    BY <1>0, <2>2 DEF Apart
  <2> QED  BY <1>0, <2>1, <2>2, <2>3, Turn, Parts DEF Steps
<1>11. CASE SyncConf(p)
  <2>1. UNCHANGED <<db, path, data, dump, strict, buf, fd, solo>> /\ pc[p] = "sync" /\ Goto(p, "remove")
    BY <1>11 DEF SyncConf, files, At
  <2>2. iface' # Missing /\ iface' \in {Down} \cup SUBSET Users
    <3>1. path["wg0.conf.peers.tmp"] # Missing =>
            Content("wg0.conf.peers.tmp") \in SUBSET Users /\ Content("wg0.conf.peers.tmp") # Missing
      BY ContentTyped DEF Names
    <3> QED  BY <1>0, <1>11, <3>1 DEF SyncConf
  <2>3. Apart'
    BY <1>0, <2>1 DEF Apart
  <2> QED  BY <1>0, <2>1, <2>2, <2>3, Moved, Parts DEF Steps
<1>12. CASE Remove(p)
  <2>1. UNCHANGED <<db, data, iface, dump, strict, buf, fd, solo>> /\ pc[p] = "remove" /\ Goto(p, "idle")
    BY <1>12 DEF Remove, At
  <2>2. path' = [path EXCEPT !["wg0.conf.peers.tmp"] = Missing]
    BY <1>12 DEF Remove
  <2>3. path' \in [Names -> Inodes \cup {Missing}] /\ path'["wg0.conf"] = path["wg0.conf"]
    BY <1>0, <2>2 DEF Names
  <2>4. Apart'
    BY <1>0, <2>2 DEF Apart
  <2> QED  BY <1>0, <2>1, <2>3, <2>4, Moved, Parts DEF Steps
<1> QED  BY <1>1, <1>2, <1>3, <1>4, <1>5, <1>6, <1>7, <1>8, <1>9, <1>10, <1>11, <1>12 DEF Run

\* And so does every step.
LEMMA TypeStep == TypeInv /\ [Next]_vars => TypeInv'
<1> SUFFICES ASSUME TypeInv, [Next]_vars PROVE TypeInv'
  OBVIOUS
<1>0. /\ db \subseteq Users /\ path \in [Names -> Inodes \cup {Missing}]
      /\ data \in [Inodes -> SUBSET Users] /\ iface # Missing
      /\ iface \in {Down} \cup SUBSET Users /\ dump \in {Missing} \cup SUBSET Users
      /\ pc \in [Procs -> Steps \cup {"idle"}]
      /\ strict \subseteq Procs /\ buf \in [Procs -> SUBSET Users]
      /\ fd \in [Procs -> Inodes \cup {Missing}] /\ solo \in Procs \cup {Missing}
      /\ Apart /\ ConfThere
      /\ \A q \in Procs : (fd[q] # Missing) = (pc[q] \in {"fill", "pfill"})
  BY DEF TypeInv, TypeOK
<1>1. CASE UNCHANGED vars
  BY <1>1 DEF vars, files, TypeInv, TypeOK, Apart, ConfThere
<1>2. CASE Sync
  <2>1. db' \subseteq Users
    <3>1. CASE SyncCommit
      BY <1>0, <3>1 DEF SyncCommit
    <3>2. CASE SyncDump \/ SyncAbort
      BY <1>0, <3>2 DEF SyncDump, SyncAbort
    <3> QED  BY <1>2, <3>1, <3>2 DEF Sync
  <2>2. /\ UNCHANGED <<path, data, iface, pc, strict, buf, fd>>
        /\ dump' \in {Missing} \cup SUBSET Users /\ solo' \in Procs \cup {Missing}
    BY <1>0, <1>2 DEF Sync, SyncDump, SyncCommit, SyncAbort, files
  <2>3. Apart' /\ ConfThere'
    BY <1>0, <2>2 DEF Apart, ConfThere
  <2> QED  BY <1>0, <2>1, <2>2, <2>3, Parts
<1>3. ASSUME NEW p \in Procs, Fail(p) PROVE TypeInv'
  <2>1. /\ UNCHANGED <<db, path, data, iface, dump, strict>> /\ solo' = Missing
        /\ fd' = [fd EXCEPT ![p] = Missing] /\ buf' = [buf EXCEPT ![p] = {}]
    BY <1>3 DEF Fail, files, Hold
  <2>2. PICK s \in {"idle", "probe", "remove"} : Goto(p, s)
    BY <1>3 DEF Fail, AfterFailedWrite
  <2>3. fd' \in [Procs -> Inodes \cup {Missing}] /\ fd'[p] = Missing
        /\ (\A q \in Procs \ {p} : fd'[q] = fd[q]) /\ buf' \in [Procs -> SUBSET Users]
    BY <1>0, <2>1
  <2>4. Apart'
    BY <1>0, <2>1 DEF Apart
  <2> QED  BY <1>0, <2>1, <2>2, <2>3, <2>4, Turn, Parts DEF Steps
<1>4. ASSUME NEW p \in Procs, Restart(p) PROVE TypeInv'
  <2>1. /\ UNCHANGED <<db, path, data>> /\ solo' = p /\ strict' = {p}
        /\ iface' \in {iface, Down} /\ dump' = Missing
        /\ buf' = [q \in Procs |-> {}] /\ fd' = [q \in Procs |-> Missing]
        /\ pc' = [q \in Procs |-> IF q = p THEN "read" ELSE "idle"]
    BY <1>4 DEF Restart, files
  <2>2. pc' \in [Procs -> Steps \cup {"idle"}] /\ \A q \in Procs : pc'[q] \in {"read", "idle"}
    BY <2>1 DEF Steps
  <2>3. \A q \in Procs : (fd'[q] # Missing) = (pc'[q] \in {"fill", "pfill"})
    BY <2>1, <2>2
  <2>4. Apart' /\ ConfThere'
    BY <1>0, <2>1, <2>2 DEF Apart, ConfThere
  <2> QED  BY <1>0, <2>1, <2>2, <2>3, <2>4, PipelineAssumption, Parts
<1> QED  BY <1>1, <1>2, <1>3, <1>4, TypeRun DEF Next

(***************************************************************************)
(* Every variable keeps its type, for any users and handlers and enough    *)
(* file objects: in particular wg-quick and wg are only ever given a       *)
(* wg0.conf that is there, and a handler has a file open exactly while it  *)
(* is writing one.                                                         *)
(***************************************************************************)
THEOREM TypeCorrect == Spec => []TypeOK
<1>1. TypeInv => TypeOK
  BY DEF TypeInv
<1> QED  BY <1>1, TypeInit, TypeStep, PTL DEF Spec

-----------------------------------------------------------------------------
(***************************************************************************)
(* A handler nobody interferes with, step by step.  Sound says what its    *)
(* files and memory hold whatever the table has become since; Course, of a *)
(* handler that has run alone, that it is all what the table holds still.  *)
(***************************************************************************)
Sound(p) ==
  /\ At(p, "fill")   => fd[p] = path["wg0.conf.tmp"] /\ Content("wg0.conf.tmp") = {}
  /\ At(p, "rename") => Content("wg0.conf.tmp") = buf[p]
  /\ pc[p] \in {"popen", "pfill"} => buf[p] = Content("wg0.conf")
  /\ At(p, "pfill")  => fd[p] = path["wg0.conf.peers.tmp"] /\ Content("wg0.conf.peers.tmp") = {}
  /\ At(p, "sync")   => Content("wg0.conf.peers.tmp") = Content("wg0.conf")
                        /\ Content("wg0.conf") # Missing

Course(p) ==
  /\ \A q \in Procs \ {p} : pc[q] = "idle"
  /\ Sound(p)
  /\ pc[p] \in {"open", "fill", "rename"} => buf[p] = db
  /\ pc[p] \in (Steps \cup {"idle"}) \ {"read", "open", "fill", "rename"} =>
       Content("wg0.conf") = db
  /\ At(p, "up") => iface = Down
  /\ pc[p] \in {"strip", "popen", "pfill", "sync"} => iface # Down
  /\ pc[p] \in {"remove", "idle"} => iface = db

SoloInv == solo # Missing => Course(solo)

\* Writing leaves the files of other names alone.
LEMMA FilledContent ==
  ASSUME TypeInv, NEW p \in Procs, NEW n \in Names, pc[p] \in {"fill", "pfill"}, Fill(p),
         fd[p] = path[n], Content(n) = {}
  PROVE  Content(n)' = buf[p] /\ \A m \in Names \ {n} : Content(m)' = Content(m)
<1>1. /\ path \in [Names -> Inodes \cup {Missing}] /\ data \in [Inodes -> SUBSET Users]
      /\ Apart /\ path[n] # Missing /\ path[n] \in Inodes
  BY DEF TypeInv, TypeOK
<1>2. /\ UNCHANGED path
      /\ data[fd[p]] = {} => data'[fd[p]] = buf[p]
      /\ \A i \in Inodes \ {fd[p]} : data'[i] = data[i]
  BY Filled
<1>3. Content(n)' = buf[p]
  BY <1>1, <1>2 DEF Content
<1>4. ASSUME NEW m \in Names \ {n} PROVE Content(m)' = Content(m)
  <2>1. path[m] # Missing => path[m] \in Inodes \ {fd[p]}
    BY <1>1 DEF Apart
  <2> QED  BY <1>2, <2>1 DEF Content
<1> QED  BY <1>3, <1>4

\* Only the rename changes what wg0.conf holds.
LEMMA ConfStays ==
  ASSUME TypeInv, NEW p \in Procs, Sound(p), Run(p), ~Rename(p)
  PROVE  Content("wg0.conf")' = Content("wg0.conf")
<1> USE DEF Names
<1>1. CASE Begin(p) \/ Read(p) \/ Probe(p) \/ Up(p) \/ Strip(p) \/ SyncConf(p)
  BY <1>1 DEF Begin, Read, Probe, Up, Strip, SyncConf, files, Content
<1>2. CASE Open(p) \/ OpenPeers(p)
  BY <1>2, Opened DEF Open, OpenPeers
<1>3. CASE FillConf(p)
  BY <1>3, FilledContent DEF FillConf, Sound, At
<1>4. CASE FillPeers(p)
  BY <1>4, FilledContent DEF FillPeers, Sound, At
<1>5. CASE Remove(p)
  <2>1. path'["wg0.conf"] = path["wg0.conf"] /\ UNCHANGED data
    BY <1>5 DEF Remove, TypeInv, TypeOK
  <2> QED  BY <2>1 DEF Content
<1> QED  BY <1>1, <1>2, <1>3, <1>4, <1>5 DEF Run

\* A rename publishes what the handler has read.
LEMMA Renamed ==
  ASSUME TypeInv, NEW p \in Procs, Sound(p), Rename(p)
  PROVE  Content("wg0.conf")' = buf[p] /\ pc' = [pc EXCEPT ![p] = "probe"] /\ buf[p] \in SUBSET Users
<1>1. path \in [Names -> Inodes \cup {Missing}] /\ buf[p] \in SUBSET Users
  BY DEF TypeInv, TypeOK
<1>2. Content("wg0.conf.tmp") = buf[p]
  BY DEF Rename, Sound, At
<1>3. path["wg0.conf.tmp"] # Missing
  BY <1>1, <1>2, PipelineAssumption DEF Content
<1>4. path'["wg0.conf"] = path["wg0.conf.tmp"] /\ UNCHANGED data
      /\ pc' = [pc EXCEPT ![p] = "probe"]
  BY <1>1, <1>3 DEF Rename, Goto, Names
<1> QED  BY <1>1, <1>2, <1>3, <1>4 DEF Content

\* Every step of a handler keeps its files and memory in step.
LEMMA SoundRun ==
  ASSUME TypeInv, NEW p \in Procs, Sound(p), Run(p) PROVE Sound(p)'
<1> USE DEF Names
<1>0. pc \in [Procs -> Steps \cup {"idle"}] /\ buf \in [Procs -> SUBSET Users]
  BY DEF TypeInv, TypeOK
<1>1. CASE Begin(p) \/ Read(p) \/ Rename(p) \/ Probe(p) \/ Up(p) \/ SyncConf(p) \/ Remove(p)
  <2>1. pc'[p] \in {"read", "open", "probe", "idle", "up", "strip", "remove"}
    BY <1>0, <1>1 DEF Begin, Read, Rename, AfterFailedWrite, Probe, Up, SyncConf, Remove, Goto
  <2> QED  BY <2>1 DEF Sound, At
<1>2. CASE Open(p)
  <2>1. pc'[p] = "fill"
    BY <1>0, <1>2 DEF Open, Goto
  <2>2. fd'[p] = path'["wg0.conf.tmp"] /\ path'["wg0.conf.tmp"] # Missing
        /\ data'[path'["wg0.conf.tmp"]] = {}
    BY <1>2, Opened DEF Open
  <2> QED  BY <2>1, <2>2 DEF Sound, At, Content
<1>3. CASE FillConf(p)
  <2>1. pc'[p] = "rename" /\ UNCHANGED buf
    BY <1>0, <1>3 DEF FillConf, Goto
  <2>2. Content("wg0.conf.tmp")' = buf[p]
    BY <1>3, FilledContent DEF FillConf, Sound, At
  <2> QED  BY <2>1, <2>2 DEF Sound, At
<1>4. CASE Strip(p)
  <2>1. pc'[p] = "popen" /\ buf'[p] = Content("wg0.conf")
    BY <1>0, <1>4 DEF Strip, Goto, Hold
  <2>2. Content("wg0.conf")' = Content("wg0.conf")
    BY <1>4 DEF Strip, files, Content
  <2> QED  BY <2>1, <2>2 DEF Sound, At
<1>5. CASE OpenPeers(p)
  <2>1. pc'[p] = "pfill" /\ UNCHANGED buf /\ buf[p] = Content("wg0.conf")
    BY <1>0, <1>5 DEF OpenPeers, Goto, Sound, At
  <2>2. /\ fd'[p] = path'["wg0.conf.peers.tmp"] /\ path'["wg0.conf.peers.tmp"] # Missing
        /\ data'[path'["wg0.conf.peers.tmp"]] = {}
        /\ Content("wg0.conf")' = Content("wg0.conf")
    BY <1>5, Opened DEF OpenPeers
  <2>3. Content("wg0.conf.peers.tmp")' = {}
    BY <2>2 DEF Content
  <2> QED  BY <2>1, <2>2, <2>3 DEF Sound, At
<1>6. CASE FillPeers(p)
  <2>1. pc'[p] = "sync" /\ pc[p] = "pfill" /\ Fill(p)
    BY <1>0, <1>6 DEF FillPeers, Goto, At
  <2>2. buf[p] = Content("wg0.conf") /\ fd[p] = path["wg0.conf.peers.tmp"]
        /\ Content("wg0.conf.peers.tmp") = {}
    BY <2>1 DEF Sound, At
  <2>3. Content("wg0.conf.peers.tmp")' = buf[p] /\ Content("wg0.conf")' = Content("wg0.conf")
    BY <2>1, <2>2, FilledContent
  <2>4. buf[p] # Missing
    BY <1>0, PipelineAssumption
  <2> QED  BY <2>1, <2>2, <2>3, <2>4 DEF Sound, At
<1> QED  BY <1>1, <1>2, <1>3, <1>4, <1>5, <1>6 DEF Run

\* A handler that fails, or is begun anew, is sound.
LEMMA SoundOther ==
  ASSUME TypeInv, NEW p \in Procs, Fail(p) \/ Restart(p) PROVE Sound(p)'
<1>1. pc'[p] \in {"idle", "probe", "remove", "read"}
  BY DEF Fail, Restart, AfterFailedWrite, Goto, TypeInv, TypeOK, Steps
<1> QED  BY <1>1 DEF Sound, At

\* At first nobody has run.
LEMMA SoloInit == Init => SoloInv
BY DEF Init, SoloInv

\* A step of a handler that is busy is a step of the one that is alone.
LEMMA SoloMoves ==
  ASSUME TypeInv, SoloInv, NEW p \in Procs, Run(p), ~Begin(p)
  PROVE  /\ solo' = solo /\ db' = db
         /\ solo # Missing => /\ solo = p /\ Course(p)
                              /\ \A q \in Procs \ {p} : pc'[q] = "idle"
<1>1. pc[p] # "idle" /\ solo' = solo /\ db' = db
  BY DEF Run, Read, Open, FillConf, Rename, Probe, Up, Strip, OpenPeers, FillPeers, SyncConf,
         Remove, At
<1>2. pc \in [Procs -> Steps \cup {"idle"}] /\ solo \in Procs \cup {Missing}
  BY DEF TypeInv, TypeOK
<1>3. \E s \in Steps \cup {"idle"} : pc' = [pc EXCEPT ![p] = s]
  BY DEF Run, Read, Open, FillConf, Rename, AfterFailedWrite, Probe, Up, Strip, OpenPeers,
         FillPeers, SyncConf, Remove, Goto, Steps
<1>4. solo # Missing => Course(solo) /\ solo = p
  BY <1>1, <1>2 DEF SoloInv, Course
<1> QED  BY <1>1, <1>2, <1>3, <1>4 DEF Course

\* A handler that begins while nobody else runs is alone with a table to publish.
LEMMA SoloBegin ==
  ASSUME TypeInv, NEW p \in Procs, Begin(p) PROVE SoloInv'
<1>1. pc' = [pc EXCEPT ![p] = "read"] /\ pc \in [Procs -> Steps \cup {"idle"}]
  BY DEF Begin, Goto, TypeInv, TypeOK
<1>2. solo' = AloneAfter(p)
  BY DEF Begin
<1>3. CASE \A q \in Procs \ {p} : pc[q] = "idle"
  <2>1. Course(p)'
    BY <1>1, <1>3 DEF Course, Sound, At
  <2> QED  BY <1>2, <1>3, <2>1 DEF SoloInv, AloneAfter
<1>4. CASE ~\A q \in Procs \ {p} : pc[q] = "idle"
  BY <1>2, <1>4 DEF SoloInv, AloneAfter
<1> QED  BY <1>3, <1>4

\* Every step of a lone handler follows its course.
LEMMA SoloRun ==
  ASSUME TypeInv, SoloInv, NEW p \in Procs, Run(p), ~Begin(p) PROVE SoloInv'
<1> SUFFICES ASSUME solo # Missing PROVE Course(p)'
  BY SoloMoves DEF SoloInv
<1>1. /\ Course(p) /\ Sound(p) /\ UNCHANGED db
      /\ \A q \in Procs \ {p} : pc'[q] = "idle"
  BY SoloMoves DEF Course
<1>2. Sound(p)'
  BY <1>1, SoundRun
<1>3. pc \in [Procs -> Steps \cup {"idle"}] /\ buf \in [Procs -> SUBSET Users]
  BY DEF TypeInv, TypeOK
<1>4. ~Rename(p) => Content("wg0.conf")' = Content("wg0.conf")
  BY <1>1, ConfStays
<1> USE DEF Course, Goto, At, Steps
<1>5. CASE Read(p)
  BY <1>1, <1>2, <1>3, <1>5 DEF Read, Hold
<1>6. CASE Open(p) \/ FillConf(p)
  <2>1. pc'[p] \in {"fill", "rename"} /\ buf'[p] = buf[p] /\ buf[p] = db
    BY <1>1, <1>3, <1>6 DEF Open, FillConf
  <2> QED  BY <1>1, <1>2, <2>1
<1>7. CASE Rename(p)
  <2>1. buf[p] = db
    BY <1>1, <1>7 DEF Rename
  <2>2. Content("wg0.conf")' = db /\ pc'[p] = "probe"
    BY <1>1, <1>3, <1>7, <2>1, Renamed
  <2> QED  BY <1>1, <1>2, <2>2
<1>8. CASE Probe(p)
  <2>1. ~Rename(p) /\ Content("wg0.conf") = db /\ UNCHANGED iface
    BY <1>1, <1>8 DEF Probe, Rename
  <2>2. path["wg0.conf"] # Missing
    BY <2>1, PipelineAssumption DEF Content, TypeInv, TypeOK
  <2>3. pc'[p] = IF iface = Down THEN "up" ELSE "strip"
    BY <1>3, <1>8, <2>2 DEF Probe
  <2> QED  BY <1>1, <1>2, <1>4, <2>1, <2>3
<1>9. CASE Up(p)
  <2>1. Content("wg0.conf") = db /\ iface = Down /\ ~Rename(p)
    BY <1>1, <1>9 DEF Up, Rename
  <2>2. pc'[p] = "idle" /\ iface' = db
    BY <1>3, <1>9, <2>1 DEF Up
  <2> QED  BY <1>1, <1>2, <1>4, <2>1, <2>2
<1>10. CASE Strip(p) \/ OpenPeers(p) \/ FillPeers(p)
  <2>1. /\ pc'[p] \in {"popen", "pfill", "sync"} /\ UNCHANGED iface /\ ~Rename(p)
        /\ pc[p] \in {"strip", "popen", "pfill"}
    BY <1>3, <1>10 DEF Strip, OpenPeers, FillPeers, Rename
  <2>2. Content("wg0.conf")' = db /\ iface' # Down
    BY <1>1, <1>4, <2>1
  <2> QED  BY <1>1, <1>2, <2>1, <2>2
<1>11. CASE SyncConf(p)
  <2>1. /\ Content("wg0.conf") = db /\ iface # Down /\ ~Rename(p)
        /\ Content("wg0.conf.peers.tmp") = db
    BY <1>1, <1>11 DEF SyncConf, Rename, Sound
  <2>2. path["wg0.conf.peers.tmp"] # Missing
    BY <2>1, PipelineAssumption DEF Content, TypeInv, TypeOK
  <2>3. pc'[p] = "remove" /\ iface' = db
    BY <1>3, <1>11, <2>1, <2>2 DEF SyncConf
  <2> QED  BY <1>1, <1>2, <1>4, <2>1, <2>3
<1>12. CASE Remove(p)
  <2>1. /\ Content("wg0.conf") = db /\ iface' = db /\ ~Rename(p) /\ pc'[p] = "idle"
    BY <1>1, <1>3, <1>12 DEF Remove, Rename
  <2> QED  BY <1>1, <1>2, <1>4, <2>1
<1> QED  BY <1>5, <1>6, <1>7, <1>8, <1>9, <1>10, <1>11, <1>12 DEF Run

\* An error or a pass that changes the table ends the history; a restart starts one.
LEMMA SoloStep == TypeInv /\ SoloInv /\ [Next]_vars => SoloInv'
<1> SUFFICES ASSUME TypeInv, SoloInv, [Next]_vars PROVE SoloInv'
  OBVIOUS
<1>1. CASE UNCHANGED vars
  BY <1>1 DEF vars, files, SoloInv, Course, Sound, Content, At
<1>2. CASE Sync
  <2>1. UNCHANGED <<path, data, iface, pc, buf, fd>>
    BY <1>2 DEF Sync, SyncDump, SyncCommit, SyncAbort, files
  <2>2. solo' = Missing \/ (solo' = solo /\ db' = db)
    BY <1>2 DEF Sync, SyncDump, SyncCommit, SyncAbort
  <2> QED  BY <2>1, <2>2 DEF SoloInv, Course, Sound, Content, At
<1>3. ASSUME NEW p \in Procs, Fail(p) PROVE SoloInv'
  BY <1>3 DEF Fail, SoloInv
<1>4. ASSUME NEW p \in Procs, Restart(p) PROVE SoloInv'
  <2>1. pc'[p] = "read" /\ (\A q \in Procs \ {p} : pc'[q] = "idle") /\ solo' = p
    BY <1>4 DEF Restart
  <2>2. Course(p)'
    BY <2>1 DEF Course, Sound, At
  <2> QED  BY <2>1, <2>2 DEF SoloInv
<1>5. ASSUME NEW p \in Procs, Run(p) PROVE SoloInv'
  BY <1>5, SoloBegin, SoloRun
<1> QED  BY <1>1, <1>2, <1>3, <1>4, <1>5 DEF Next

(***************************************************************************)
(* For any users and any number of handlers: a request, or a startup, that *)
(* ran alone and met no error left exactly the enabled users in wg0.conf   *)
(* and on the interface, whatever scratch files, half-written texts and    *)
(* stale interface the crashes, failures and overlaps before it left.      *)
(***************************************************************************)
THEOREM LoneRequestPublishes == Spec => []SoloRequestPublishes
<1>1. TypeInv /\ SoloInv => SoloRequestPublishes
  <2> SUFFICES ASSUME TypeInv, SoloInv, NEW p \in Procs, solo = p, pc[p] = "idle"
               PROVE  /\ Content("wg0.conf") = db /\ iface = db
                      /\ \A u \in Users \ db : InDump(u) \/ Gone(u)
    BY DEF SoloRequestPublishes
  <2>1. Course(p)
    BY PipelineAssumption DEF SoloInv
  <2>2. Content("wg0.conf") = db /\ iface = db /\ \A q \in Procs : pc[q] = "idle"
    BY <2>1 DEF Course, Steps
  <2>3. \A q \in Procs : InHand(q) = {}
    BY <2>2 DEF InHand
  <2>4. Within("wg0.conf") \subseteq db
    BY <2>2 DEF Within, Content
  <2> QED  BY <2>2, <2>3, <2>4 DEF Gone
<1>2. Init => TypeInv /\ SoloInv
  BY TypeInit, SoloInit
<1>3. (TypeInv /\ SoloInv) /\ [Next]_vars => (TypeInv /\ SoloInv)'
  BY TypeStep, SoloStep
<1> QED  BY <1>1, <1>2, <1>3, PTL DEF Spec

-----------------------------------------------------------------------------
(* A user that is gone: no step but a request's own statement takes it up. *)

\* Opening a file adds nobody anywhere.
LEMMA OpenedWithin ==
  ASSUME TypeInv, NEW p \in Procs, NEW n \in Names, OpenTrunc(p, n)
  PROVE  /\ \A m \in Names : Within(m)' \subseteq Within(m)
         /\ \A q \in Procs : fd[q] # Missing => data'[fd[q]] \subseteq data[fd[q]]
         /\ data'[fd'[p]] = {} /\ Within(n)' = {}
<1>1. /\ path \in [Names -> Inodes \cup {Missing}] /\ fd \in [Procs -> Inodes \cup {Missing}]
      /\ data \in [Inodes -> SUBSET Users]
  BY DEF TypeInv, TypeOK
<1>2. /\ fd'[p] = path'[n] /\ path'[n] # Missing /\ data'[path'[n]] = {}
      /\ \A m \in Names \ {n} : path'[m] = path[m] /\ Content(m)' = Content(m)
  BY Opened
<1>3. \A i \in Inodes : data'[i] \subseteq data[i]
  <2>1. PICK i : data' = [data EXCEPT ![i] = {}]
    BY DEF OpenTrunc
  <2> QED  BY <1>1, <2>1
<1>4. Within(n)' = {}
  BY <1>2 DEF Within
<1>5. \A m \in Names \ {n} : Within(m)' \subseteq Within(m)
  BY <1>1, <1>2, <1>3 DEF Within
<1> QED  BY <1>1, <1>2, <1>3, <1>4, <1>5

\* Writing adds nobody whom the handler does not hold.
LEMMA FilledWithin ==
  ASSUME TypeInv, NEW p \in Procs, pc[p] \in {"fill", "pfill"}, Fill(p)
  PROVE  /\ \A m \in Names : Within(m)' \subseteq Within(m) \cup buf[p] \cup data[fd[p]]
         /\ \A q \in Procs : fd[q] # Missing =>
              data'[fd[q]] \subseteq data[fd[q]] \cup buf[p] \cup data[fd[p]]
<1>1. /\ path \in [Names -> Inodes \cup {Missing}] /\ fd \in [Procs -> Inodes \cup {Missing}]
      /\ data \in [Inodes -> SUBSET Users] /\ fd[p] # Missing
  BY DEF TypeInv, TypeOK
<1>2. \A i \in Inodes : data'[i] \subseteq data[i] \cup buf[p] \cup data[fd[p]]
  <2>1. PICK tail \in SUBSET (data[fd[p]] \ buf[p]) :
          data' = [data EXCEPT ![fd[p]] = buf[p] \cup tail]
    BY DEF Fill
  <2> QED  BY <1>1, <2>1
<1>3. path' = path
  BY DEF Fill
<1> QED  BY <1>1, <1>2, <1>3 DEF Within

\* A handler that stands still holds nobody new where no file it reads does.
LEMMA StillInHand ==
  ASSUME TypeInv, NEW u, NEW q \in Procs, u \notin InHand(q),
         pc'[q] = pc[q], buf'[q] = buf[q], fd'[q] = fd[q],
         \A n \in Names : u \notin Within(n) => u \notin Within(n)',
         fd[q] # Missing /\ u \notin data[fd[q]] => u \notin data'[fd[q]]
  PROVE  u \notin InHand(q)'
<1>1. pc[q] \in {"fill", "pfill"} => fd[q] # Missing
  BY DEF TypeInv, TypeOK
<1> QED  BY <1>1 DEF InHand, Names

\* Gone after a step of p, from what the step may have added.
LEMMA GoneParts ==
  ASSUME TypeInv, NEW u, NEW p \in Procs, Gone(u), u \notin db', UNCHANGED dump,
         \A n \in Names : u \notin Within(n) => u \notin Within(n)',
         iface' # Down => u \notin iface', u \notin InHand(p)',
         \A q \in Procs \ {p} :
           /\ pc'[q] = pc[q] /\ buf'[q] = buf[q] /\ fd'[q] = fd[q]
           /\ fd[q] # Missing /\ u \notin data[fd[q]] => u \notin data'[fd[q]]
  PROVE  Gone(u)'
<1>1. \A q \in Procs \ {p} : u \notin InHand(q)'
  BY StillInHand DEF Gone
<1> QED  BY <1>1 DEF Gone, InDump, Names

\* The steps of a request on a user that is gone.
LEMMA GoneRun ==
  ASSUME TypeInv, NEW u, Gone(u), NEW p \in Procs, Run(p)
  PROVE  Gone(u)' \/ (Begin(p) /\ u \in db')
<1>0. /\ pc \in [Procs -> Steps \cup {"idle"}] /\ buf \in [Procs -> SUBSET Users]
      /\ fd \in [Procs -> Inodes \cup {Missing}] /\ path \in [Names -> Inodes \cup {Missing}]
      /\ u \notin db /\ u \notin Within("wg0.conf") /\ u \notin InHand(p)
      /\ iface # Down => u \notin iface
  BY DEF TypeInv, TypeOK, Gone
<1> USE DEF Goto, At, Names
<1>1. CASE Begin(p)
  <2>1. /\ UNCHANGED <<path, data, iface, dump, buf, fd>>
        /\ pc' = [pc EXCEPT ![p] = "read"]
    BY <1>1 DEF Begin, files
  <2>2. u \notin InHand(p)'
    BY <1>0, <2>1 DEF InHand
  <2> QED  BY <1>0, <1>1, <2>1, <2>2, GoneParts DEF Within
<1>2. CASE Read(p)
  <2>1. /\ UNCHANGED <<db, path, data, iface, dump, fd>>
        /\ pc' = [pc EXCEPT ![p] = "open"] /\ buf' = [buf EXCEPT ![p] = db]
    BY <1>2 DEF Read, files, Hold
  <2>2. u \notin InHand(p)'
    BY <1>0, <2>1 DEF InHand
  <2> QED  BY <1>0, <2>1, <2>2, GoneParts DEF Within
<1>3. CASE Open(p)
  <2>1. /\ OpenTrunc(p, "wg0.conf.tmp") /\ pc[p] = "open"
        /\ UNCHANGED <<db, iface, dump, buf>> /\ pc' = [pc EXCEPT ![p] = "fill"]
    BY <1>3 DEF Open
  <2>2. /\ \A m \in Names : Within(m)' \subseteq Within(m)
        /\ \A q \in Procs : fd[q] # Missing => data'[fd[q]] \subseteq data[fd[q]]
        /\ data'[fd'[p]] = {} /\ Within("wg0.conf.tmp")' = {}
    BY <2>1, OpenedWithin
  <2>3. \A q \in Procs \ {p} : fd'[q] = fd[q]
    BY <2>1, Opened
  <2>4. u \notin InHand(p)'
    BY <1>0, <2>1, <2>2 DEF InHand
  <2> QED  BY <1>0, <2>1, <2>2, <2>3, <2>4, GoneParts
<1>4. CASE FillConf(p)
  <2>1. /\ Fill(p) /\ pc[p] = "fill" /\ UNCHANGED <<db, iface, dump, buf>>
        /\ pc' = [pc EXCEPT ![p] = "rename"]
    BY <1>4 DEF FillConf
  <2>2. /\ \A m \in Names : Within(m)' \subseteq Within(m) \cup buf[p] \cup data[fd[p]]
        /\ \A q \in Procs : fd[q] # Missing =>
             data'[fd[q]] \subseteq data[fd[q]] \cup buf[p] \cup data[fd[p]]
    BY <2>1, FilledWithin
  <2>3. u \notin buf[p] /\ u \notin data[fd[p]] /\ u \notin Within("wg0.conf.tmp")
    BY <1>0, <2>1 DEF InHand
  <2>4. \A q \in Procs \ {p} : fd'[q] = fd[q]
    BY <2>1, Filled
  <2>5. u \notin InHand(p)'
    BY <1>0, <2>1, <2>2, <2>3 DEF InHand
  <2> QED  BY <1>0, <2>1, <2>2, <2>3, <2>4, <2>5, GoneParts
<1>5. CASE Rename(p)
  <2>1. /\ pc[p] = "rename" /\ UNCHANGED <<db, data, iface, dump, fd>>
        /\ buf' = [buf EXCEPT ![p] = {}]
        /\ \E s \in {"idle", "probe"} : pc' = [pc EXCEPT ![p] = s]
    BY <1>5 DEF Rename, Hold, AfterFailedWrite
  <2>2. u \notin Within("wg0.conf.tmp")
    BY <1>0, <2>1 DEF InHand
  <2>3. \A n \in Names : u \notin Within(n) => u \notin Within(n)'
    <3>1. CASE path' = path
      BY <2>1, <3>1 DEF Within
    <3>2. CASE path' = [path EXCEPT !["wg0.conf"] = path["wg0.conf.tmp"],
                                    !["wg0.conf.tmp"] = Missing]
      BY <1>0, <2>1, <2>2, <3>2 DEF Within
    <3> QED  BY <1>5, <3>1, <3>2 DEF Rename
  <2>4. u \notin InHand(p)'
    BY <1>0, <2>1 DEF InHand
  <2> QED  BY <1>0, <2>1, <2>3, <2>4, GoneParts
<1>6. CASE Probe(p) \/ Up(p)
  <2>1. /\ UNCHANGED <<db, path, data, dump, buf, fd>>
        /\ \E s \in {"idle", "up", "strip"} : pc' = [pc EXCEPT ![p] = s]
    BY <1>6 DEF Probe, Up, files
  <2>2. iface' # Down => u \notin iface'
    <3>1. CASE Probe(p)
      BY <1>0, <3>1 DEF Probe
    <3>2. CASE Up(p)
      <4>1. Content("wg0.conf") = Within("wg0.conf")
        BY <3>2 DEF Up, Content, Within, TypeInv, ConfThere
      <4> QED  BY <1>0, <3>2, <4>1 DEF Up
    <3> QED  BY <1>6, <3>1, <3>2
  <2>3. u \notin InHand(p)'
    BY <1>0, <2>1 DEF InHand
  <2> QED  BY <1>0, <2>1, <2>2, <2>3, GoneParts DEF Within
<1>7. CASE Strip(p)
  <2>1. /\ UNCHANGED <<db, path, data, iface, dump, fd>>
        /\ pc' = [pc EXCEPT ![p] = "popen"] /\ buf' = [buf EXCEPT ![p] = Content("wg0.conf")]
    BY <1>7 DEF Strip, files, Hold
  <2>2. Content("wg0.conf") = Within("wg0.conf")
    BY <1>7 DEF Strip, Content, Within, TypeInv, ConfThere
  <2>3. u \notin InHand(p)'
    BY <1>0, <2>1, <2>2 DEF InHand
  <2> QED  BY <1>0, <2>1, <2>3, GoneParts DEF Within
<1>8. CASE OpenPeers(p)
  <2>1. /\ OpenTrunc(p, "wg0.conf.peers.tmp") /\ pc[p] = "popen"
        /\ UNCHANGED <<db, iface, dump, buf>> /\ pc' = [pc EXCEPT ![p] = "pfill"]
    BY <1>8 DEF OpenPeers
  <2>2. /\ \A m \in Names : Within(m)' \subseteq Within(m)
        /\ \A q \in Procs : fd[q] # Missing => data'[fd[q]] \subseteq data[fd[q]]
        /\ data'[fd'[p]] = {} /\ Within("wg0.conf.peers.tmp")' = {}
    BY <2>1, OpenedWithin
  <2>3. \A q \in Procs \ {p} : fd'[q] = fd[q]
    BY <2>1, Opened
  <2>4. u \notin InHand(p)'
    BY <1>0, <2>1, <2>2 DEF InHand
  <2> QED  BY <1>0, <2>1, <2>2, <2>3, <2>4, GoneParts
<1>9. CASE FillPeers(p)
  <2>1. /\ Fill(p) /\ pc[p] = "pfill" /\ UNCHANGED <<db, iface, dump>>
        /\ pc' = [pc EXCEPT ![p] = "sync"] /\ buf' = [buf EXCEPT ![p] = {}]
    BY <1>9 DEF FillPeers, Hold
  <2>2. /\ \A m \in Names : Within(m)' \subseteq Within(m) \cup buf[p] \cup data[fd[p]]
        /\ \A q \in Procs : fd[q] # Missing =>
             data'[fd[q]] \subseteq data[fd[q]] \cup buf[p] \cup data[fd[p]]
    BY <2>1, FilledWithin
  <2>3. u \notin buf[p] /\ u \notin data[fd[p]] /\ u \notin Within("wg0.conf.peers.tmp")
    BY <1>0, <2>1 DEF InHand
  <2>4. \A q \in Procs \ {p} : fd'[q] = fd[q]
    BY <2>1, Filled
  <2>5. u \notin InHand(p)'
    BY <1>0, <2>1, <2>2, <2>3 DEF InHand
  <2> QED  BY <1>0, <2>1, <2>2, <2>3, <2>4, <2>5, GoneParts
<1>10. CASE SyncConf(p)
  <2>1. /\ UNCHANGED <<db, path, data, dump, buf, fd>> /\ pc[p] = "sync"
        /\ pc' = [pc EXCEPT ![p] = "remove"]
    BY <1>10 DEF SyncConf, files
  <2>2. u \notin Within("wg0.conf.peers.tmp")
    BY <1>0, <2>1 DEF InHand
  <2>3. iface' # Down => u \notin iface'
    BY <1>0, <1>10, <2>2 DEF SyncConf, Content, Within
  <2>4. u \notin InHand(p)'
    BY <1>0, <2>1 DEF InHand
  <2> QED  BY <1>0, <2>1, <2>3, <2>4, GoneParts DEF Within
<1>11. CASE Remove(p)
  <2>1. /\ UNCHANGED <<db, data, iface, dump, buf, fd>> /\ pc' = [pc EXCEPT ![p] = "idle"]
        /\ path' = [path EXCEPT !["wg0.conf.peers.tmp"] = Missing]
    BY <1>11 DEF Remove
  <2>2. \A n \in Names : Within(n)' \subseteq Within(n)
    BY <1>0, <2>1 DEF Within
  <2>3. u \notin InHand(p)'
    BY <1>0, <2>1 DEF InHand
  <2> QED  BY <1>0, <2>1, <2>2, <2>3, GoneParts
<1> QED  BY <1>1, <1>2, <1>3, <1>4, <1>5, <1>6, <1>7, <1>8, <1>9, <1>10, <1>11 DEF Run

\* And every other step: a pass, a failure, a restart.
LEMMA GoneStep ==
  ASSUME TypeInv, [Next]_vars, NEW u \in Users, Gone(u)
  PROVE  Gone(u)' \/ \E p \in Procs : Begin(p) /\ u \in db'
<1>0. /\ pc \in [Procs -> Steps \cup {"idle"}] /\ buf \in [Procs -> SUBSET Users]
      /\ fd \in [Procs -> Inodes \cup {Missing}]
  BY DEF TypeInv, TypeOK
<1>1. CASE UNCHANGED vars
  BY <1>1 DEF vars, files, Gone, InDump, InHand, Within
<1>2. CASE Sync
  <2>1. UNCHANGED <<path, data, iface, pc, buf, fd>>
    BY <1>2 DEF Sync, SyncDump, SyncCommit, SyncAbort, files
  <2>2. u \notin db' /\ ~InDump(u)'
    BY <1>2 DEF Sync, SyncDump, SyncCommit, SyncAbort, Gone, InDump
  <2> QED  BY <2>1, <2>2 DEF Gone, InHand, Within
<1>3. ASSUME NEW p \in Procs, Run(p) PROVE Gone(u)' \/ (Begin(p) /\ u \in db')
  BY <1>3, GoneRun
<1>4. ASSUME NEW p \in Procs, Fail(p) PROVE Gone(u)'
  <2>1. /\ UNCHANGED <<db, path, data, iface, dump>>
        /\ buf' = [buf EXCEPT ![p] = {}] /\ fd' = [fd EXCEPT ![p] = Missing]
        /\ \E s \in {"idle", "probe", "remove"} : pc' = [pc EXCEPT ![p] = s]
    BY <1>4 DEF Fail, files, Hold, Goto, AfterFailedWrite
  <2>2. u \notin InHand(p)'
    BY <1>0, <2>1 DEF InHand
  <2> QED  BY <1>0, <2>1, <2>2, GoneParts DEF Gone, Within
<1>5. ASSUME NEW p \in Procs, Restart(p) PROVE Gone(u)'
  <2>1. /\ UNCHANGED <<db, path, data>> /\ iface' \in {iface, Down} /\ dump' = Missing
        /\ \A q \in Procs : pc'[q] \in {"read", "idle"}
    BY <1>5 DEF Restart, files
  <2>2. \A q \in Procs : InHand(q)' = {}
    BY <2>1 DEF InHand
  <2> QED  BY <2>1, <2>2 DEF Gone, InDump, Within
<1> QED  BY <1>1, <1>2, <1>3, <1>4, <1>5 DEF Next

(***************************************************************************)
(* For any users and any number of handlers: a user that is not enabled,   *)
(* not published and in no reading still in hand is not brought back by    *)
(* any reload, overlap, failure, crash or pass, whatever the scratch files *)
(* hold of it; only the statement of a request enables it again.           *)
(***************************************************************************)
THEOREM GoneUsersStayGone == Spec => GoneStaysGone
<1>1. TypeInv /\ [Next]_vars =>
        [\A u \in Users : Gone(u) => Gone(u)' \/ \E p \in Procs : Begin(p) /\ u \in db']_vars
  BY GoneStep
<1> QED  BY <1>1, TypeInit, TypeStep, PTL DEF Spec, GoneStaysGone

-----------------------------------------------------------------------------
(* One handler: its files are always as it left them. *)

SerialInv == \A p \in Procs : Sound(p)

\* At first there are no files.
LEMMA SerialInit == Init => SerialInv
BY DEF Init, SerialInv, Sound, At

\* What a single handler has read and not yet published.
LEMMA TakenIs ==
  ASSUME NEW p, Procs = {p}
  PROVE  Taken = IF pc[p] \in {"open", "fill", "rename"} THEN buf[p] ELSE Missing
BY DEF Taken

\* Every step of the handler is one of Publication's, or none at all.
LEMMA SerialRun ==
  ASSUME TypeInv, NEW p, Procs = {p}, Sound(p), Run(p)
  PROVE  SerialInv' /\ [Abstract!Next]_(Abstract!vars)
<1>1. SerialInv'
  BY SoundRun DEF SerialInv
<1>2. /\ pc \in [Procs -> Steps \cup {"idle"}] /\ buf \in [Procs -> SUBSET Users]
      /\ db \subseteq Users
  BY DEF TypeInv, TypeOK
<1>3. /\ Taken = IF pc[p] \in {"open", "fill", "rename"} THEN buf[p] ELSE Missing
      /\ Taken' = IF pc'[p] \in {"open", "fill", "rename"} THEN buf'[p] ELSE Missing
  BY TakenIs DEF Taken
<1>4. ~Rename(p) => Content("wg0.conf")' = Content("wg0.conf")
  BY ConfStays
<1> USE DEF Goto, At, Abstract!Next, Abstract!vars
<1>5. CASE Begin(p)
  <2>1. db' \in SUBSET Users /\ UNCHANGED iface
    BY <1>2, <1>5 DEF Begin, Flip
  <2>2. Taken' = Taken /\ ~Rename(p)
    BY <1>2, <1>3, <1>5 DEF Begin, Rename
  <2> QED  BY <1>1, <1>4, <2>1, <2>2 DEF Abstract!Change
<1>6. CASE Read(p)
  <2>1. Taken' = db /\ UNCHANGED <<db, iface>> /\ ~Rename(p)
    BY <1>2, <1>3, <1>6 DEF Read, Hold, Rename
  <2> QED  BY <1>1, <1>4, <2>1 DEF Abstract!Take
<1>7. CASE Open(p) \/ FillConf(p)
  <2>1. Taken' = Taken /\ UNCHANGED <<db, iface>> /\ ~Rename(p)
    BY <1>2, <1>3, <1>7 DEF Open, FillConf, Rename
  <2> QED  BY <1>1, <1>4, <2>1
<1>8. CASE Rename(p)
  <2>1. /\ Content("wg0.conf")' = Taken /\ Taken # Missing /\ Taken' = Missing
        /\ UNCHANGED <<db, iface>>
    BY <1>2, <1>3, <1>8, Renamed, PipelineAssumption DEF Rename
  <2> QED  BY <1>1, <2>1 DEF Abstract!Publish
<1>9. CASE Probe(p) \/ Strip(p) \/ OpenPeers(p) \/ FillPeers(p) \/ Remove(p)
  <2>1. Taken' = Taken /\ UNCHANGED <<db, iface>> /\ ~Rename(p)
    BY <1>2, <1>3, <1>9 DEF Probe, Strip, OpenPeers, FillPeers, Remove, Rename
  <2> QED  BY <1>1, <1>4, <2>1
<1>10. CASE Up(p)
  <2>1. Taken' = Taken /\ UNCHANGED db /\ ~Rename(p)
    BY <1>2, <1>3, <1>10 DEF Up, Rename
  <2>2. Content("wg0.conf") # Missing
    BY <1>10, ContentTyped DEF Up, TypeInv, ConfThere, Names
  <2>3. iface' = iface \/ iface' = Content("wg0.conf")
    BY <1>10 DEF Up
  <2> QED  BY <1>1, <1>4, <2>1, <2>2, <2>3 DEF Abstract!Adopt
<1>11. CASE SyncConf(p)
  <2>1. Taken' = Taken /\ UNCHANGED db /\ ~Rename(p)
    BY <1>2, <1>3, <1>11 DEF SyncConf, Rename
  <2>2. Content("wg0.conf.peers.tmp") = Content("wg0.conf") /\ Content("wg0.conf") # Missing
    BY <1>11 DEF SyncConf, Sound
  <2>3. iface' = iface \/ iface' = Content("wg0.conf")
    BY <1>11, <2>2 DEF SyncConf
  <2> QED  BY <1>1, <1>4, <2>1, <2>2, <2>3 DEF Abstract!Adopt
<1> QED  BY <1>5, <1>6, <1>7, <1>8, <1>9, <1>10, <1>11 DEF Run

\* So is every other step: the synchroniser's, a failure, a restart.
LEMMA SerialStep ==
  ASSUME NEW p, Procs = {p}, TypeInv, SerialInv, [Next]_vars
  PROVE  SerialInv' /\ [Abstract!Next]_(Abstract!vars)
<1>0. pc \in [Procs -> Steps \cup {"idle"}] /\ db \subseteq Users
      /\ Taken' = (IF pc'[p] \in {"open", "fill", "rename"} THEN buf'[p] ELSE Missing)
  BY DEF TypeInv, TypeOK, Taken
<1>1. CASE UNCHANGED vars
  <2>1. SerialInv'
    BY <1>1 DEF vars, files, SerialInv, Sound, Content, At
  <2>2. Taken' = Taken /\ Content("wg0.conf")' = Content("wg0.conf") /\ UNCHANGED <<db, iface>>
    BY <1>1 DEF vars, files, Taken, Content
  <2> QED  BY <2>1, <2>2 DEF Abstract!vars
<1>2. CASE Sync
  <2>1. UNCHANGED <<path, data, iface, pc, buf, fd>> /\ db' \in SUBSET Users
    BY <1>2, TypeStep DEF Sync, SyncDump, SyncCommit, SyncAbort, files, TypeInv, TypeOK
  <2>2. SerialInv'
    BY <2>1 DEF SerialInv, Sound, Content, At
  <2>3. Taken' = Taken /\ Content("wg0.conf")' = Content("wg0.conf")
    BY <2>1 DEF Taken, Content
  <2> QED  BY <2>1, <2>2, <2>3 DEF Abstract!Next, Abstract!Change
<1>3. CASE Run(p)
  BY <1>3, SerialRun DEF SerialInv
<1>4. CASE Fail(p)
  <2>1. pc'[p] \in {"idle", "probe", "remove"} /\ UNCHANGED <<db, path, data, iface>>
    BY <1>0, <1>4 DEF Fail, AfterFailedWrite, Goto, files
  <2>2. SerialInv'
    BY <1>4, SoundOther DEF SerialInv
  <2>3. Taken' = Missing /\ Content("wg0.conf")' = Content("wg0.conf")
    BY <1>0, <2>1 DEF Content
  <2> QED  BY <2>1, <2>2, <2>3 DEF Abstract!Next, Abstract!Abandon
<1>5. CASE Restart(p)
  <2>1. pc'[p] = "read" /\ UNCHANGED <<db, path, data>> /\ iface' \in {iface, Down}
    BY <1>5 DEF Restart, files
  <2>2. SerialInv'
    BY <1>5, SoundOther DEF SerialInv
  <2>3. Taken' = Missing /\ Content("wg0.conf")' = Content("wg0.conf")
    BY <1>0, <2>1 DEF Content
  <2> QED  BY <2>1, <2>2, <2>3 DEF Abstract!Next, Abstract!Restart
<1> QED  BY <1>1, <1>2, <1>3, <1>4, <1>5 DEF Next

(***************************************************************************)
(* A single handler implements Publication for any set of users, through   *)
(* every failure, crash and restart: wg0.conf goes as a whole from one     *)
(* reading of the table to the next, and the interface only ever takes     *)
(* over the whole of it.                                                   *)
(***************************************************************************)
THEOREM SerialRequestsPublish ==
  ASSUME NEW CONSTANT p, Procs = {p} PROVE Spec => Publishes
<1>1. Init => TypeInv /\ SerialInv
  BY TypeInit, SerialInit
<1>2. Init => Abstract!Init
  <2> SUFFICES ASSUME Init PROVE Abstract!Init
    OBVIOUS
  <2>1. Taken = Missing /\ Content("wg0.conf") = Missing
    BY DEF Init, Taken, Content, Names
  <2> QED  BY <2>1 DEF Init, Abstract!Init
<1>3. (TypeInv /\ SerialInv) /\ [Next]_vars
        => (TypeInv /\ SerialInv)' /\ [Abstract!Next]_(Abstract!vars)
  BY TypeStep, SerialStep
<1> QED  BY <1>1, <1>2, <1>3, PTL DEF Spec, Publishes, Abstract!Spec
=============================================================================
