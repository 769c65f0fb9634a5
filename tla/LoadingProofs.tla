------------------------------ MODULE LoadingProofs ------------------------------
(* Proofs about finding frames, going through an epoch, the batches put together *)
(* and what is left on the disk, for any datasets, windows and sizes of batches, *)
(* any downloads and versions, and whatever fails.                              *)
EXTENDS Loading, SequenceLemmas, TLAPS, FiniteSetTheorems, SequenceTheorems, WellFoundedInduction

(* One part makes the step, and the others keep what they have. *)
LEMMA Steps ==
    ASSUME [Next]_vars
    PROVE  /\ Index!Next \/ UNCHANGED indexVars
           /\ Epoch!Next \/ UNCHANGED epochVars
           /\ Remote!Next \/ UNCHANGED remoteVars
           /\ Versions!Next \/ UNCHANGED versionsVars
           /\ Assembly!Next \/ UNCHANGED assemblyVars
<1>1. CASE UNCHANGED vars
  BY <1>1 DEF vars
<1>2. CASE Next
  BY <1>2 DEF Next, Others
<1>3. QED
  BY <1>1, <1>2

-----------------------------------------------------------------------------
RemoteTypes ==
    /\ local \in [Remote!Files -> {"absent", "torn", "whole"}]
    /\ queue \in [Downloads -> Seq(Remote!Files)]
    /\ fetching \in [Downloads -> Remote!Files \cup {Remote!Idle}]
    /\ writing \in [Downloads -> BOOLEAN]
    /\ asked \in [Downloads -> Seq(Remote!Files)]
    /\ broken \subseteq Remote!Files

(* A thread downloads the file it looks at. *)
AtHead ==
    \A d \in Downloads :
        /\ writing[d] => fetching[d] # Remote!Idle
        /\ fetching[d] # Remote!Idle => queue[d] # <<>> /\ Head(queue[d]) = fetching[d]

TornExplained == \A f \in Remote!Files : local[f] = "torn" => Remote!Dirty(f) \/ f \in broken

(* What a thread has to do yet is the end of its list, and of what comes before
   that everything the bucket has is on the disk, whole or not. *)
Passed(d) == Len(asked[d]) - Len(queue[d])
PassedOnDisk ==
    \A d \in Downloads :
        /\ Passed(d) \in Nat
        /\ \A k \in 1 .. Len(queue[d]) : queue[d][k] = asked[d][Passed(d) + k]
        /\ \A k \in 1 .. Passed(d) : asked[d][k] \in InBucket => local[asked[d][k]] # "absent"

RemoteInv == RemoteTypes /\ AtHead /\ TornExplained /\ PassedOnDisk

(* Whatever a step does to a file, it does not take it from the disk. *)
LEMMA PassedStable ==
    ASSUME RemoteInv, UNCHANGED <<asked, queue>>, local' \in [Remote!Files -> {"absent", "torn", "whole"}],
           \A f \in Remote!Files : local'[f] = "absent" => local[f] = "absent"
    PROVE  PassedOnDisk'
<1>1. ASSUME NEW d \in Downloads, NEW k \in 1 .. Passed(d) PROVE asked[d][k] \in Remote!Files
  BY <1>1 DEF RemoteInv, RemoteTypes, PassedOnDisk, Passed
<1>2. QED
  BY <1>1 DEF RemoteInv, PassedOnDisk, Passed

(* A thread goes on to the next file of its list. *)
LEMMA PassedAdvances ==
    ASSUME RemoteInv, NEW d \in Downloads, queue[d] # <<>>, Head(queue[d]) \in InBucket => local'[Head(queue[d])] # "absent",
           queue' = [queue EXCEPT ![d] = Tail(@)], asked' = asked,
           local' \in [Remote!Files -> {"absent", "torn", "whole"}],
           \A f \in Remote!Files : local'[f] = "absent" => local[f] = "absent"
    PROVE  PassedOnDisk'
<1>1. ASSUME NEW e \in Downloads
      PROVE  /\ Passed(e) \in Nat
             /\ \A k \in 1 .. Len(queue[e]) : queue[e][k] = asked[e][Passed(e) + k]
             /\ \A k \in 1 .. Passed(e) :
                   asked[e][k] \in InBucket => asked[e][k] \in Remote!Files /\ local[asked[e][k]] # "absent"
  BY DEF RemoteInv, RemoteTypes, PassedOnDisk, Passed
<1>2. ASSUME NEW e \in Downloads \ {d}
      PROVE  queue'[e] = queue[e] /\ asked'[e] = asked[e] /\ Passed(e)' = Passed(e)
  BY DEF RemoteInv, RemoteTypes, Passed
<1>3. /\ queue'[d] = Tail(queue[d]) /\ asked'[d] = asked[d]
      /\ Len(Tail(queue[d])) = Len(queue[d]) - 1
      /\ \A k \in 1 .. Len(queue[d]) - 1 : Tail(queue[d])[k] = queue[d][k + 1]
      /\ Head(queue[d]) = queue[d][1] /\ Len(queue[d]) \in Nat \ {0}
  BY DEF RemoteInv, RemoteTypes
<1>4. Passed(d)' = Passed(d) + 1
  BY <1>3 DEF RemoteInv, RemoteTypes, Passed
<1>5. ASSUME NEW k \in 1 .. Len(Tail(queue[d]))
      PROVE  Tail(queue[d])[k] = asked[d][Passed(d) + 1 + k]
  <2>1. Tail(queue[d])[k] = queue[d][k + 1] /\ k + 1 \in 1 .. Len(queue[d])
    BY <1>3
  <2>2. queue[d][k + 1] = asked[d][Passed(d) + (k + 1)]
    BY <1>1, <2>1
  <2>3. Passed(d) + (k + 1) = Passed(d) + 1 + k
    BY <1>1
  <2>4. QED
    BY <2>1, <2>2, <2>3
<1>6. asked[d][Passed(d) + 1] = Head(queue[d])
  BY <1>1, <1>3
<1>7. ASSUME NEW k \in 1 .. Passed(d) + 1, asked[d][k] \in InBucket
      PROVE  local'[asked[d][k]] # "absent"
  <2>1. CASE k = Passed(d) + 1
    BY <1>6, <1>7, <2>1
  <2>2. CASE k \in 1 .. Passed(d)
    BY <1>1, <1>7, <2>2
  <2>3. QED
    BY <1>1, <2>1, <2>2
<1>8. ASSUME NEW e \in Downloads
      PROVE  /\ Passed(e)' \in Nat
             /\ \A k \in 1 .. Len(queue'[e]) : queue'[e][k] = asked'[e][Passed(e)' + k]
             /\ \A k \in 1 .. Passed(e)' :
                   asked'[e][k] \in InBucket => local'[asked'[e][k]] # "absent"
  <2>1. CASE e # d
    <3>1. Passed(e)' = Passed(e) /\ queue'[e] = queue[e] /\ asked'[e] = asked[e]
      BY <1>2, <2>1
    <3>2. \A k \in 1 .. Passed(e) : asked[e][k] \in InBucket => local'[asked[e][k]] # "absent"
      BY <1>1
    <3>3. QED
      BY <1>1, <3>1, <3>2
  <2>2. CASE e = d
    <3>1. Passed(d)' \in Nat
      BY <1>1, <1>4
    <3>2. \A k \in 1 .. Len(queue'[d]) : queue'[d][k] = asked'[d][Passed(d)' + k]
      BY <1>3, <1>4, <1>5
    <3>3. \A k \in 1 .. Passed(d)' :
             asked'[d][k] \in InBucket => local'[asked'[d][k]] # "absent"
      BY <1>3, <1>4, <1>7
    <3>4. QED
      BY <2>2, <3>1, <3>2, <3>3
  <2>3. QED
    BY <2>1, <2>2
<1>9. QED
  BY <1>8 DEF PassedOnDisk

LEMMA RemoteTypesNext == ASSUME Remote!ShardsAssumption, RemoteInv, Remote!Next \/ UNCHANGED remoteVars PROVE RemoteTypes'
<1> USE DEF RemoteInv, RemoteTypes
<1>1. CASE Remote!open
  <2>1. MetaFiles \subseteq Remote!Files
    BY DEF Remote!Files, Remote!ShardsAssumption
  <2>2. local' \in [Remote!Files -> {"absent", "torn", "whole"}]
    BY <1>1, <2>1 DEF Remote!open
  <2>3. broken' \subseteq Remote!Files
    BY <1>1, <2>1 DEF Remote!open
  <2>4. UNCHANGED <<queue, fetching, writing, asked>>
    BY <1>1 DEF Remote!open
  <2>5. QED
    BY <2>2, <2>3, <2>4
<1>2. CASE Remote!Crash
  BY <1>2, EmptySeq DEF Remote!Crash, AtHead
<1>3. ASSUME NEW d \in Downloads, Remote!prefetch_episodes(d) PROVE RemoteTypes'
  BY <1>3 DEF Remote!prefetch_episodes, Remote!ShardsAssumption
<1>4. ASSUME NEW d \in Downloads, Remote!Looks(d) PROVE RemoteTypes'
  <2>1. Head(queue[d]) \in Remote!Files /\ Tail(queue[d]) \in Seq(Remote!Files)
    BY <1>4 DEF Remote!Looks
  <2>2. QED
    BY <1>4, <2>1 DEF Remote!Looks
<1>5. ASSUME NEW d \in Downloads, Remote!Creates(d) PROVE RemoteTypes'
  BY <1>5 DEF Remote!Creates
<1>6. ASSUME NEW d \in Downloads, Remote!Fills(d) PROVE RemoteTypes'
  <2>1. queue[d] # <<>> /\ Tail(queue[d]) \in Seq(Remote!Files)
    BY <1>6 DEF Remote!Fills, AtHead
  <2>2. local' \in [Remote!Files -> {"absent", "torn", "whole"}]
    BY <1>6 DEF Remote!Fills
  <2>3. QED
    BY <1>6, <2>1, <2>2 DEF Remote!Fills
<1>7. ASSUME NEW d \in Downloads, Remote!Dies(d) PROVE RemoteTypes'
  BY <1>7, EmptySeq DEF Remote!Dies
<1>8. CASE UNCHANGED remoteVars
  BY <1>8 DEF remoteVars
<1>9. QED
  BY <1>1, <1>2, <1>3, <1>4, <1>5, <1>6, <1>7, <1>8 DEF Remote!Next

LEMMA AtHeadNext == ASSUME Remote!ShardsAssumption, RemoteInv, Remote!Next \/ UNCHANGED remoteVars PROVE AtHead'
<1> USE DEF RemoteInv, RemoteTypes, AtHead
<1>1. CASE Remote!open
  BY <1>1 DEF Remote!open
<1>2. CASE Remote!Crash
  BY <1>2 DEF Remote!Crash
<1>3. ASSUME NEW d \in Downloads, Remote!prefetch_episodes(d) PROVE AtHead'
  <2>1. fetching[d] = Remote!Idle
    BY <1>3 DEF Remote!prefetch_episodes, PassedOnDisk, Passed
  <2>2. QED
    BY <1>3, <2>1 DEF Remote!prefetch_episodes
<1>4. ASSUME NEW d \in Downloads, Remote!Looks(d) PROVE AtHead'
  BY <1>4 DEF Remote!Looks
<1>5. ASSUME NEW d \in Downloads, Remote!Creates(d) PROVE AtHead'
  BY <1>5 DEF Remote!Creates
<1>6. ASSUME NEW d \in Downloads, Remote!Fills(d) PROVE AtHead'
  BY <1>6 DEF Remote!Fills
<1>7. ASSUME NEW d \in Downloads, Remote!Dies(d) PROVE AtHead'
  BY <1>7 DEF Remote!Dies
<1>8. CASE UNCHANGED remoteVars
  BY <1>8 DEF remoteVars
<1>9. QED
  BY <1>1, <1>2, <1>3, <1>4, <1>5, <1>6, <1>7, <1>8 DEF Remote!Next

LEMMA TornNext == ASSUME Remote!ShardsAssumption, RemoteInv, Remote!Next \/ UNCHANGED remoteVars PROVE TornExplained'
<1> USE DEF RemoteInv, RemoteTypes, TornExplained, Remote!Dirty
<1>1. CASE Remote!open
  BY <1>1 DEF Remote!open
<1>2. CASE Remote!Crash
  BY <1>2 DEF Remote!Crash
<1>3. ASSUME NEW d \in Downloads, Remote!prefetch_episodes(d) PROVE TornExplained'
  BY <1>3 DEF Remote!prefetch_episodes
<1>4. ASSUME NEW d \in Downloads, Remote!Looks(d) PROVE TornExplained'
  <2>1. \A e \in Downloads : writing[e] => fetching'[e] = fetching[e]
    BY <1>4 DEF Remote!Looks, AtHead
  <2>2. QED
    BY <1>4, <2>1 DEF Remote!Looks
<1>5. ASSUME NEW d \in Downloads, Remote!Creates(d) PROVE TornExplained'
  BY <1>5 DEF Remote!Creates
<1>6. ASSUME NEW d \in Downloads, Remote!Fills(d) PROVE TornExplained'
  <2>1. \A e \in Downloads \ {d} : fetching'[e] = fetching[e] /\ writing'[e] = writing[e]
    BY <1>6 DEF Remote!Fills
  <2>2. ASSUME NEW f \in Remote!Files, local'[f] = "torn" PROVE Remote!Dirty(f)' \/ f \in broken'
    <3>1. CASE f = fetching[d]
      BY <1>6, <2>1, <2>2, <3>1 DEF Remote!Fills
    <3>2. CASE f # fetching[d]
      <4>1. local[f] = "torn"
        BY <1>6, <2>2, <3>2 DEF Remote!Fills
      <4>2. QED
        BY <1>6, <2>1, <3>2, <4>1 DEF Remote!Fills
    <3>3. QED
      BY <3>1, <3>2
  <2>3. QED
    BY <2>2
<1>7. ASSUME NEW d \in Downloads, Remote!Dies(d) PROVE TornExplained'
  BY <1>7 DEF Remote!Dies
<1>8. CASE UNCHANGED remoteVars
  BY <1>8 DEF remoteVars
<1>9. QED
  BY <1>1, <1>2, <1>3, <1>4, <1>5, <1>6, <1>7, <1>8 DEF Remote!Next

LEMMA PassedNext == ASSUME Remote!ShardsAssumption, RemoteInv, Remote!Next \/ UNCHANGED remoteVars PROVE PassedOnDisk'
<1>0. local' \in [Remote!Files -> {"absent", "torn", "whole"}]
  BY RemoteTypesNext DEF RemoteTypes
<1>1. CASE Remote!open
  <2>1. \A f \in Remote!Files : local'[f] = "absent" => local[f] = "absent"
    BY <1>1 DEF Remote!open, RemoteInv, RemoteTypes
  <2>2. QED
    BY <1>0, <1>1, <2>1, PassedStable DEF Remote!open
<1>2. CASE Remote!Crash
  BY <1>2 DEF Remote!Crash, PassedOnDisk, Passed
<1>3. ASSUME NEW d \in Downloads, Remote!prefetch_episodes(d) PROVE PassedOnDisk'
  BY <1>3 DEF Remote!prefetch_episodes, Remote!ShardsAssumption, PassedOnDisk, Passed, RemoteInv, RemoteTypes
<1>4. ASSUME NEW d \in Downloads, Remote!Looks(d) PROVE PassedOnDisk'
  <2>1. CASE queue' = queue
    BY <1>0, <1>4, <2>1, PassedStable DEF Remote!Looks
  <2>2. CASE queue' # queue
    BY <1>0, <1>4, <2>2, PassedAdvances DEF Remote!Looks
  <2>3. QED
    BY <2>1, <2>2
<1>5. ASSUME NEW d \in Downloads, Remote!Creates(d) PROVE PassedOnDisk'
  <2>1. \A f \in Remote!Files : local'[f] = "absent" => local[f] = "absent"
    BY <1>5 DEF Remote!Creates, RemoteInv, RemoteTypes
  <2>2. QED
    BY <1>0, <1>5, <2>1, PassedStable DEF Remote!Creates
<1>6. ASSUME NEW d \in Downloads, Remote!Fills(d) PROVE PassedOnDisk'
  <2>1. queue[d] # <<>> /\ Head(queue[d]) = fetching[d] /\ fetching[d] \in Remote!Files
    BY <1>6 DEF Remote!Fills, RemoteInv, AtHead, RemoteTypes
  <2>2. /\ \A f \in Remote!Files : local'[f] = "absent" => local[f] = "absent"
        /\ local'[fetching[d]] # "absent"
    BY <1>6, <2>1 DEF Remote!Fills, RemoteInv, RemoteTypes
  <2>3. QED
    BY <1>0, <1>6, <2>1, <2>2, PassedAdvances DEF Remote!Fills
<1>7. ASSUME NEW d \in Downloads, Remote!Dies(d) PROVE PassedOnDisk'
  BY <1>7 DEF Remote!Dies, PassedOnDisk, Passed, RemoteInv, RemoteTypes
<1>8. CASE UNCHANGED remoteVars
  BY <1>8 DEF remoteVars, PassedOnDisk, Passed, RemoteInv
<1>9. QED
  BY <1>1, <1>2, <1>3, <1>4, <1>5, <1>6, <1>7, <1>8 DEF Remote!Next

LEMMA RemoteInvInit == ASSUME Remote!ShardsAssumption, Remote!Init PROVE RemoteInv
<1>1. <<>> \in Seq(Remote!Files) /\ Len(<<>>) = 0
  OBVIOUS
<1>2. QED
  BY <1>1 DEF Remote!Init, RemoteInv, RemoteTypes, AtHead, TornExplained, PassedOnDisk, Passed

LEMMA RemoteInvGivesShards == ASSUME RemoteInv PROVE ShardsComplete
<1>1. ASSUME NEW d \in Downloads, queue[d] = <<>>, NEW k \in DOMAIN asked[d],
             asked[d][k] \in InBucket
      PROVE  \/ local[asked[d][k]] = "whole" \/ Remote!Dirty(asked[d][k]) \/ asked[d][k] \in broken
  <2>1. k \in 1 .. Passed(d)
    BY <1>1 DEF Passed, RemoteInv, RemoteTypes
  <2>2. asked[d][k] \in Remote!Files /\ local[asked[d][k]] # "absent"
    BY <1>1, <2>1 DEF RemoteInv, RemoteTypes, PassedOnDisk
  <2>3. QED
    BY <2>2 DEF RemoteInv, RemoteTypes, TornExplained
<1>2. QED
  BY <1>1 DEF RemoteInv, TornExplained, ShardsComplete, Remote!ShardsComplete


Tables == [versions : Seq(Tags), current : Tags \cup {"none"}]
Dirs == [exists : BOOLEAN, copied : BOOLEAN, episodes : BOOLEAN,
         table : Tables \cup {Versions!NoTable, Versions!Torn}]

VersionsTypes ==
    /\ memory \in Tables \cup {Versions!NoObject}
    /\ root \in Tables \cup {Versions!NoTable, Versions!Torn}
    /\ dirs \in [Tags -> Dirs]
    /\ again \subseteq Tags
    /\ pc \in {"idle", "copy", "episodes", "version_table", "root_table"}
    /\ pc # "idle" => tag \in Tags /\ memory # Versions!NoObject

(* The table lists whole directories of d, except of the tags in twice. *)
Listed(table) == {table.versions[k] : k \in DOMAIN table.versions}
Good(table, d, twice) ==
    /\ \A t \in Listed(table) \ twice : d[t].copied /\ d[t].episodes
    /\ table.current # "none" => table.current \in Listed(table)

(* Both tables do, the one in memory and the one on the disk.  A directory that
   was never made holds nothing, so that a tag appended for the first time is
   in no table yet; and the one under way has its copy before its episodes. *)
VersionsInv ==
    /\ VersionsTypes
    /\ memory # Versions!NoObject => Good(memory, dirs, again)
    /\ root \notin {Versions!NoTable, Versions!Torn} => Good(root, dirs, again)
    /\ \A t \in Tags : dirs[t].copied => dirs[t].exists
    /\ pc = "copy" => dirs[tag].exists
    /\ pc = "episodes" => dirs[tag].copied

(* Nothing is taken out of a directory of d in e. *)
Keeps(d, e) ==
    \A t \in Tags : /\ d[t].copied => e[t].copied
                    /\ d[t].episodes => e[t].episodes
                    /\ d[t].exists => e[t].exists

LEMMA GoodStays ==
    ASSUME NEW d, NEW e, Keeps(d, e), NEW twice,
           NEW table \in Tables, Good(table, d, twice)
    PROVE  Good(table, e, twice)
<1>1. Listed(table) \subseteq Tags
  BY DEF Listed, Tables
<1>2. QED
  BY <1>1 DEF Keeps, Good

LEMMA EmptyGood == Versions!Empty \in Tables /\ \A d, twice : Good(Versions!Empty, d, twice)
BY DEF Versions!Empty, Tables, Good, Listed

(* One directory is written. *)
LEMMA DirWritten ==
    ASSUME NEW d \in [Tags -> Dirs], NEW t \in Tags, NEW v \in Dirs
    PROVE  /\ [d EXCEPT ![t] = v] \in [Tags -> Dirs]
           /\ [d EXCEPT ![t] = v][t] = v
           /\ \A u \in Tags : u # t => [d EXCEPT ![t] = v][u] = d[u]
OBVIOUS

(* A step that writes no more than tables, and moves them about: each is an old
   one or empty, and no directory loses anything. *)
OnlyWritten ==
    /\ dirs' \in [Tags -> Dirs] /\ Keeps(dirs, dirs')
    /\ \A t \in Tags : dirs'[t].copied = dirs[t].copied

OnlyMoved ==
    /\ again' = again /\ pc' \in {"idle", "root_table"}
    /\ pc' = "root_table" => tag' \in Tags /\ memory' # Versions!NoObject
    /\ \/ memory' \in {memory, Versions!NoObject, Versions!Empty}
       \/ memory' = root /\ root \notin {Versions!NoTable, Versions!Torn}
    /\ \/ root' \in {root, Versions!Torn}
       \/ root' = memory /\ memory # Versions!NoObject

LEMMA TablesMoved == ASSUME VersionsInv, OnlyWritten, OnlyMoved PROVE VersionsInv'
<1> USE DEF OnlyWritten, OnlyMoved
<1>1. VersionsTypes'
  BY EmptyGood DEF VersionsInv, VersionsTypes
<1>2. \A m \in Tables : Good(m, dirs, again) => Good(m, dirs', again')
  BY GoodStays
<1>3. memory' # Versions!NoObject => Good(memory', dirs', again')
  <2>1. CASE memory' = Versions!Empty
    BY <2>1, EmptyGood
  <2>2. CASE memory' # Versions!NoObject /\ memory' = memory
    BY <1>2, <2>2 DEF VersionsInv, VersionsTypes
  <2>3. CASE memory' = root /\ root \notin {Versions!NoTable, Versions!Torn}
    BY <1>2, <2>3 DEF VersionsInv, VersionsTypes
  <2>4. QED
    BY <2>1, <2>2, <2>3
<1>4. root' \notin {Versions!NoTable, Versions!Torn} => Good(root', dirs', again')
  <2>1. CASE root' = root /\ root \notin {Versions!NoTable, Versions!Torn}
    BY <1>2, <2>1 DEF VersionsInv, VersionsTypes
  <2>2. CASE root' = memory /\ memory # Versions!NoObject
    BY <1>2, <2>2 DEF VersionsInv, VersionsTypes
  <2>3. QED
    BY <2>1, <2>2
<1>5. \A t \in Tags : dirs'[t].copied => dirs'[t].exists
  BY DEF VersionsInv, Keeps
<1>6. QED
  BY <1>1, <1>3, <1>4, <1>5 DEF VersionsInv

LEMMA InvMoves ==
    ASSUME VersionsInv, Versions!DatasetVersion \/ Versions!SaveInVersion \/ Versions!SaveInRoot \/ Versions!Raise \/ Versions!Crash
    PROVE  VersionsInv'
<1>1. dirs' = dirs => OnlyWritten
  BY DEF VersionsInv, VersionsTypes, Keeps, OnlyWritten
<1>2. ASSUME NEW b \in Tables \cup {Versions!NoTable, Versions!Torn}, tag \in Tags,
             dirs' = [dirs EXCEPT ![tag].table = b]
      PROVE  OnlyWritten
  <2> DEFINE v == [dirs[tag] EXCEPT !.table = b]
  <2>1. dirs \in [Tags -> Dirs] /\ dirs[tag] \in Dirs
    BY <1>2 DEF VersionsInv, VersionsTypes
  <2>2. /\ v \in Dirs /\ v.copied = dirs[tag].copied /\ v.episodes = dirs[tag].episodes
        /\ v.exists = dirs[tag].exists
    BY <2>1 DEF Dirs
  <2>3. dirs' = [dirs EXCEPT ![tag] = v]
    BY <1>2
  <2> HIDE DEF v
  <2>4. /\ dirs' \in [Tags -> Dirs] /\ dirs'[tag] = v
        /\ \A u \in Tags : u # tag => dirs'[u] = dirs[u]
    BY <1>2, <2>1, <2>2, <2>3, DirWritten
  <2>5. QED
    BY <1>2, <2>2, <2>4 DEF Keeps, OnlyWritten
<1>3. CASE Versions!DatasetVersion
  <2>1. /\ dirs' = dirs /\ again' = again /\ pc' = pc /\ root' = root /\ tag' = tag
        /\ memory = Versions!NoObject /\ root # Versions!Torn
        /\ memory' = IF root = Versions!NoTable THEN Versions!Empty ELSE root
    BY <1>3 DEF Versions!DatasetVersion
  <2>2. pc = "idle"
    BY <2>1 DEF VersionsInv, VersionsTypes
  <2>3. OnlyWritten
    BY <1>1, <2>1, <2>2
  <2>4. OnlyMoved
    BY <2>1, <2>2 DEF OnlyMoved
  <2>5. QED
    BY <2>3, <2>4, TablesMoved
<1>4. CASE Versions!SaveInVersion
  <2>1. /\ dirs' = [dirs EXCEPT ![tag].table = memory] /\ again' = again /\ pc' = "root_table"
        /\ memory' = memory /\ root' = root /\ tag' = tag /\ pc = "version_table"
    BY <1>4 DEF Versions!SaveInVersion
  <2>2. memory \in Tables /\ memory # Versions!NoObject /\ tag \in Tags
    BY <2>1 DEF VersionsInv, VersionsTypes
  <2>3. OnlyWritten
    BY <1>2, <2>1, <2>2
  <2>4. OnlyMoved
    BY <2>1, <2>2 DEF OnlyMoved
  <2>5. QED
    BY <2>3, <2>4, TablesMoved
<1>5. CASE Versions!SaveInRoot
  <2>1. /\ dirs' = dirs /\ again' = again /\ pc' = "idle" /\ pc # "idle"
        /\ memory' = memory /\ root' = memory
    BY <1>5 DEF Versions!SaveInRoot
  <2>2. memory # Versions!NoObject
    BY <2>1 DEF VersionsInv, VersionsTypes
  <2>3. OnlyWritten
    BY <1>1, <2>1, <2>2
  <2>4. OnlyMoved
    BY <2>1, <2>2 DEF OnlyMoved
  <2>5. QED
    BY <2>3, <2>4, TablesMoved
<1>6. CASE Versions!Raise \/ Versions!Crash
  <2>1. /\ again' = again /\ pc' = "idle" /\ memory' \in {memory, Versions!NoObject}
        /\ root' \in {root, Versions!Torn}
        /\ \/ dirs' = dirs
           \/ pc = "version_table" /\ dirs' = [dirs EXCEPT ![tag].table = Versions!Torn]
    BY <1>6 DEF Versions!Raise, Versions!Crash
  <2>2. pc = "version_table" => tag \in Tags
    BY DEF VersionsInv, VersionsTypes
  <2>3. OnlyWritten
    BY <1>1, <1>2, <2>1, <2>2
  <2>4. OnlyMoved
    BY <2>1 DEF OnlyMoved
  <2>5. QED
    BY <2>3, <2>4, TablesMoved
<1>7. QED
  BY <1>3, <1>4, <1>5, <1>6

(* A directory made anew was listed by no table, or is now one of again. *)
LEMMA InvAppend == ASSUME VersionsInv, NEW t \in Tags, Versions!append(t) PROVE VersionsInv'
<1>1. /\ memory # Versions!NoObject /\ memory' = memory /\ root' = root /\ pc' = "copy" /\ tag' = t
      /\ again' = IF dirs[t].exists THEN again \cup {t} ELSE again
      /\ dirs' = [dirs EXCEPT ![t] =
                    [@ EXCEPT !.exists = TRUE, !.copied = FALSE, !.episodes = FALSE]]
  BY DEF Versions!append
<1> DEFINE v == [dirs[t] EXCEPT !.exists = TRUE, !.copied = FALSE, !.episodes = FALSE]
<1>2. dirs \in [Tags -> Dirs] /\ dirs[t] \in Dirs
  BY DEF VersionsInv, VersionsTypes
<1>3. v \in Dirs /\ v.exists = TRUE /\ v.copied = FALSE
  BY <1>2 DEF Dirs
<1>4. dirs' = [dirs EXCEPT ![t] = v]
  BY <1>1
<1> HIDE DEF v
<1>5. /\ dirs' \in [Tags -> Dirs] /\ dirs'[t] = v
      /\ \A u \in Tags : u # t => dirs'[u] = dirs[u]
  BY <1>2, <1>3, <1>4, DirWritten
<1>6. VersionsTypes'
  BY <1>1, <1>5 DEF VersionsInv, VersionsTypes
<1>7. ASSUME NEW table \in Tables, Good(table, dirs, again)
      PROVE  Good(table, dirs', again')
  <2>1. Listed(table) \subseteq Tags
    BY DEF Listed, Tables
  <2>2. t \in Listed(table) => t \in again'
    BY <1>1, <1>7 DEF VersionsInv, Good
  <2>3. \A u \in Listed(table) \ again' : dirs'[u].copied /\ dirs'[u].episodes
    BY <1>1, <1>5, <1>7, <2>1, <2>2 DEF Good
  <2>4. QED
    BY <1>7, <2>3 DEF Good
<1>8. Good(memory', dirs', again')
  BY <1>1, <1>7 DEF VersionsInv, VersionsTypes
<1>9. root' \notin {Versions!NoTable, Versions!Torn} => Good(root', dirs', again')
  BY <1>1, <1>7 DEF VersionsInv, VersionsTypes
<1>10. (\A u \in Tags : dirs'[u].copied => dirs'[u].exists) /\ dirs'[tag'].exists
  BY <1>1, <1>3, <1>5 DEF VersionsInv
<1>11. QED
  BY <1>1, <1>6, <1>8, <1>9, <1>10 DEF VersionsInv

LEMMA InvCopy == ASSUME VersionsInv, Versions!Copy PROVE VersionsInv'
<1>1. /\ memory' = memory /\ root' = root /\ pc = "copy" /\ pc' = "episodes" /\ tag' = tag
      /\ again' = again /\ dirs' = [dirs EXCEPT ![tag].copied = TRUE]
  BY DEF Versions!Copy
<1> DEFINE v == [dirs[tag] EXCEPT !.copied = TRUE]
<1>2. /\ dirs \in [Tags -> Dirs] /\ dirs[tag] \in Dirs /\ tag \in Tags
      /\ dirs[tag].exists /\ memory # Versions!NoObject
  BY <1>1 DEF VersionsInv, VersionsTypes
<1>3. /\ v \in Dirs /\ v.exists /\ v.copied /\ v.episodes = dirs[tag].episodes
  BY <1>2 DEF Dirs
<1>4. dirs' = [dirs EXCEPT ![tag] = v]
  BY <1>1
<1> HIDE DEF v
<1>5. /\ dirs' \in [Tags -> Dirs] /\ dirs'[tag] = v
      /\ \A u \in Tags : u # tag => dirs'[u] = dirs[u]
  BY <1>2, <1>3, <1>4, DirWritten
<1>6. VersionsTypes'
  BY <1>1, <1>2, <1>5 DEF VersionsInv, VersionsTypes
<1>7. Keeps(dirs, dirs')
  BY <1>2, <1>3, <1>5 DEF Keeps
<1>8. Good(memory', dirs', again')
  BY <1>1, <1>2, <1>7, GoodStays DEF VersionsInv, VersionsTypes
<1>9. root' \notin {Versions!NoTable, Versions!Torn} => Good(root', dirs', again')
  BY <1>1, <1>7, GoodStays DEF VersionsInv, VersionsTypes
<1>10. (\A u \in Tags : dirs'[u].copied => dirs'[u].exists) /\ dirs'[tag'].copied
  BY <1>1, <1>3, <1>5 DEF VersionsInv
<1>11. QED
  BY <1>1, <1>6, <1>8, <1>9, <1>10 DEF VersionsInv

(* The version that is entered has its copy and its episodes. *)
LEMMA InvEpisodes == ASSUME VersionsInv, Versions!_append_episodes PROVE VersionsInv'
<1>1. /\ root' = root /\ pc = "episodes" /\ pc' = "version_table" /\ tag' = tag
      /\ again' = again /\ dirs' = [dirs EXCEPT ![tag].episodes = TRUE]
      /\ memory' = [versions |-> Append(memory.versions, tag), current |-> tag]
  BY DEF Versions!_append_episodes
<1> DEFINE v == [dirs[tag] EXCEPT !.episodes = TRUE]
<1>2. /\ dirs \in [Tags -> Dirs] /\ dirs[tag] \in Dirs /\ tag \in Tags
      /\ dirs[tag].copied /\ memory \in Tables /\ memory # Versions!NoObject
  BY <1>1 DEF VersionsInv, VersionsTypes
<1>3. /\ v \in Dirs /\ v.exists = dirs[tag].exists /\ v.copied /\ v.episodes
  BY <1>2 DEF Dirs
<1>4. dirs' = [dirs EXCEPT ![tag] = v]
  BY <1>1
<1> HIDE DEF v
<1>5. /\ dirs' \in [Tags -> Dirs] /\ dirs'[tag] = v
      /\ \A u \in Tags : u # tag => dirs'[u] = dirs[u]
  BY <1>2, <1>3, <1>4, DirWritten
<1>6. Keeps(dirs, dirs')
  BY <1>2, <1>3, <1>5 DEF Keeps
<1>7. /\ memory.versions \in Seq(Tags) /\ memory' \in Tables
      /\ memory'.versions = Append(memory.versions, tag) /\ memory'.current = tag
  BY <1>1, <1>2 DEF Tables
<1>8. Listed(memory') = Listed(memory) \cup {tag}
  BY <1>2, <1>7 DEF Listed
<1>9. Good(memory, dirs', again')
  BY <1>1, <1>2, <1>6, GoodStays DEF VersionsInv
<1>10. Good(memory', dirs', again')
  BY <1>3, <1>5, <1>7, <1>8, <1>9 DEF Good
<1>11. root' \notin {Versions!NoTable, Versions!Torn} => Good(root', dirs', again')
  BY <1>1, <1>6, GoodStays DEF VersionsInv, VersionsTypes
<1>12. \A u \in Tags : dirs'[u].copied => dirs'[u].exists
  BY <1>2, <1>3, <1>5 DEF VersionsInv
<1>13. memory' # Versions!NoObject => VersionsTypes'
  BY <1>1, <1>2, <1>5, <1>7 DEF VersionsInv, VersionsTypes
<1>14. memory' # Versions!NoObject
  BY <1>1 DEF Versions!NoObject
<1>15. QED
  BY <1>1, <1>10, <1>11, <1>12, <1>13, <1>14 DEF VersionsInv

LEMMA InvRollback == ASSUME VersionsInv, NEW t \in Tags, Versions!rollback(t) PROVE VersionsInv'
<1>1. /\ memory # Versions!NoObject /\ pc = "idle" /\ pc' = "idle" /\ t \in Versions!Range(memory.versions)
      /\ memory' = [memory EXCEPT !.current = t] /\ root' \in {memory', Versions!Torn, root}
      /\ dirs' = dirs /\ tag' = tag /\ again' = again
  BY DEF Versions!rollback
<1>2. memory \in Tables /\ Good(memory, dirs, again)
  BY <1>1 DEF VersionsInv, VersionsTypes
<1>3. /\ memory' \in Tables /\ memory'.versions = memory.versions /\ memory'.current = t
  BY <1>1, <1>2 DEF Tables
<1>4. Listed(memory') = Listed(memory) /\ t \in Listed(memory)
  BY <1>1, <1>3 DEF Listed, Versions!Range
<1>5. Good(memory', dirs', again')
  BY <1>1, <1>2, <1>3, <1>4 DEF Good
<1>6. root' \notin {Versions!NoTable, Versions!Torn} => Good(root', dirs', again')
  BY <1>1, <1>5 DEF VersionsInv
<1>7. VersionsTypes'
  BY <1>1, <1>3 DEF VersionsInv, VersionsTypes
<1>8. QED
  BY <1>1, <1>5, <1>6, <1>7 DEF VersionsInv

LEMMA VersionsInvInit == Versions!Init => VersionsInv
<1>1. SUFFICES ASSUME Versions!Init PROVE VersionsInv
  OBVIOUS
<1>2. Versions!NoDir \in Dirs /\ Versions!NoDir.copied = FALSE
  BY DEF Versions!NoDir, Dirs
<1>3. VersionsTypes
  BY <1>1, <1>2 DEF Versions!Init, VersionsTypes
<1>4. QED
  BY <1>1, <1>2, <1>3 DEF Versions!Init, VersionsInv

LEMMA VersionsInvNext == ASSUME VersionsInv, Versions!Next \/ UNCHANGED versionsVars PROVE VersionsInv'
<1>1. CASE UNCHANGED versionsVars
  BY <1>1 DEF versionsVars, VersionsInv, VersionsTypes
<1>2. CASE Versions!Next
  BY <1>2, InvMoves, InvAppend, InvCopy, InvEpisodes, InvRollback DEF Versions!Next
<1>3. QED
  BY <1>1, <1>2

LEMMA VersionsInvGives == VersionsInv => VersionsListed
<1>1. SUFFICES ASSUME VersionsInv PROVE VersionsListed
  OBVIOUS
<1>2. Good(Versions!Table, dirs, again)
  BY <1>1, EmptyGood DEF Versions!Table, VersionsInv
<1>3. Listed(Versions!Table) = Versions!Range(Versions!Table.versions)
  BY DEF Listed, Versions!Range
<1>4. QED
  BY <1>2, <1>3 DEF Good, VersionsListed, Versions!VersionsListed

(* Whatever dies or crashes, a shard cut short is being written or is one a
   download of which died, and a prefetch that ended left nothing out
   (RemoteDataset, distributed.py, whose threads take a file that exists for
   whole); and a version that the table of the root lists has a directory with
   all its data, unless its tag was appended twice, and the current version is
   one of those listed (append and rollback, versioning.py). *)
THEOREM DiskStaysConsistent == ASSUME Remote!ShardsAssumption PROVE Spec => []DiskConsistent
<1>1. Init => RemoteInv /\ VersionsInv
  BY RemoteInvInit, VersionsInvInit DEF Init
<1>2. RemoteInv /\ VersionsInv /\ [Next]_vars => (RemoteInv /\ VersionsInv)'
  BY Steps, RemoteTypesNext, AtHeadNext, TornNext, PassedNext, VersionsInvNext DEF RemoteInv
<1>3. RemoteInv /\ VersionsInv => DiskConsistent
  BY RemoteInvGivesShards, VersionsInvGives DEF DiskConsistent
<1>4. QED
  BY <1>1, <1>2, <1>3, PTL DEF Spec

-----------------------------------------------------------------------------
(***************************************************************************)
(* The iterators.  A batch starts at a multiple of batch_size, and both the *)
(* place of the loader and the checkpoint are where a batch starts or the   *)
(* epoch ends.                                                              *)
(***************************************************************************)

(* A worker that fails leaves a batch out of what PrefetchLoader counts, and
   its position falls behind: what it promises, it promises when none does. *)
PrefetchNeverFails == \A s \in Setups : s.loader = "prefetch" => s.bad = {}

Boundary(c) ==
    /\ c \in 0 .. rows
    /\ c % batch_size = 0 \/ (c = rows /\ ~drop_last)

Seen(c) == [r \in Epoch!Rows |-> IF r < c /\ ~Epoch!InFailedBatch(r) THEN 1 ELSE 0]

(* The jobs that are left: the batches from row c on. *)
Job == [first : Nat, last : Nat]
JobsFrom(c, s) ==
    /\ s \in Seq(Job)
    /\ IF s = <<>> THEN Epoch!NoBatch(c) ELSE s[1].first = c
    /\ \A k \in 1 .. Len(s) :
          /\ s[k].first \in 0 .. rows /\ ~Epoch!NoBatch(s[k].first)
          /\ s[k].last = Epoch!End(s[k].first) - 1
          /\ IF k < Len(s) THEN s[k + 1].first = Epoch!End(s[k].first)
                           ELSE Epoch!NoBatch(Epoch!End(s[k].first))

EpochInv ==
    /\ drop_last \in BOOLEAN /\ bad \subseteq Epoch!Rows
    /\ loader \in {"sync", "prefetch", "down"}
    /\ Boundary(saved.position) /\ saved.trained = Seen(saved.position)
    /\ loader = "sync" => Boundary(cursor) /\ trained = Seen(cursor)
    /\ loader = "down" => trained = saved.trained
    /\ loader = "prefetch" =>
          /\ bad = {} /\ Boundary(consumed_rows) /\ trained = Seen(consumed_rows)
          /\ JobsFrom(consumed_rows, jobs)

LEMMA EndOfBatch ==
    ASSUME Epoch!LoaderAssumption, NEW c \in 0 .. rows
    PROVE  /\ Epoch!End(c) \in 0 .. rows /\ c <= Epoch!End(c) /\ Epoch!End(c) <= c + batch_size
           /\ ~Epoch!NoBatch(c) => c < Epoch!End(c)
           /\ rows \in Nat /\ batch_size \in Nat \ {0} /\ c \in Nat
BY DEF Epoch!LoaderAssumption, Epoch!End, Epoch!NoBatch

(* The batch from a boundary on is the one its rows are in. *)
LEMMA BatchOfRow ==
    ASSUME Epoch!LoaderAssumption, NEW c, Boundary(c), ~Epoch!NoBatch(c),
           NEW r \in Epoch!Rows, c <= r, r < Epoch!End(c)
    PROVE  Epoch!InFailedBatch(r) <=> Epoch!Fails(c, Epoch!End(c) - 1)
<1>1. c \in 0 .. rows /\ c % batch_size = 0
  BY DEF Boundary, Epoch!NoBatch, Epoch!LoaderAssumption
<1>2. r \in Nat /\ c \in Nat /\ batch_size \in Nat \ {0} /\ r < c + batch_size
  BY <1>1, EndOfBatch DEF Epoch!Rows
<1>3. r % batch_size = r - c
  BY <1>1, <1>2, BatchStart
<1>4. r - (r % batch_size) = c
  BY <1>2, <1>3
<1>5. QED
  BY <1>4 DEF Epoch!InFailedBatch

LEMMA BoundaryMoves ==
    ASSUME Epoch!LoaderAssumption, drop_last \in BOOLEAN, NEW c, Boundary(c), ~Epoch!NoBatch(c)
    PROVE  Boundary(Epoch!End(c))
<1>1. c \in 0 .. rows /\ c % batch_size = 0
  BY DEF Boundary, Epoch!NoBatch, Epoch!LoaderAssumption
<1>2. Epoch!End(c) \in 0 .. rows /\ rows \in Nat /\ batch_size \in Nat \ {0} /\ c \in Nat
  BY <1>1, EndOfBatch
<1>3. CASE Epoch!End(c) = c + batch_size
  <2>1. (c + batch_size) % batch_size = 0
    BY <1>1, <1>2, NextMultiple
  <2>2. QED
    BY <1>2, <1>3, <2>1 DEF Boundary
<1>4. CASE Epoch!End(c) # c + batch_size
  <2>1. Epoch!End(c) = rows /\ rows < c + batch_size
    BY <1>2, <1>4 DEF Epoch!End
  <2>2. ~drop_last
    BY <1>2, <2>1 DEF Epoch!NoBatch
  <2>3. QED
    BY <1>2, <2>1, <2>2 DEF Boundary
<1>5. QED
  BY <1>3, <1>4

(* Training on a batch that does not fail, or passing over one that does. *)
LEMMA SeenMoves ==
    ASSUME Epoch!LoaderAssumption, NEW c, Boundary(c), ~Epoch!NoBatch(c), trained = Seen(c),
           IF Epoch!Fails(c, Epoch!End(c) - 1) THEN UNCHANGED trained
                                               ELSE Epoch!Train(c, Epoch!End(c) - 1)
    PROVE  trained' = Seen(Epoch!End(c))
<1> DEFINE e == Epoch!End(c)
<1>1. /\ c \in Nat /\ e \in Nat /\ c < e /\ rows \in Nat
  BY EndOfBatch DEF Boundary
<1>2. \A r \in Epoch!Rows : r \in Nat
  BY DEF Epoch!Rows
<1>3. \A r \in Epoch!Rows : c <= r /\ r < e => (Epoch!InFailedBatch(r) <=> Epoch!Fails(c, e - 1))
  BY BatchOfRow
<1> DEFINE F == Epoch!Fails(c, e - 1)
           B(r) == Epoch!InFailedBatch(r)
<1>4. trained = [r \in Epoch!Rows |-> IF r < c /\ ~B(r) THEN 1 ELSE 0]
  BY DEF Seen
<1>5. IF F THEN trained' = trained
      ELSE trained' = [r \in Epoch!Rows |-> IF c <= r /\ r <= e - 1 THEN trained[r] + 1
                                                                   ELSE trained[r]]
  BY DEF Epoch!Train
<1>6. Seen(e) = [r \in Epoch!Rows |-> IF r < e /\ ~B(r) THEN 1 ELSE 0]
  BY DEF Seen
<1>7. \A r \in Epoch!Rows : c <= r /\ r < e => (B(r) <=> F)
  BY <1>3
<1> HIDE DEF e, F, B
<1>8. CASE F
  <2>1. \A r \in Epoch!Rows : (r < c /\ ~B(r)) <=> (r < e /\ ~B(r))
    BY <1>1, <1>2, <1>7, <1>8
  <2>2. QED
    BY <1>4, <1>5, <1>6, <1>8, <2>1 DEF e
<1>9. CASE ~F
  <2>1. \A r \in Epoch!Rows :
           (IF c <= r /\ r <= e - 1 THEN (IF r < c /\ ~B(r) THEN 1 ELSE 0) + 1
                                    ELSE IF r < c /\ ~B(r) THEN 1 ELSE 0)
           = (IF r < e /\ ~B(r) THEN 1 ELSE 0)
    BY <1>1, <1>2, <1>7, <1>9
  <2>2. \A r \in Epoch!Rows : trained[r] = IF r < c /\ ~B(r) THEN 1 ELSE 0
    BY <1>4
  <2>3. trained' = [r \in Epoch!Rows |-> IF r < e /\ ~B(r) THEN 1 ELSE 0]
    BY <1>5, <1>9, <2>1, <2>2
  <2>4. QED
    BY <1>6, <2>3 DEF e
<1>10. QED
  BY <1>8, <1>9

LEMMA JobsOfRow ==
    ASSUME Epoch!LoaderAssumption, NEW c \in 0 .. rows, ~Epoch!NoBatch(c),
           NEW s, JobsFrom(Epoch!End(c), s)
    PROVE  JobsFrom(c, <<[first |-> c, last |-> Epoch!End(c) - 1]>> \o s)
<1> DEFINE j == [first |-> c, last |-> Epoch!End(c) - 1]
           t == <<j>> \o s
<1>1. /\ Epoch!End(c) \in 0 .. rows /\ c < Epoch!End(c) /\ rows \in Nat /\ c \in Nat
  BY EndOfBatch
<1>2. j \in Job
  BY <1>1 DEF Job
<1>3. /\ s \in Seq(Job) /\ Len(s) \in Nat
      /\ IF s = <<>> THEN Epoch!NoBatch(Epoch!End(c)) ELSE s[1].first = Epoch!End(c)
      /\ \A k \in 1 .. Len(s) :
            /\ s[k].first \in 0 .. rows /\ ~Epoch!NoBatch(s[k].first)
            /\ s[k].last = Epoch!End(s[k].first) - 1
            /\ IF k < Len(s) THEN s[k + 1].first = Epoch!End(s[k].first)
                             ELSE Epoch!NoBatch(Epoch!End(s[k].first))
  BY DEF JobsFrom
<1>4. /\ t \in Seq(Job) /\ Len(t) = Len(s) + 1 /\ t[1] = j
      /\ \A k \in 1 .. Len(s) : t[k + 1] = s[k]
  <2> HIDE DEF j
  <2>1. <<j>> \in Seq(Job) /\ Len(<<j>>) = 1 /\ <<j>>[1] = j
    BY <1>2
  <2>2. /\ t \in Seq(Job) /\ Len(t) = 1 + Len(s)
        /\ \A k \in 1 .. 1 + Len(s) : t[k] = IF k <= 1 THEN <<j>>[k] ELSE s[k - 1]
    BY <1>3, <2>1, ConcatProperties
  <2>3. \A k \in 1 .. Len(s) : t[k + 1] = s[k]
    <3>1. ASSUME NEW k \in 1 .. Len(s) PROVE t[k + 1] = s[k]
      <4>1. k + 1 \in 1 .. 1 + Len(s) /\ ~(k + 1 <= 1) /\ (k + 1) - 1 = k
        BY <1>3
      <4>2. QED
        BY <2>2, <4>1
    <3>2. QED
      BY <3>1
  <2>4. t[1] = j
    BY <1>3, <2>1, <2>2
  <2>5. QED
    BY <1>3, <2>2, <2>3, <2>4
<1>5. j.first = c /\ j.last = Epoch!End(c) - 1
  OBVIOUS
<1> HIDE DEF j, t
<1>6. ASSUME NEW k \in 1 .. Len(t)
      PROVE  /\ t[k].first \in 0 .. rows /\ ~Epoch!NoBatch(t[k].first)
             /\ t[k].last = Epoch!End(t[k].first) - 1
             /\ IF k < Len(t) THEN t[k + 1].first = Epoch!End(t[k].first)
                              ELSE Epoch!NoBatch(Epoch!End(t[k].first))
  <2>1. CASE k = 1
    <3>1. s = <<>> <=> Len(s) = 0
      BY <1>3
    <3>2. CASE s = <<>>
      <4>1. ~(k < Len(t))
        BY <1>4, <2>1, <3>1, <3>2
      <4>2. QED
        BY <1>3, <1>4, <1>5, <2>1, <3>2, <4>1
    <3>3. CASE s # <<>>
      <4>1. k < Len(t) /\ 1 \in 1 .. Len(s)
        BY <1>3, <1>4, <2>1, <3>1, <3>3
      <4>2. t[k + 1] = s[1]
        BY <1>4, <2>1, <4>1
      <4>3. QED
        BY <1>3, <1>4, <1>5, <2>1, <3>3, <4>1, <4>2
    <3>4. QED
      BY <3>2, <3>3
  <2>2. CASE k # 1
    <3> DEFINE m == k - 1
    <3>1. m \in 1 .. Len(s) /\ m + 1 = k /\ (m < Len(s) <=> k < Len(t))
      BY <1>3, <1>4, <2>2
    <3> HIDE DEF m
    <3>2. t[k] = s[m]
      BY <1>4, <3>1
    <3>3. k < Len(t) => t[k + 1] = s[m + 1]
      <4>1. k < Len(t) => k \in 1 .. Len(s)
        BY <1>3, <1>4
      <4>2. QED
        BY <1>4, <3>1, <4>1
    <3>4. /\ s[m].first \in 0 .. rows /\ ~Epoch!NoBatch(s[m].first)
          /\ s[m].last = Epoch!End(s[m].first) - 1
          /\ IF m < Len(s) THEN s[m + 1].first = Epoch!End(s[m].first)
                           ELSE Epoch!NoBatch(Epoch!End(s[m].first))
      BY <1>3, <3>1
    <3>5. QED
      BY <3>1, <3>2, <3>3, <3>4
  <2>3. QED
    BY <2>1, <2>2
<1>7. t # <<>>
  BY <1>3, <1>4
<1>8. JobsFrom(c, t)
  BY <1>4, <1>5, <1>6, <1>7 DEF JobsFrom
<1>9. QED
  BY <1>8 DEF t, j

(* make_jobs recurs towards the end of the epoch; a function that does what it
   says exists, by induction from there. *)
LEMMA JobsExist ==
    ASSUME Epoch!LoaderAssumption
    PROVE  \E f : f = [c \in 0 .. rows |->
                          IF Epoch!NoBatch(c) THEN <<>>
                          ELSE <<[first |-> c, last |-> Epoch!End(c) - 1]>> \o f[Epoch!End(c)]]
<1> DEFINE Jobs1(f, c) == IF Epoch!NoBatch(c) THEN <<>>
                          ELSE <<[first |-> c, last |-> Epoch!End(c) - 1]>> \o f[Epoch!End(c)]
           Solves(f, n) == f = [c \in n .. rows |-> Jobs1(f, c)]
           S == {d \in 0 .. rows : ~\E f : Solves(f, rows - d)}
<1>1. rows \in Nat
  BY DEF Epoch!LoaderAssumption
<1>2. S = {}
  <2>1. SUFFICES ASSUME S # {} PROVE FALSE
    OBVIOUS
  <2>2. PICK d \in S : \A m \in S : d <= m
    <3>1. S \in SUBSET Nat
      BY <1>1
    <3> HIDE DEF S
    <3> QED BY <2>1, <3>1, LeastElement
  <2>3. d \in 0 .. rows /\ ~\E f : Solves(f, rows - d)
    BY <2>2
  <2> DEFINE n == rows - d
  <2>4. n \in 0 .. rows /\ n \in Nat
    BY <1>1, <2>3
  <2>5. \E f : \A c \in n + 1 .. rows : f[c] = Jobs1(f, c)
    <3>1. CASE d = 0
      <4>1. n + 1 .. rows = {}
        BY <1>1, <3>1
      <4>2. QED
        BY <4>1
    <3>2. CASE d # 0
      <4>1. d - 1 \in 0 .. rows /\ ~(d <= d - 1) /\ rows - (d - 1) = n + 1
        BY <1>1, <2>3, <3>2
      <4>2. d - 1 \notin S
        BY <2>2, <4>1
      <4>3. \E f : Solves(f, rows - (d - 1))
        BY <4>1, <4>2
      <4>4. PICK f : Solves(f, n + 1)
        BY <4>1, <4>3
      <4>5. \A c \in n + 1 .. rows : f[c] = Jobs1(f, c)
        <5>1. f = [c \in n + 1 .. rows |-> Jobs1(f, c)]
          BY <4>4
        <5> HIDE DEF Jobs1, n
        <5>2. ASSUME NEW c \in n + 1 .. rows PROVE f[c] = Jobs1(f, c)
          <6> DEFINE h == [x \in n + 1 .. rows |-> Jobs1(f, x)]
          <6>1. h[c] = Jobs1(f, c)
            OBVIOUS
          <6> HIDE DEF h
          <6>2. f = h
            BY <5>1 DEF h
          <6>3. QED
            BY <6>1, <6>2, Zenon
        <5>3. QED
          BY <5>2
      <4>6. QED
        BY <4>5
    <3>3. QED
      BY <3>1, <3>2
  <2>6. PICK f : \A c \in n + 1 .. rows : f[c] = Jobs1(f, c)
    BY <2>5
  <2> DEFINE g == [c \in n .. rows |-> IF c = n THEN Jobs1(f, n) ELSE f[c]]
  <2>7. ASSUME NEW c \in n .. rows PROVE g[c] = Jobs1(g, c)
    <3>1. ~Epoch!NoBatch(c) => /\ Epoch!End(c) \in n + 1 .. rows /\ Epoch!End(c) \in n .. rows
                               /\ Epoch!End(c) # n
      <4>1. c \in 0 .. rows
        BY <2>4
      <4>2. ~Epoch!NoBatch(c) => c < Epoch!End(c) /\ Epoch!End(c) \in 0 .. rows
        BY <4>1, EndOfBatch
      <4>3. QED
        BY <2>4, <4>2
    <3>2. ~Epoch!NoBatch(c) => g[Epoch!End(c)] = f[Epoch!End(c)]
      BY <3>1
    <3>3. Jobs1(g, c) = Jobs1(f, c)
      <4> HIDE DEF g
      <4> QED BY <3>2
    <3>4. g[c] = IF c = n THEN Jobs1(f, n) ELSE f[c]
      OBVIOUS
    <3>5. c # n => c \in n + 1 .. rows
      BY <2>4
    <3> HIDE DEF g, Jobs1, n
    <3>6. QED
      BY <2>6, <3>3, <3>4, <3>5
  <2>8. Solves(g, n)
    <3>1. g = [c \in n .. rows |-> g[c]]
      OBVIOUS
    <3> HIDE DEF g, Jobs1, n
    <3>2. g = [c \in n .. rows |-> Jobs1(g, c)]
      BY <2>7, <3>1
    <3>3. QED
      BY <3>2
  <2>9. QED
    <3> HIDE DEF Solves, g
    <3> QED BY <2>3, <2>8
<1>3. 0 \in 0 .. rows /\ rows - rows = 0 /\ rows \in 0 .. rows
  BY <1>1
<1>4. \E f : Solves(f, rows - rows)
  <2> HIDE DEF Solves
  <2> QED BY <1>2, <1>3
<1>5. QED
  BY <1>3, <1>4

LEMMA MakeJobs ==
    ASSUME Epoch!LoaderAssumption, NEW c \in 0 .. rows
    PROVE  JobsFrom(c, Epoch!make_jobs[c])
<1> DEFINE Step(f) == [x \in 0 .. rows |->
                          IF Epoch!NoBatch(x) THEN <<>>
                          ELSE <<[first |-> x, last |-> Epoch!End(x) - 1]>> \o f[Epoch!End(x)]]
           J == Epoch!make_jobs
<1>1. \E f : f = Step(f)
  BY JobsExist
<1>2. J = CHOOSE f : f = Step(f)
  BY DEF Epoch!make_jobs
<1>3. J = Step(J)
  <2> HIDE DEF Step, J
  <2> QED BY <1>1, <1>2, Zenon
<1>4. ASSUME NEW x \in 0 .. rows
      PROVE  J[x] = IF Epoch!NoBatch(x) THEN <<>>
                    ELSE <<[first |-> x, last |-> Epoch!End(x) - 1]>> \o J[Epoch!End(x)]
  <2> HIDE DEF J
  <2>1. Step(J)[x] = IF Epoch!NoBatch(x) THEN <<>>
                     ELSE <<[first |-> x, last |-> Epoch!End(x) - 1]>> \o J[Epoch!End(x)]
    OBVIOUS
  <2> HIDE DEF Step
  <2>2. J[x] = Step(J)[x]
    BY <1>3, Zenon
  <2>3. QED
    BY <2>1, <2>2
<1> HIDE DEF J
<1> DEFINE S == {d \in 0 .. rows : ~JobsFrom(rows - d, J[rows - d])}
<1>5. rows \in Nat
  BY DEF Epoch!LoaderAssumption
<1>6. S = {}
  <2>1. SUFFICES ASSUME S # {} PROVE FALSE
    OBVIOUS
  <2>2. PICK d \in S : \A m \in S : d <= m
    <3>1. S \in SUBSET Nat
      BY <1>5
    <3> HIDE DEF S
    <3> QED BY <2>1, <3>1, LeastElement
  <2> DEFINE x == rows - d
  <2>3. d \in 0 .. rows /\ ~JobsFrom(x, J[x]) /\ x \in 0 .. rows
    BY <1>5, <2>2
  <2>4. CASE Epoch!NoBatch(x)
    <3>1. J[x] = <<>>
      BY <1>4, <2>3, <2>4
    <3>2. <<>> \in Seq(Job) /\ Len(<<>>) = 0 /\ 1 .. 0 = {}
      OBVIOUS
    <3>3. JobsFrom(x, <<>>)
      BY <2>4, <3>2 DEF JobsFrom
    <3>4. QED
      BY <2>3, <3>1, <3>3
  <2>5. CASE ~Epoch!NoBatch(x)
    <3> DEFINE e == Epoch!End(x)
               m == rows - e
    <3>1. e \in 0 .. rows /\ x < e
      BY <2>3, <2>5, EndOfBatch
    <3>2. m \in 0 .. rows /\ ~(d <= m) /\ rows - m = e
      BY <1>5, <2>3, <3>1
    <3>3. m \notin S
      BY <2>2, <3>2
    <3>4. JobsFrom(rows - m, J[rows - m])
      BY <3>2, <3>3
    <3>5. JobsFrom(e, J[e])
      BY <3>2, <3>4
    <3>6. JobsFrom(x, <<[first |-> x, last |-> e - 1]>> \o J[e])
      BY <2>3, <2>5, <3>5, JobsOfRow
    <3>7. J[x] = <<[first |-> x, last |-> e - 1]>> \o J[e]
      BY <1>4, <2>3, <2>5
    <3> HIDE DEF e, x
    <3>8. QED
      BY <2>3, <3>6, <3>7
  <2>6. QED
    BY <2>4, <2>5
<1>7. rows - c \in 0 .. rows /\ rows - (rows - c) = c
  BY <1>5
<1>8. JobsFrom(rows - (rows - c), J[rows - (rows - c)])
  BY <1>6, <1>7
<1>9. QED
  BY <1>7, <1>8 DEF J

LEMMA BoundaryStart ==
    ASSUME Epoch!LoaderAssumption
    PROVE  Boundary(0) /\ Seen(0) = [r \in Epoch!Rows |-> 0]
<1>1. 0 \in 0 .. rows /\ 0 % batch_size = 0
  BY DEF Epoch!LoaderAssumption
<1>2. \A r \in Epoch!Rows : ~(r < 0)
  BY DEF Epoch!Rows
<1>3. Seen(0) = [r \in Epoch!Rows |-> 0]
  BY <1>2 DEF Seen
<1>4. Boundary(0)
  BY <1>1 DEF Boundary
<1>5. QED
  BY <1>3, <1>4, Zenon

LEMMA EpochInvInit ==
    ASSUME Epoch!LoaderAssumption, PrefetchNeverFails, Epoch!Init
    PROVE  EpochInv
<1>1. PICK s \in Setups : loader = s.loader /\ bad = s.bad
  BY DEF Epoch!Init
<1>2. /\ loader \in {"sync", "prefetch"} /\ bad \subseteq Epoch!Rows
      /\ loader = "prefetch" => bad = {}
  BY <1>1 DEF Epoch!LoaderAssumption, PrefetchNeverFails, Epoch!Rows
<1>3. /\ drop_last \in BOOLEAN /\ cursor = 0 /\ consumed_rows = 0
      /\ trained = Seen(0) /\ saved.position = 0 /\ saved.trained = Seen(0)
      /\ loader = "prefetch" => jobs = Epoch!make_jobs[0]
  BY BoundaryStart DEF Epoch!Init
<1>4. JobsFrom(0, Epoch!make_jobs[0])
  <2>1. 0 \in 0 .. rows
    BY DEF Epoch!LoaderAssumption
  <2>2. QED
    BY <2>1, MakeJobs
<1>5. QED
  BY <1>2, <1>3, <1>4, BoundaryStart DEF EpochInv

LEMMA JobsTaken ==
    ASSUME Epoch!LoaderAssumption, NEW c, NEW s, JobsFrom(c, s), s # <<>>
    PROVE  /\ Head(s).first = c /\ Head(s).last = Epoch!End(c) - 1
           /\ ~Epoch!NoBatch(c) /\ JobsFrom(Epoch!End(c), Tail(s))
<1>1. /\ s \in Seq(Job) /\ Len(s) \in Nat /\ Len(s) > 0 /\ s[1].first = c
      /\ \A k \in 1 .. Len(s) :
            /\ s[k].first \in 0 .. rows /\ ~Epoch!NoBatch(s[k].first)
            /\ s[k].last = Epoch!End(s[k].first) - 1
            /\ IF k < Len(s) THEN s[k + 1].first = Epoch!End(s[k].first)
                             ELSE Epoch!NoBatch(Epoch!End(s[k].first))
  BY DEF JobsFrom
<1>2. Head(s) = s[1] /\ 1 \in 1 .. Len(s)
  BY <1>1
<1> DEFINE t == Tail(s)
<1>3. /\ t \in Seq(Job) /\ Len(t) = Len(s) - 1
      /\ \A k \in 1 .. Len(t) : t[k] = s[k + 1]
  BY <1>1, HeadTailProperties
<1> HIDE DEF t
<1>4. ~Epoch!NoBatch(c) /\ s[1].last = Epoch!End(c) - 1
  BY <1>1, <1>2
<1>5. IF t = <<>> THEN Epoch!NoBatch(Epoch!End(c)) ELSE t[1].first = Epoch!End(c)
  <2>1. CASE t = <<>>
    <3>1. Len(t) = 0
      BY <2>1
    <3>2. ~(1 < Len(s))
      <4>1. Len(s) - 1 = 0 /\ Len(s) \in Nat
        BY <1>1, <1>3, <3>1
      <4>2. \A n \in Nat : n - 1 = 0 => ~(1 < n)
        OBVIOUS
      <4>3. QED
        BY <4>1, <4>2, Zenon
    <3>3. QED
      BY <1>1, <1>2, <2>1, <3>2
  <2>2. CASE t # <<>>
    <3>1. Len(t) # 0 /\ Len(t) \in Nat
      BY <1>3, <2>2
    <3>2. 1 < Len(s) /\ 1 \in 1 .. Len(t)
      BY <1>1, <1>3, <3>1
    <3>3. t[1] = s[2]
      BY <1>3, <3>2
    <3>4. s[2].first = Epoch!End(c)
      BY <1>1, <1>2, <3>2
    <3>5. QED
      BY <2>2, <3>3, <3>4
  <2>3. QED
    BY <2>1, <2>2
<1>6. ASSUME NEW k \in 1 .. Len(t)
      PROVE  /\ t[k].first \in 0 .. rows /\ ~Epoch!NoBatch(t[k].first)
             /\ t[k].last = Epoch!End(t[k].first) - 1
             /\ IF k < Len(t) THEN t[k + 1].first = Epoch!End(t[k].first)
                              ELSE Epoch!NoBatch(Epoch!End(t[k].first))
  <2> DEFINE m == k + 1
  <2>1. m \in 1 .. Len(s) /\ t[k] = s[m] /\ (m < Len(s) <=> k < Len(t))
    BY <1>1, <1>3
  <2>2. k < Len(t) => t[k + 1] = s[m + 1]
    <3>1. k < Len(t) => k + 1 \in 1 .. Len(t)
      BY <1>1, <1>3
    <3>2. QED
      BY <1>3, <3>1
  <2> HIDE DEF m
  <2>3. /\ s[m].first \in 0 .. rows /\ ~Epoch!NoBatch(s[m].first)
        /\ s[m].last = Epoch!End(s[m].first) - 1
        /\ IF m < Len(s) THEN s[m + 1].first = Epoch!End(s[m].first)
                         ELSE Epoch!NoBatch(Epoch!End(s[m].first))
    BY <1>1, <2>1
  <2>4. QED
    BY <2>1, <2>2, <2>3
<1>7. JobsFrom(Epoch!End(c), t)
  BY <1>3, <1>5, <1>6 DEF JobsFrom
<1>8. QED
  BY <1>1, <1>2, <1>4, <1>7 DEF t

(* Which rows a batch has, and which of them fail, does not change. *)
LEMMA EpochKept ==
    ASSUME drop_last' = drop_last, bad' = bad
    PROVE  /\ Boundary(saved.position)' <=> Boundary(saved'.position)
           /\ Seen(saved.position)' = Seen(saved'.position)
           /\ Boundary(cursor)' <=> Boundary(cursor')
           /\ Seen(cursor)' = Seen(cursor')
           /\ Boundary(consumed_rows)' <=> Boundary(consumed_rows')
           /\ Seen(consumed_rows)' = Seen(consumed_rows')
           /\ JobsFrom(consumed_rows, jobs)' <=> JobsFrom(consumed_rows', jobs')
BY DEF Boundary, Seen, JobsFrom, Epoch!InFailedBatch, Epoch!Fails, Epoch!NoBatch,
       Epoch!End, Epoch!Rows

LEMMA EpochInvNext ==
    ASSUME Epoch!LoaderAssumption, EpochInv, Epoch!Next \/ UNCHANGED epochVars
    PROVE  EpochInv'
<1>1. drop_last' = drop_last /\ bad' = bad
  BY DEF Epoch!Next, Epoch!NextSync, Epoch!NextPrefetched, Epoch!Save, Epoch!Crash,
         Epoch!Resume, epochVars
<1>2. /\ drop_last \in BOOLEAN /\ bad \subseteq Epoch!Rows
      /\ loader \in {"sync", "prefetch", "down"}
      /\ Boundary(saved.position) /\ saved.trained = Seen(saved.position)
      /\ loader = "sync" => Boundary(cursor) /\ trained = Seen(cursor)
      /\ loader = "down" => trained = saved.trained
      /\ loader = "prefetch" =>
            /\ bad = {} /\ Boundary(consumed_rows) /\ trained = Seen(consumed_rows)
            /\ JobsFrom(consumed_rows, jobs)
  BY DEF EpochInv
<1> SUFFICES
      /\ loader' \in {"sync", "prefetch", "down"}
      /\ Boundary(saved'.position) /\ saved'.trained = Seen(saved'.position)
      /\ loader' = "sync" => Boundary(cursor') /\ trained' = Seen(cursor')
      /\ loader' = "down" => trained' = saved'.trained
      /\ loader' = "prefetch" =>
            /\ bad = {} /\ Boundary(consumed_rows') /\ trained' = Seen(consumed_rows')
            /\ JobsFrom(consumed_rows', jobs')
  <2>1. Epoch!Rows' = Epoch!Rows
    BY DEF Epoch!Rows
  <2>2. QED
    BY <1>1, <1>2, <2>1, EpochKept DEF EpochInv
<1>3. CASE Epoch!NextSync
  <2>1. /\ loader = "sync" /\ loader' = loader /\ saved' = saved
        /\ ~Epoch!NoBatch(cursor) /\ cursor' = Epoch!End(cursor)
        /\ IF Epoch!Fails(cursor, Epoch!End(cursor) - 1)
             THEN UNCHANGED trained ELSE Epoch!Train(cursor, Epoch!End(cursor) - 1)
    BY <1>3 DEF Epoch!NextSync
  <2>2. trained' = Seen(Epoch!End(cursor))
    BY <1>2, <2>1, SeenMoves
  <2>3. Boundary(Epoch!End(cursor))
    BY <1>2, <2>1, BoundaryMoves
  <2>4. QED
    BY <1>2, <2>1, <2>2, <2>3
<1>4. CASE Epoch!NextPrefetched
  <2> DEFINE c == consumed_rows
  <2>1. /\ loader = "prefetch" /\ loader' = loader /\ saved' = saved
        /\ jobs # <<>> /\ jobs' = Tail(jobs)
    BY <1>4 DEF Epoch!NextPrefetched
  <2>2. bad = {} /\ Boundary(c) /\ trained = Seen(c) /\ JobsFrom(c, jobs)
    BY <1>2, <2>1
  <2>3. /\ Head(jobs).first = c /\ Head(jobs).last = Epoch!End(c) - 1
        /\ ~Epoch!NoBatch(c) /\ JobsFrom(Epoch!End(c), Tail(jobs))
    BY <2>1, <2>2, JobsTaken
  <2>4. \A first, last : ~Epoch!Fails(first, last)
    BY <2>2 DEF Epoch!Fails
  <2>5. /\ consumed_rows' = c + (Epoch!End(c) - 1 - c + 1)
        /\ Epoch!Train(c, Epoch!End(c) - 1)
    BY <1>4, <2>3, <2>4 DEF Epoch!NextPrefetched
  <2>6. consumed_rows' = Epoch!End(c)
    <3>1. Epoch!End(c) \in Nat /\ c \in Nat
      BY <2>2, EndOfBatch DEF Boundary
    <3>2. QED
      BY <2>5, <3>1
  <2>7. trained' = Seen(Epoch!End(c))
    BY <2>2, <2>3, <2>4, <2>5, SeenMoves
  <2>8. Boundary(Epoch!End(c))
    BY <1>2, <2>2, <2>3, BoundaryMoves
  <2>9. QED
    BY <1>2, <2>1, <2>2, <2>3, <2>6, <2>7, <2>8
<1>5. CASE Epoch!Save
  <2>1. /\ loader # "down" /\ loader' = loader /\ trained' = trained
        /\ cursor' = cursor /\ consumed_rows' = consumed_rows /\ jobs' = jobs
        /\ saved'.position = IF loader = "sync" THEN cursor ELSE consumed_rows
        /\ saved'.trained = trained
    BY <1>5 DEF Epoch!Save, Epoch!position
  <2>2. QED
    BY <1>2, <2>1
<1>6. CASE Epoch!Crash
  BY <1>2, <1>6 DEF Epoch!Crash
<1>7. CASE Epoch!Resume
  <2>1. saved.position <= rows
    BY <1>2, EndOfBatch DEF Boundary
  <2>2. QED
    BY <1>2, <1>7, <2>1 DEF Epoch!Resume
<1>8. CASE UNCHANGED epochVars
  BY <1>2, <1>8 DEF epochVars
<1>9. QED
  BY <1>3, <1>4, <1>5, <1>6, <1>7, <1>8 DEF Epoch!Next

(* The loader's place: when no job is left, the rows of full batches. *)
LEMMA EpochInvGives ==
    ASSUME Epoch!LoaderAssumption, EpochInv
    PROVE  TrainedExactlyOnce
<1>1. /\ drop_last \in BOOLEAN /\ loader \in {"sync", "prefetch", "down"}
      /\ saved.trained = Seen(saved.position)
      /\ loader = "sync" => trained = Seen(cursor)
      /\ loader = "down" => trained = saved.trained
      /\ loader = "prefetch" =>
            /\ Boundary(consumed_rows) /\ trained = Seen(consumed_rows)
            /\ JobsFrom(consumed_rows, jobs)
  BY DEF EpochInv
<1>2. trained = Seen(Epoch!Place)
  <2>1. CASE loader = "sync"
    BY <1>1, <2>1 DEF Epoch!Place
  <2>2. CASE loader = "down"
    BY <1>1, <2>2 DEF Epoch!Place
  <2>3. CASE loader = "prefetch" /\ jobs # <<>>
    <3>1. Head(jobs).first = consumed_rows
      BY <1>1, <2>3, JobsTaken
    <3>2. QED
      BY <1>1, <2>3, <3>1 DEF Epoch!Place
  <2>4. CASE loader = "prefetch" /\ jobs = <<>>
    <3> DEFINE c == consumed_rows
    <3>1. Epoch!NoBatch(c) /\ Boundary(c)
      BY <1>1, <2>4 DEF JobsFrom
    <3>2. c \in 0 .. rows /\ rows \in Nat /\ batch_size \in Nat \ {0}
      BY <3>1 DEF Boundary, Epoch!LoaderAssumption
    <3>3. Epoch!Place = IF drop_last THEN rows - (rows % batch_size) ELSE rows
      BY <2>4 DEF Epoch!Place
    <3>4. CASE ~drop_last
      <4>1. c = rows
        BY <3>1, <3>2, <3>4 DEF Epoch!NoBatch
      <4>2. QED
        BY <1>1, <2>4, <3>3, <3>4, <4>1
    <3>5. CASE drop_last
      <4>1. c % batch_size = 0 /\ rows < c + batch_size /\ c \in Nat /\ c <= rows
        BY <3>1, <3>2, <3>5 DEF Boundary, Epoch!NoBatch, Epoch!End
      <4>2. rows % batch_size = rows - c
        BY <3>2, <4>1, BatchStart
      <4>3. rows - (rows % batch_size) = c
        BY <3>2, <4>2
      <4>4. QED
        BY <1>1, <2>4, <3>3, <3>5, <4>3
    <3>6. QED
      BY <1>1, <3>4, <3>5
  <2>5. QED
    BY <1>1, <2>1, <2>2, <2>3, <2>4
<1>3. QED
  BY <1>2 DEF Seen, TrainedExactlyOnce, Epoch!TrainedExactlyOnce

(* Saved, crashed and resumed at any point, the model is trained once on each
   row before the loader's place but those of a batch that failed, and on no
   other; for PrefetchLoader, as long as no worker fails (`position`, `seek`
   and both __next__, lib.rs). *)
THEOREM ResumesExactly ==
    ASSUME Epoch!LoaderAssumption, PrefetchNeverFails
    PROVE  Spec => []TrainedExactlyOnce
<1>1. Init => EpochInv
  BY EpochInvInit DEF Init
<1>2. EpochInv /\ [Next]_vars => EpochInv'
  BY Steps, EpochInvNext
<1>3. EpochInv => TrainedExactlyOnce
  BY EpochInvGives
<1>4. QED
  BY <1>1, <1>2, <1>3, PTL DEF Spec

-----------------------------------------------------------------------------
(***************************************************************************)
(* The frame index.  Sorted, the episodes follow one another, so that those *)
(* before the answer of the search start no later than the frame, and those *)
(* behind it start later.                                                   *)
(***************************************************************************)
LEMMA IndexCounts == \A S : Index!Cardinality(S) = Cardinality(S)
BY DEF Index!Cardinality, Cardinality

InOrder ==
    /\ episodes \in Seq(Index!Record) /\ Len(episodes) = Len(records)
    /\ \A a, b \in DOMAIN episodes : a < b => episodes[a].to <= episodes[b].from
    /\ \A a \in DOMAIN episodes : \E j \in DOMAIN records : episodes[a] = records[j]
    /\ \A j \in DOMAIN records : \E a \in DOMAIN episodes : episodes[a] = records[j]

(* Neither before base nor at base + size or behind it. *)
Bisected ==
    /\ size \in Nat /\ base \in Nat \ {0} /\ base + size <= Len(episodes) + 1
    /\ size = 0 => episodes = <<>>
    /\ base # 1 => episodes[base].from <= frame
    /\ \A k \in DOMAIN episodes : k >= base + size => frame < episodes[k].from

(* The split is selected for what was wanted. *)
Selected ==
    subset = [wanted |-> subset.wanted, frames |-> Index!FramesFor(subset.wanted),
              runs |-> Index!RunsFor(subset.wanted)]

IndexInv ==
    /\ Index!WrittenInRow(records)
    /\ phase \in {"load", "ready", "search", "answered", "selected"}
    /\ phase # "load" => InOrder
    /\ phase \in {"search", "answered"} =>
          frame \in Nat /\ deltas \in Seq(Int) /\ Bisected
    /\ phase = "answered" =>
          /\ size <= 1
          /\ answer = IF size = 1 /\ Index!Compare(episodes[base]) = "Equal"
                        THEN Index!Resolved(episodes[base]) ELSE Index!None
    /\ phase = "selected" => Selected

LEMMA RecordTypes ==
    ASSUME Index!WrittenInRow(records)
    PROVE  /\ Len(records) \in Nat /\ DOMAIN records = 1 .. Len(records)
           /\ \A j \in DOMAIN records :
                 /\ records[j] \in Index!Record
                 /\ records[j].from \in Nat /\ records[j].to \in Nat
                 /\ records[j].from <= records[j].to
<1>1. records \in Seq(Index!Record) /\ \A j \in DOMAIN records : records[j].from <= records[j].to
  BY DEF Index!WrittenInRow
<1>2. \A j \in DOMAIN records : records[j] \in Index!Record
  BY <1>1
<1>3. \A j \in DOMAIN records : records[j].from \in Nat /\ records[j].to \in Nat
  BY <1>2 DEF Index!Record
<1>4. QED
  BY <1>1, <1>2, <1>3

LEMMA EpisodeTypes ==
    ASSUME Index!WrittenInRow(records), InOrder
    PROVE  /\ Len(episodes) \in Nat /\ DOMAIN episodes = 1 .. Len(episodes)
           /\ \A a \in DOMAIN episodes :
                 /\ episodes[a].from \in Nat /\ episodes[a].to \in Nat
                 /\ episodes[a].from <= episodes[a].to
           /\ Index!Range(episodes) = Index!Range(records)
           /\ Index!Range(episodes) = {episodes[a] : a \in DOMAIN episodes}
<1>1. /\ episodes \in Seq(Index!Record) /\ Len(episodes) = Len(records)
      /\ \A a \in DOMAIN episodes : \E j \in DOMAIN records : episodes[a] = records[j]
      /\ \A j \in DOMAIN records : \E a \in DOMAIN episodes : episodes[a] = records[j]
  BY DEF InOrder
<1>2. /\ Index!Range(episodes) = {episodes[a] : a \in DOMAIN episodes}
      /\ Index!Range(records) = {records[j] : j \in DOMAIN records}
  BY DEF Index!Range
<1>3. Index!Range(episodes) = Index!Range(records)
  BY <1>1, <1>2
<1>4. QED
  BY <1>1, <1>2, <1>3, RecordTypes

(* sort_by_key puts them in order. *)
LEMMA LoadSorts ==
    ASSUME Index!WrittenInRow(records), Index!Load
    PROVE  InOrder'
<1> DEFINE n == Len(records)
<1>1. /\ n \in Nat /\ DOMAIN records = 1 .. n /\ records' = records
      /\ records \in Seq(Index!Record)
  BY RecordTypes DEF Index!Load, Index!WrittenInRow
<1>2. PICK place \in [1 .. n -> 1 .. n] :
         /\ \A a, b \in 1 .. n : a < b => Index!Before(place[a], place[b])
         /\ episodes' = [k \in 1 .. n |-> records[place[k]]]
  BY <1>1 DEF Index!Load
<1>3. \A j, k \in 1 .. n : Index!Before(j, k) =>
          j # k /\ records[j].to <= records[k].from
  <2>1. ASSUME NEW j \in 1 .. n, NEW k \in 1 .. n, Index!Before(j, k)
        PROVE  j # k /\ records[j].to <= records[k].from
    <3>1. /\ records[j].from \in Nat /\ records[j].to \in Nat
          /\ records[k].from \in Nat /\ records[k].to \in Nat
          /\ records[j].from <= records[j].to /\ records[k].from <= records[k].to
          /\ j \in Nat /\ k \in Nat
      BY <1>1, RecordTypes
    <3>2. /\ j # k => \/ records[j].to <= records[k].from
                      \/ records[k].to <= records[j].from
          /\ j < k /\ records[j].from = records[k].from => records[j].to = records[j].from
      BY <1>1 DEF Index!WrittenInRow
    <3>3. j # k
      BY <2>1, <3>1 DEF Index!Before
    <3>4. CASE records[j].from < records[k].from
      BY <3>1, <3>2, <3>3, <3>4
    <3>5. CASE records[j].from = records[k].from /\ j < k
      BY <3>1, <3>2, <3>5
    <3>6. QED
      BY <2>1, <3>3, <3>4, <3>5 DEF Index!Before
  <2>2. QED
    BY <2>1
<1>4. \A a, b \in 1 .. n : a # b => place[a] # place[b]
  <2>1. ASSUME NEW a \in 1 .. n, NEW b \in 1 .. n, a # b PROVE place[a] # place[b]
    <3>1. a < b \/ b < a
      BY <1>1, <2>1
    <3>2. place[a] \in 1 .. n /\ place[b] \in 1 .. n
      BY <1>2
    <3>3. CASE a < b
      BY <1>2, <1>3, <3>2, <3>3
    <3>4. CASE b < a
      BY <1>2, <1>3, <3>2, <3>4
    <3>5. QED
      BY <3>1, <3>3, <3>4
  <2>2. QED
    BY <2>1
<1>5. place \in Surjection(1 .. n, 1 .. n)
  <2>1. place \in Injection(1 .. n, 1 .. n)
    BY <1>2, <1>4 DEF Injection, IsInjective
  <2>2. IsFiniteSet(1 .. n)
    BY <1>1, FS_Interval
  <2>3. QED
    BY <2>1, <2>2, FS_Injection
<1>6. \A j \in 1 .. n : \E k \in 1 .. n : place[k] = j
  BY <1>5 DEF Surjection
<1>7. episodes' \in Seq(Index!Record) /\ Len(episodes') = n /\ DOMAIN episodes' = 1 .. n
  <2>1. \A k \in 1 .. n : records[place[k]] \in Index!Record
    BY <1>1, <1>2
  <2>2. episodes' \in [1 .. n -> Index!Record]
    BY <1>2, <2>1
  <2>3. QED
    BY <1>1, <2>2
<1> HIDE DEF n
<1>8. \A k \in 1 .. n : episodes'[k] = records[place[k]] /\ place[k] \in 1 .. n
  BY <1>2
<1>9. \A a, b \in 1 .. n : a < b => episodes'[a].to <= episodes'[b].from
  BY <1>2, <1>3, <1>8
<1>10. ASSUME NEW j \in 1 .. n PROVE \E a \in 1 .. n : episodes'[a] = records[j]
  <2>1. PICK a \in 1 .. n : place[a] = j
    BY <1>6
  <2>2. episodes'[a] = records[j]
    BY <1>8, <2>1
  <2>3. QED
    BY <2>2
<1>11. QED
  BY <1>1, <1>7, <1>8, <1>9, <1>10 DEF InOrder, n

LEMMA ProbeBisects ==
    ASSUME Index!WrittenInRow(records), InOrder, frame \in Nat, Bisected, Index!Probe
    PROVE  Bisected'
<1> DEFINE half == size \div 2
           n == Len(episodes)
<1>1. /\ size > 1 /\ size' = size - half
      /\ base' = IF Index!Compare(episodes[base + half]) = "Greater" THEN base ELSE base + half
      /\ UNCHANGED <<episodes, frame>>
  BY DEF Index!Probe
<1>2. /\ size \in Nat /\ base \in Nat \ {0} /\ base + size <= n + 1
      /\ base # 1 => episodes[base].from <= frame
      /\ \A k \in 1 .. n : k >= base + size => frame < episodes[k].from
      /\ n \in Nat /\ DOMAIN episodes = 1 .. n
  BY EpisodeTypes DEF Bisected
<1>3. half \in Nat /\ half >= 1 /\ half < size
  BY <1>1, <1>2
<1> HIDE DEF half, n
<1> DEFINE mid == base + half
<1>4. mid \in 1 .. n /\ mid \in Nat
  BY <1>2, <1>3
<1>5. /\ \A a \in 1 .. n : episodes[a].from \in Nat /\ episodes[a].to \in Nat
                           /\ episodes[a].from <= episodes[a].to
      /\ \A a, b \in 1 .. n : a < b => episodes[a].to <= episodes[b].from
  BY <1>2, EpisodeTypes DEF InOrder
<1>6. Index!Compare(episodes[mid]) = "Greater" <=> frame < episodes[mid].from
  BY DEF Index!Compare
<1> HIDE DEF mid
<1>7. /\ size' \in Nat /\ size' # 0 /\ base' \in Nat \ {0}
      /\ base' + size' <= n + 1
  BY <1>1, <1>2, <1>3 DEF mid
<1>8. CASE frame < episodes[mid].from
  <2>1. base' = base /\ base' + size' >= mid
    <3>1. base' = base
      BY <1>1, <1>6, <1>8 DEF mid
    <3>2. size - half >= half
      BY <1>2 DEF half
    <3>3. QED
      BY <1>1, <1>2, <1>3, <3>1, <3>2 DEF mid
  <2>2. ASSUME NEW k \in 1 .. n, k >= base' + size' PROVE frame < episodes[k].from
    <3>1. k >= mid /\ k \in Nat
      <4>1. base' + size' = base + (size - half)
        BY <1>1, <2>1
      <4>2. k >= base + (size - half)
        BY <2>2, <4>1
      <4>3. base + (size - half) >= mid
        BY <2>1, <4>1
      <4>4. k \in Nat /\ base \in Nat /\ size - half \in Nat
        BY <1>2, <1>3
      <4>5. QED
        BY <1>4, <4>2, <4>3, <4>4
    <3>2. CASE k = mid
      BY <1>8, <3>2
    <3>3. CASE k # mid
      <4>1. mid < k
        BY <1>4, <3>1, <3>3
      <4>2. episodes[mid].to <= episodes[k].from /\ episodes[mid].from <= episodes[mid].to
        BY <1>4, <1>5, <4>1
      <4>3. /\ episodes[mid].from \in Nat /\ episodes[mid].to \in Nat
            /\ episodes[k].from \in Nat
        BY <1>4, <1>5
      <4>4. QED
        BY <1>8, <4>2, <4>3
    <3>4. QED
      BY <3>2, <3>3
  <2>3. base' # 1 => episodes[base'].from <= frame
    BY <1>2, <2>1
  <2>4. n' = n /\ episodes' = episodes /\ frame' = frame
    BY <1>1 DEF n
  <2>5. QED
    BY <1>2, <1>7, <2>2, <2>3, <2>4 DEF Bisected, n
<1>9. CASE ~(frame < episodes[mid].from)
  <2>1. base' = mid
    BY <1>1, <1>6, <1>9 DEF mid
  <2>2. episodes[base'].from <= frame
    BY <1>4, <1>5, <1>9, <2>1
  <2>3. base' + size' = base + size
    BY <1>1, <1>2, <1>3, <2>1 DEF mid
  <2>4. n' = n /\ episodes' = episodes /\ frame' = frame
    BY <1>1 DEF n
  <2>5. QED
    BY <1>2, <1>7, <2>2, <2>3, <2>4 DEF Bisected, n
<1>10. QED
  BY <1>8, <1>9

(* The population depends on the index alone. *)
LEMMA SelectionKept ==
    ASSUME episodes' = episodes
    PROVE  \A wanted : /\ (Index!FramesFor(wanted))' = Index!FramesFor(wanted)
                       /\ (Index!RunsFor(wanted))' = Index!RunsFor(wanted)
BY DEF Index!FramesFor, Index!Gathered, Index!RunsFor, Index!Frames

LEMMA IndexInvNext ==
    ASSUME Index!IndexAssumption, IndexInv, Index!Next \/ UNCHANGED indexVars
    PROVE  IndexInv'
<1>1. /\ Index!WrittenInRow(records)
      /\ phase \in {"load", "ready", "search", "answered", "selected"}
      /\ phase # "load" => InOrder
      /\ phase \in {"search", "answered"} => frame \in Nat /\ deltas \in Seq(Int) /\ Bisected
      /\ phase = "answered" =>
            /\ size <= 1
            /\ answer = IF size = 1 /\ Index!Compare(episodes[base]) = "Equal"
                          THEN Index!Resolved(episodes[base]) ELSE Index!None
      /\ phase = "selected" => Selected
  BY DEF IndexInv
<1>2. records' = records /\ Index!WrittenInRow(records')
  BY <1>1 DEF Index!Next, Index!Load, Index!Ask, Index!Probe, Index!Answer, Index!Again,
              Index!Select, indexVars
<1>3. episodes' = episodes => (InOrder => InOrder')
  BY <1>2 DEF InOrder
<1>4. CASE Index!Load
  BY <1>1, <1>2, <1>4, LoadSorts DEF IndexInv, Index!Load
<1>5. CASE Index!Ask
  <2>1. /\ phase = "ready" /\ phase' = "search" /\ episodes' = episodes
        /\ base' = 1 /\ size' = Len(episodes)
    BY <1>5 DEF Index!Ask
  <2>2. InOrder /\ Len(episodes) \in Nat /\ DOMAIN episodes = 1 .. Len(episodes)
        /\ episodes \in Seq(Index!Record)
    BY <1>1, <2>1, EpisodeTypes DEF InOrder
  <2>3. frame' \in Nat
    <3>1. PICK g \in 0 .. Index!total_frames : frame' = g
      BY <1>5 DEF Index!Ask
    <3>2. Index!total_frames \in Nat
      <4>1. episodes # <<>> => Len(episodes) \in DOMAIN episodes
        BY <2>2
      <4>2. episodes # <<>> => episodes[Len(episodes)].to \in Nat
        BY <1>1, <2>2, <4>1, EpisodeTypes
      <4>3. QED
        BY <4>2 DEF Index!total_frames
    <3>3. QED
      BY <3>1, <3>2
  <2>4. deltas' \in Seq(Int)
    BY <1>5 DEF Index!Ask, Index!IndexAssumption
  <2>5. Bisected'
    <3>1. \A k \in DOMAIN episodes : ~(k >= 1 + Len(episodes))
      BY <2>2
    <3>2. Len(episodes) = 0 => episodes = <<>>
      BY <2>2
    <3>3. QED
      BY <2>1, <2>2, <3>1, <3>2 DEF Bisected
  <2>6. QED
    BY <1>2, <1>3, <2>1, <2>2, <2>3, <2>4, <2>5 DEF IndexInv
<1>6. CASE Index!Probe
  <2>1. phase = "search" /\ phase' = phase /\ UNCHANGED <<episodes, frame, deltas>>
    BY <1>6 DEF Index!Probe
  <2>2. Bisected'
    BY <1>1, <1>6, <2>1, ProbeBisects
  <2>3. QED
    BY <1>1, <1>2, <1>3, <2>1, <2>2 DEF IndexInv
<1>7. CASE Index!Answer
  <2>1. /\ phase = "search" /\ phase' = "answered" /\ size <= 1
        /\ UNCHANGED <<episodes, frame, deltas, base, size>>
        /\ answer' = IF size = 1 /\ Index!Compare(episodes[base]) = "Equal"
                       THEN Index!Resolved(episodes[base]) ELSE Index!None
    BY <1>7 DEF Index!Answer
  <2>2. Bisected'
    BY <1>1, <2>1 DEF Bisected
  <2>3. answer' = IF size' = 1 /\ Index!Compare(episodes[base])' = "Equal"
                    THEN Index!Resolved(episodes[base])' ELSE Index!None'
    BY <2>1 DEF Index!Compare, Index!Resolved, Index!None, Index!shard_start, Index!Offsets,
                Index!Range
  <2>4. QED
    BY <1>1, <1>2, <1>3, <2>1, <2>2, <2>3 DEF IndexInv
<1>8. CASE Index!Again
  BY <1>1, <1>2, <1>3, <1>8 DEF IndexInv, Index!Again
<1>9. CASE Index!Select
  <2>1. phase = "ready" /\ phase' = "selected" /\ episodes' = episodes
    BY <1>9 DEF Index!Select
  <2>2. PICK wanted : subset' = [wanted |-> wanted, frames |-> Index!FramesFor(wanted),
                                 runs |-> Index!RunsFor(wanted)]
    BY <1>9 DEF Index!Select
  <2>3. subset'.wanted = wanted
    BY <2>2
  <2>4. Selected'
    BY <2>1, <2>2, <2>3, SelectionKept DEF Selected
  <2>5. QED
    BY <1>1, <1>2, <1>3, <2>1, <2>4 DEF IndexInv
<1>10. CASE UNCHANGED indexVars
  <2>1. UNCHANGED <<records, episodes, phase, frame, deltas, base, size, answer>>
    BY <1>10 DEF indexVars
  <2>2. (Bisected => Bisected')
    BY <2>1 DEF Bisected
  <2>3. /\ Index!Compare(episodes[base])' = Index!Compare(episodes[base])
        /\ Index!Resolved(episodes[base])' = Index!Resolved(episodes[base])
        /\ Index!None' = Index!None
    BY <2>1 DEF Index!Compare, Index!Resolved, Index!None, Index!shard_start, Index!Offsets,
                Index!Range
  <2>4. subset' = subset /\ (Selected => Selected')
    <3>1. subset' = subset
      BY <1>10 DEF indexVars
    <3>2. QED
      BY <2>1, <3>1, SelectionKept DEF Selected
  <2>5. QED
    BY <1>1, <1>2, <1>3, <2>1, <2>2, <2>3, <2>4 DEF IndexInv
<1>11. QED
  BY <1>4, <1>5, <1>6, <1>7, <1>8, <1>9, <1>10 DEF Index!Next

(* The search ends at the one episode that may have the frame. *)
LEMMA SearchFinds ==
    ASSUME Index!WrittenInRow(records), InOrder, frame \in Nat, Bisected, size <= 1
    PROVE  IF size = 1 /\ Index!Compare(episodes[base]) = "Equal"
           THEN episodes[base] \in Index!Written(frame)
           ELSE Index!Written(frame) = {}
<1> DEFINE n == Len(episodes)
<1>1. /\ n \in Nat /\ DOMAIN episodes = 1 .. n
      /\ \A a \in 1 .. n : episodes[a].from \in Nat /\ episodes[a].to \in Nat
                           /\ episodes[a].from <= episodes[a].to
      /\ \A a, b \in 1 .. n : a < b => episodes[a].to <= episodes[b].from
      /\ Index!Range(records) = {episodes[a] : a \in 1 .. n}
  BY EpisodeTypes DEF InOrder
<1>2. /\ size \in Nat /\ base \in Nat \ {0} /\ base + size <= n + 1
      /\ size = 0 => episodes = <<>>
      /\ base # 1 => episodes[base].from <= frame
      /\ \A k \in 1 .. n : k >= base + size => frame < episodes[k].from
  BY <1>1 DEF Bisected
<1>3. size = 0 => n = 0
  BY <1>2
<1> HIDE DEF n
<1>4. \A a \in 1 .. n : Index!Compare(episodes[a]) = "Equal" <=>
          episodes[a].from <= frame /\ frame < episodes[a].to
  BY <1>1 DEF Index!Compare
<1>5. Index!Written(frame) =
          {e \in Index!Range(records) : e.from <= frame /\ frame < e.to}
  BY DEF Index!Written
<1>6. CASE size = 1 /\ Index!Compare(episodes[base]) = "Equal"
  <2>1. base \in 1 .. n
    BY <1>1, <1>2, <1>6
  <2>2. QED
    BY <1>1, <1>4, <1>5, <1>6, <2>1
<1>7. ASSUME ~(size = 1 /\ Index!Compare(episodes[base]) = "Equal"),
             NEW m \in 1 .. n, episodes[m].from <= frame, frame < episodes[m].to
      PROVE  FALSE
  <2>1. size = 1
    <3>1. size # 0
      BY <1>3, <1>7
    <3>2. QED
      BY <1>2, <3>1
  <2>2. base \in 1 .. n /\ base \in Nat /\ m \in Nat
    BY <1>1, <1>2, <2>1
  <2>3. episodes[m].from \in Nat /\ episodes[m].to \in Nat
    BY <1>1
  <2>4. m <= base
    <3>1. ~(m >= base + 1)
      BY <1>2, <1>7, <2>1, <2>3
    <3>2. QED
      BY <2>2, <3>1
  <2>5. m # base
    BY <1>4, <1>7, <2>1
  <2>6. m < base /\ base # 1
    BY <1>1, <2>2, <2>4, <2>5
  <2>7. episodes[m].to <= episodes[base].from /\ episodes[base].from <= frame
    BY <1>1, <1>2, <2>2, <2>6
  <2>8. episodes[base].from \in Nat
    BY <1>1, <2>2
  <2>9. QED
    BY <1>7, <2>3, <2>7, <2>8
<1>8. QED
  BY <1>1, <1>5, <1>6, <1>7

LEMMA RecordsRange ==
    ASSUME Index!WrittenInRow(records)
    PROVE  /\ Index!Range(records) = {records[j] : j \in DOMAIN records}
           /\ \A e \in Index!Range(records) :
                 e.from \in Nat /\ e.to \in Nat /\ e.from <= e.to
<1>1. Index!Range(records) = {records[j] : j \in DOMAIN records}
  BY DEF Index!Range
<1>2. QED
  BY <1>1, RecordTypes

LEMMA ShardStart ==
    ASSUME Index!WrittenInRow(records), InOrder, NEW e \in Index!Range(records)
    PROVE  /\ Index!shard_start(e.shard) \in Nat
           /\ \E x \in Index!Range(records) :
                 x.shard = e.shard /\ x.from = Index!shard_start(e.shard)
           /\ \A x \in Index!Range(records) :
                 x.shard = e.shard => Index!shard_start(e.shard) <= x.from
<1> DEFINE S == {x.from : x \in {y \in Index!Range(records) : y.shard = e.shard}}
<1>1. S \in SUBSET Nat /\ e.from \in S
  BY RecordsRange
<1>2. \E s \in S : \A t \in S : s <= t
  <2> HIDE DEF S
  <2> QED BY <1>1, LeastElement
<1>3. Index!shard_start(e.shard) = CHOOSE s \in S : \A t \in S : s <= t
  BY EpisodeTypes DEF Index!shard_start
<1>4. Index!shard_start(e.shard) \in S /\ \A t \in S : Index!shard_start(e.shard) <= t
  <2> HIDE DEF S
  <2> QED BY <1>2, <1>3
<1>5. QED
  BY <1>1, <1>4

(* Without a gap, the row in the shard is the distance from its start. *)
LEMMA RowOfFrame ==
    ASSUME Index!WrittenInRow(records), InOrder, NEW e \in Index!Range(records),
           NEW g \in Nat, e.from <= g, g < e.to
    PROVE  Index!WrittenRow(e, g) = g - Index!shard_start(e.shard)
<1> DEFINE s == Index!shard_start(e.shard)
           D == {h \in Index!ShardFrames(e.shard) : h < g}
<1>1. /\ s \in Nat
      /\ \A x \in Index!Range(records) : x.shard = e.shard => s <= x.from
  BY ShardStart
<1>2. PICK x0 \in Index!Range(records) : x0.shard = e.shard /\ x0.from = s
  BY ShardStart
<1>3. e.from \in Nat /\ e.to \in Nat /\ s <= e.from
  BY <1>1, RecordsRange
<1>4. Index!ShardFrames(e.shard) =
          UNION {x.from .. x.to - 1 : x \in {y \in Index!Range(records) : y.shard = e.shard}}
  BY DEF Index!ShardFrames
<1> HIDE DEF s
<1>5. ASSUME NEW h \in D PROVE h \in s .. g - 1
  <2>1. PICK x \in Index!Range(records) : x.shard = e.shard /\ h \in x.from .. x.to - 1
    BY <1>4
  <2>2. s <= x.from /\ x.from \in Nat /\ x.to \in Nat
    BY <1>1, <2>1, RecordsRange
  <2>3. h < g /\ h \in Int
    BY <2>1, <2>2
  <2>4. QED
    BY <1>1, <2>1, <2>2, <2>3
<1>6. ASSUME NEW h \in s .. g - 1 PROVE h \in D
  <2>1. h \in s .. e.to - 1 /\ h \in Nat /\ h < g
    BY <1>1, <1>3
  <2>2. PICK j \in DOMAIN records, k \in DOMAIN records : x0 = records[j] /\ e = records[k]
    BY RecordsRange
  <2>3. PICK m \in DOMAIN records :
            records[m].shard = e.shard /\ records[m].from <= h /\ h < records[m].to
    <3>1. \A f \in records[j].from .. records[k].to - 1 :
              \E m \in DOMAIN records :
                  records[m].shard = records[k].shard /\ records[m].from <= f /\ f < records[m].to
      BY <1>2, <2>2 DEF Index!WrittenInRow
    <3>2. h \in records[j].from .. records[k].to - 1
      BY <1>2, <2>1, <2>2
    <3>3. QED
      BY <2>2, <3>1, <3>2
  <2>4. records[m] \in Index!Range(records) /\ records[m].from \in Nat /\ records[m].to \in Nat
    BY RecordsRange
  <2>5. h \in records[m].from .. records[m].to - 1
    BY <2>1, <2>3, <2>4
  <2>6. QED
    BY <1>4, <2>1, <2>3, <2>4, <2>5
<1>7. D = s .. g - 1
  BY <1>5, <1>6
<1>8. Index!WrittenRow(e, g) = Cardinality(D)
  BY IndexCounts DEF Index!WrittenRow
<1> HIDE DEF D
<1>9. Cardinality(s .. g - 1) = IF s > g - 1 THEN 0 ELSE (g - 1) - s + 1
  <2>1. s \in Int /\ g - 1 \in Int
    BY <1>1
  <2>2. QED
    BY <2>1, FS_Interval
<1>10. Cardinality(s .. g - 1) = g - s
  <2>1. s <= g
    BY <1>1, <1>3
  <2>2. CASE s > g - 1
    BY <1>1, <1>9, <2>1, <2>2
  <2>3. CASE ~(s > g - 1)
    BY <1>1, <1>9, <2>1, <2>3
  <2>4. QED
    BY <2>2, <2>3
<1>11. QED
  BY <1>7, <1>8, <1>10 DEF s

LEMMA IndexInvGivesFrame ==
    ASSUME IndexInv
    PROVE  FrameFound
<1>1. SUFFICES ASSUME phase = "answered"
               PROVE  IF Index!Written(frame) = {} THEN ~answer.found
                      ELSE /\ answer.found
                           /\ \E e \in Index!Written(frame) :
                                 /\ answer.episode = e.episode_index
                                 /\ answer.row = Index!WrittenRow(e, frame)
                                 /\ answer.goal = e.to - 1
  BY DEF FrameFound, Index!FrameFound
<1> DEFINE e == episodes[base]
<1>2. /\ Index!WrittenInRow(records) /\ InOrder /\ frame \in Nat /\ Bisected /\ size <= 1
      /\ answer = IF size = 1 /\ Index!Compare(e) = "Equal" THEN Index!Resolved(e)
                                                            ELSE Index!None
  BY <1>1 DEF IndexInv
<1>3. CASE size = 1 /\ Index!Compare(e) = "Equal"
  <2>1. e \in Index!Written(frame)
    BY <1>2, <1>3, SearchFinds
  <2>2. e \in Index!Range(records) /\ e.from <= frame /\ frame < e.to
    BY <2>1 DEF Index!Written
  <2>3. e.from \in Nat /\ e.to \in Nat
    BY <1>2, <2>2, RecordsRange
  <2>4. answer = Index!Resolved(e)
    BY <1>2, <1>3
  <2>5. /\ answer.found = TRUE /\ answer.episode = e.episode_index
        /\ answer.row = frame - Index!shard_start(e.shard)
        /\ answer.goal = frame - (frame - e.from) + (e.to - e.from) - 1
    <3> HIDE DEF e
    <3> QED BY <2>4 DEF Index!Resolved
  <2>6. answer.row = Index!WrittenRow(e, frame)
    BY <1>2, <2>2, <2>5, RowOfFrame
  <2>7. answer.goal = e.to - 1
    <3> HIDE DEF e
    <3> QED BY <1>2, <2>3, <2>5
  <2>8. QED
    BY <2>1, <2>5, <2>6, <2>7
<1>4. CASE ~(size = 1 /\ Index!Compare(e) = "Equal")
  <2>1. Index!Written(frame) = {}
    BY <1>2, <1>4, SearchFinds
  <2>2. ~answer.found
    BY <1>2, <1>4 DEF Index!None
  <2>3. QED
    BY <2>1, <2>2
<1>5. QED
  BY <1>3, <1>4

(***************************************************************************)
(* Windows: rounding finds the nearest frame, and clamping the nearest one  *)
(* of the episode.                                                          *)
(***************************************************************************)
LEMMA TimesGrows ==
    ASSUME NEW T \in Nat \ {0}, NEW a \in Int, NEW b \in Int, a < b
    PROVE  T * a \in Int /\ T * b \in Int /\ T * a + T <= T * b
<1> DEFINE d == b - (a + 1)
<1>1. d \in Nat /\ b = (a + 1) + d
  OBVIOUS
<1> HIDE DEF d
<1>2. T * b = T * (a + 1) + T * d
  BY <1>1
<1>3. T * (a + 1) = T * a + T /\ T * d \in Nat /\ T * a \in Int /\ T * b \in Int
  BY <1>1
<1>4. QED
  BY <1>2, <1>3

LEMMA HalvesUp ==
    ASSUME NEW T \in Nat \ {0}, NEW t \in Nat
    PROVE  LET q == (2 * t + T) \div (2 * T)
           IN  q \in Nat /\ T * q \in Nat /\ 2 * (T * q - t) <= T /\ 2 * (t - T * q) <= T
<1> DEFINE m == 2 * T
           x == 2 * t + T
           q == x \div m
           k == x % m
<1>1. m \in Nat \ {0} /\ x \in Nat
  OBVIOUS
<1>2. q \in Nat /\ k \in Nat /\ k < m /\ x = m * q + k
  <2> HIDE DEF m, x
  <2> QED BY <1>1
<1> HIDE DEF q, k
<1>3. T * q \in Nat /\ m * q = 2 * (T * q)
  BY <1>2
<1> DEFINE z == T * q
<1>4. z \in Nat /\ m * q = 2 * z
  BY <1>3
<1> HIDE DEF z
<1>5. 2 * t + T = 2 * z + k /\ k < 2 * T
  BY <1>2, <1>4
<1>6. 2 * (z - t) <= T /\ 2 * (t - z) <= T
  BY <1>2, <1>4, <1>5
<1>7. QED
  BY <1>2, <1>3, <1>6 DEF z, q

LEMMA RoundsNear ==
    ASSUME Index!IndexAssumption, NEW t \in Int
    PROVE  /\ Index!RoundFrames(t) \in Int /\ Ticks * Index!RoundFrames(t) \in Int
           /\ 2 * (Ticks * Index!RoundFrames(t) - t) <= Ticks
           /\ 2 * (t - Ticks * Index!RoundFrames(t)) <= Ticks
           /\ IF t >= 0 THEN Index!RoundFrames(t) >= 0 ELSE Index!RoundFrames(t) <= 0
<1>1. Ticks \in Nat \ {0}
  BY DEF Index!IndexAssumption
<1>2. CASE t >= 0
  <2> DEFINE q == (2 * t + Ticks) \div (2 * Ticks)
  <2>1. q \in Nat /\ Ticks * q \in Nat /\ 2 * (Ticks * q - t) <= Ticks /\ 2 * (t - Ticks * q) <= Ticks
    BY <1>1, <1>2, HalvesUp
  <2>2. Index!RoundFrames(t) = q
    BY <1>2 DEF Index!RoundFrames
  <2> HIDE DEF q
  <2>3. QED
    BY <1>2, <2>1, <2>2
<1>3. CASE ~(t >= 0)
  <2> DEFINE u == -t
             q == (2 * u + Ticks) \div (2 * Ticks)
  <2>1. u \in Nat
    BY <1>3
  <2>2. q \in Nat /\ Ticks * q \in Nat /\ 2 * (Ticks * q - u) <= Ticks /\ 2 * (u - Ticks * q) <= Ticks
    <3> HIDE DEF u
    <3> QED BY <1>1, <2>1, HalvesUp
  <2>3. Index!RoundFrames(t) = -q
    BY <1>3 DEF Index!RoundFrames
  <2> HIDE DEF q
  <2>4. Ticks * (-q) = -(Ticks * q)
    BY <1>1, <2>2
  <2> DEFINE z == Ticks * q
  <2>5. z \in Nat /\ 2 * (z + t) <= Ticks /\ 2 * (-t - z) <= Ticks
    BY <2>2
  <2> HIDE DEF z
  <2>6. 2 * ((-z) - t) <= Ticks /\ 2 * (t - (-z)) <= Ticks /\ -z \in Int
    BY <1>1, <2>5
  <2>7. Ticks * Index!RoundFrames(t) = -z
    BY <2>3, <2>4 DEF z
  <2>8. -q \in Int /\ -q <= 0
    BY <2>2
  <2>9. QED
    BY <1>3, <2>3, <2>6, <2>7, <2>8
<1>4. QED
  BY <1>2, <1>3

LEMMA NearestKept ==
    ASSUME Index!IndexAssumption, NEW t \in Int, NEW len \in Nat \ {0}
    PROVE  LET g == Index!Clamp(Index!RoundFrames(t), len)
           IN  /\ g \in 0 .. len - 1
               /\ \A h \in 0 .. len - 1 :
                     Index!Abs(Ticks * g - t) <= Index!Abs(Ticks * h - t)
               /\ ~Index!Misaligned(t) /\ t \in 0 .. Ticks * (len - 1) =>
                     Index!Abs(Ticks * g - t) <= Tolerance
<1> DEFINE r == Index!RoundFrames(t)
           g == Index!Clamp(r, len)
<1>1. /\ Ticks \in Nat \ {0} /\ Tolerance \in Nat
      /\ r \in Int /\ Ticks * r \in Int
      /\ 2 * (Ticks * r - t) <= Ticks /\ 2 * (t - Ticks * r) <= Ticks
      /\ IF t >= 0 THEN r >= 0 ELSE r <= 0
  BY RoundsNear DEF Index!IndexAssumption
<1>2. g = IF r < 0 THEN 0 ELSE IF r > len - 1 THEN len - 1 ELSE r
  BY DEF Index!Clamp
<1>3. ~Index!Misaligned(t) => Index!Abs(t - Ticks * r) <= Tolerance
  BY <1>1 DEF Index!Misaligned, Index!Abs
<1> HIDE DEF r, g
<1>4. g \in 0 .. len - 1
  BY <1>1, <1>2
<1>5. \A h \in 0 .. len - 1 : h \in Int /\ Ticks * h \in Int /\ Ticks * h >= 0
  BY <1>1
<1>6. CASE r < 0
  <2>1. t < 0 /\ g = 0
    BY <1>1, <1>2, <1>6
  <2>2. Ticks * g = 0
    BY <1>1, <2>1
  <2>3. ASSUME NEW h \in 0 .. len - 1
        PROVE  Index!Abs(Ticks * g - t) <= Index!Abs(Ticks * h - t)
    <3> DEFINE z == Ticks * h
    <3>1. z \in Int /\ z >= 0
      BY <1>5
    <3> HIDE DEF z
    <3>2. Index!Abs(0 - t) <= Index!Abs(z - t)
      BY <2>1, <3>1 DEF Index!Abs
    <3>3. QED
      BY <2>2, <3>2 DEF z
  <2>4. t \notin 0 .. Ticks * (len - 1)
    BY <2>1
  <2>5. QED
    BY <1>4, <2>3, <2>4 DEF g, r
<1>7. CASE r > len - 1
  <2> DEFINE y == Ticks * (len - 1)
             x == Ticks * r
  <2>1. y \in Int /\ x \in Int /\ y + Ticks <= x
    BY <1>1, <1>7, TimesGrows
  <2>2. g = len - 1
    BY <1>1, <1>2, <1>7
  <2>3. Ticks * g = y
    BY <2>2
  <2>4. 2 * (x - t) <= Ticks
    BY <1>1
  <2>5. \A h \in 0 .. len - 1 : Ticks * h <= y
    <3>1. ASSUME NEW h \in 0 .. len - 1 PROVE Ticks * h <= y
      <4>1. CASE h = len - 1
        BY <2>1, <4>1
      <4>2. CASE h # len - 1
        <5>1. h < len - 1 /\ h \in Int /\ len - 1 \in Int
          BY <4>2
        <5>2. Ticks * h \in Int /\ Ticks * h + Ticks <= y
          BY <1>1, <5>1, TimesGrows
        <5> DEFINE z == Ticks * h
        <5> HIDE DEF z, y
        <5>3. z \in Int /\ z + Ticks <= y
          BY <5>2 DEF z
        <5>4. z <= y
          BY <1>1, <2>1, <5>3
        <5>5. QED
          BY <5>4 DEF z, y
      <4>3. QED
        BY <4>1, <4>2
    <3>2. QED
      BY <3>1
  <2> HIDE DEF y, x
  <2>6. t > y
    BY <1>1, <2>1, <2>4
  <2>7. ASSUME NEW h \in 0 .. len - 1
        PROVE  Index!Abs(Ticks * g - t) <= Index!Abs(Ticks * h - t)
    <3> DEFINE z == Ticks * h
    <3>1. z \in Int /\ z <= y
      BY <1>5, <2>5
    <3> HIDE DEF z
    <3>2. Index!Abs(y - t) <= Index!Abs(z - t)
      BY <2>1, <2>6, <3>1 DEF Index!Abs
    <3>3. QED
      BY <2>3, <3>2 DEF z
  <2>8. t \notin 0 .. y
    BY <2>1, <2>6
  <2>9. t \notin 0 .. Ticks * (len - 1)
    BY <2>8 DEF y
  <2>10. QED
    BY <1>4, <2>7, <2>9 DEF g, r
<1>8. CASE ~(r < 0) /\ ~(r > len - 1)
  <2> DEFINE x == Ticks * r
  <2>1. g = r /\ Ticks * g = x
    BY <1>2, <1>8
  <2>2. x \in Int /\ 2 * (x - t) <= Ticks /\ 2 * (t - x) <= Ticks
    BY <1>1
  <2>3. ASSUME NEW h \in 0 .. len - 1
        PROVE  Index!Abs(Ticks * g - t) <= Index!Abs(Ticks * h - t)
    <3> DEFINE z == Ticks * h
    <3>1. z \in Int /\ h \in Int
      BY <1>5
    <3>2. CASE h = r
      <4>1. Ticks * h = x
        BY <3>2
      <4>2. Index!Abs(x - t) <= Index!Abs(x - t)
        BY <2>2 DEF Index!Abs
      <4>3. QED
        BY <2>1, <4>1, <4>2
    <3>3. CASE h < r
      <4>1. z + Ticks <= x
        BY <1>1, <3>1, <3>3, TimesGrows
      <4> HIDE DEF z, x
      <4>2. Index!Abs(x - t) <= Index!Abs(z - t)
        BY <1>1, <2>2, <3>1, <4>1 DEF Index!Abs
      <4>3. QED
        BY <2>1, <4>2 DEF z
    <3>4. CASE h > r
      <4>1. x + Ticks <= z
        BY <1>1, <3>1, <3>4, TimesGrows
      <4> HIDE DEF z, x
      <4>2. Index!Abs(x - t) <= Index!Abs(z - t)
        BY <1>1, <2>2, <3>1, <4>1 DEF Index!Abs
      <4>3. QED
        BY <2>1, <4>2 DEF z
    <3>5. QED
      BY <1>1, <3>1, <3>2, <3>3, <3>4
  <2> HIDE DEF x
  <2>4. ~Index!Misaligned(t) => Index!Abs(Ticks * g - t) <= Tolerance
    <3>1. ~Index!Misaligned(t) => Index!Abs(t - x) <= Tolerance
      BY <1>3 DEF x
    <3>2. Index!Abs(t - x) = Index!Abs(x - t)
      BY <2>2 DEF Index!Abs
    <3>3. QED
      BY <2>1, <3>1, <3>2
  <2>5. QED
    BY <1>4, <2>3, <2>4 DEF g, r
<1>9. QED
  BY <1>1, <1>6, <1>7, <1>8

LEMMA IndexInvGivesWindow ==
    ASSUME Index!IndexAssumption, IndexInv
    PROVE  WindowHonest
<1> DEFINE e == episodes[base]
           f == frame - e.from
           len == e.to - e.from
           start == Index!shard_start(e.shard)
<1>1. SUFFICES ASSUME phase = "answered", answer.found
      PROVE  e \in Index!Written(frame) /\ \A d \in DOMAIN answer.window :
                \E g \in e.from .. e.to - 1 :
                   /\ answer.window[d] = Index!WrittenRow(e, g)
                   /\ \A h \in e.from .. e.to - 1 :
                         Index!Abs(Ticks * (g - e.from) - (f * Ticks + deltas[d]))
                            <= Index!Abs(Ticks * (h - e.from) - (f * Ticks + deltas[d]))
                   /\ f * Ticks + deltas[d] \in 0 .. Ticks * (e.to - 1 - e.from) =>
                         Index!Abs(Ticks * (g - e.from) - (f * Ticks + deltas[d])) <= Tolerance
  BY DEF WindowHonest, Index!WindowHonest
<1>2. /\ Index!WrittenInRow(records) /\ InOrder /\ frame \in Nat /\ Bisected /\ size <= 1
      /\ deltas \in Seq(Int)
      /\ answer = IF size = 1 /\ Index!Compare(e) = "Equal" THEN Index!Resolved(e)
                                                            ELSE Index!None
  BY <1>1 DEF IndexInv
<1>3. size = 1 /\ Index!Compare(e) = "Equal"
  <2>1. ~Index!None.found
    BY DEF Index!None
  <2>2. QED
    BY <1>1, <1>2, <2>1
<1>4. e \in Index!Written(frame)
  BY <1>2, <1>3, SearchFinds
<1>5. e \in Index!Range(records) /\ e.from <= frame /\ frame < e.to
  BY <1>4 DEF Index!Written
<1>6. e.from \in Nat /\ e.to \in Nat /\ start \in Nat
  BY <1>2, <1>5, RecordsRange, ShardStart
<1>7. answer = Index!Resolved(e)
  BY <1>2, <1>3
<1> HIDE DEF e
<1>8. f \in Nat /\ len \in Nat \ {0} /\ f < len /\ frame - f = e.from
      /\ e.to - 1 - e.from = len - 1
  <2> DEFINE a == e.from
             b == e.to
  <2>1. a \in Nat /\ b \in Nat /\ frame \in Nat /\ a <= frame /\ frame < b
    BY <1>2, <1>5, <1>6
  <2> HIDE DEF a, b
  <2>2. /\ frame - a \in Nat /\ b - a \in Nat \ {0} /\ frame - a < b - a
        /\ frame - (frame - a) = a /\ b - 1 - a = (b - a) - 1
    BY <2>1
  <2>3. QED
    BY <2>2 DEF a, b
<1>9. answer.window =
          IF \E d \in DOMAIN deltas : Index!Misaligned(f * Ticks + deltas[d])
          THEN <<>>
          ELSE [d \in DOMAIN deltas |->
                   (frame - f + Index!Clamp(Index!RoundFrames(f * Ticks + deltas[d]), len)) - start]
  <2>1. \A d \in DOMAIN deltas :
           Index!Offsets(f, len)[d] = Index!Clamp(Index!RoundFrames(f * Ticks + deltas[d]), len)
    BY DEF Index!Offsets
  <2>2. answer.window =
          IF \E d \in DOMAIN deltas : Index!Misaligned(f * Ticks + deltas[d])
          THEN <<>>
          ELSE [d \in DOMAIN deltas |-> (frame - f + Index!Offsets(f, len)[d]) - start]
    BY <1>7 DEF Index!Resolved
  <2> HIDE DEF f, len, start
  <2>3. QED
    BY <2>1, <2>2
<1>10. ASSUME NEW d \in DOMAIN answer.window
       PROVE  \E g \in e.from .. e.to - 1 :
                   /\ answer.window[d] = Index!WrittenRow(e, g)
                   /\ \A h \in e.from .. e.to - 1 :
                         Index!Abs(Ticks * (g - e.from) - (f * Ticks + deltas[d]))
                            <= Index!Abs(Ticks * (h - e.from) - (f * Ticks + deltas[d]))
                   /\ f * Ticks + deltas[d] \in 0 .. Ticks * (e.to - 1 - e.from) =>
                         Index!Abs(Ticks * (g - e.from) - (f * Ticks + deltas[d])) <= Tolerance
  <2> DEFINE t == f * Ticks + deltas[d]
             c == Index!Clamp(Index!RoundFrames(t), len)
             g == e.from + c
  <2>1. /\ d \in DOMAIN deltas /\ ~Index!Misaligned(t)
        /\ answer.window[d] = (frame - f + c) - start
    <3> HIDE DEF f, len, start
    <3>1. DOMAIN <<>> = {}
      OBVIOUS
    <3>2. ~\E x \in DOMAIN deltas : Index!Misaligned(f * Ticks + deltas[x])
      BY <1>9, <3>1
    <3>3. d \in DOMAIN deltas
      BY <1>9, <3>2
    <3>4. QED
      BY <1>9, <3>2, <3>3
  <2>2. t \in Int
    <3>1. Ticks \in Nat
      BY DEF Index!IndexAssumption
    <3>2. deltas[d] \in Int
      BY <1>2, <2>1
    <3> HIDE DEF f
    <3>3. f * Ticks \in Int
      BY <1>8, <3>1
    <3>4. QED
      BY <3>2, <3>3
  <2> HIDE DEF t, f, len, start
  <2>3. /\ c \in 0 .. len - 1
        /\ \A h \in 0 .. len - 1 : Index!Abs(Ticks * c - t) <= Index!Abs(Ticks * h - t)
        /\ t \in 0 .. Ticks * (len - 1) => Index!Abs(Ticks * c - t) <= Tolerance
    BY <1>8, <2>1, <2>2, NearestKept
  <2> HIDE DEF c
  <2>4. g \in e.from .. e.to - 1 /\ g \in Nat /\ e.from <= g /\ g < e.to /\ g - e.from = c
    BY <1>6, <1>8, <2>3
  <2>5. answer.window[d] = g - start
    BY <1>8, <2>1
  <2> HIDE DEF g
  <2>6. Index!WrittenRow(e, g) = g - start
    BY <1>2, <1>5, <2>4, RowOfFrame DEF start
  <2>7. \A h \in e.from .. e.to - 1 : Index!Abs(Ticks * c - t) <= Index!Abs(Ticks * (h - e.from) - t)
    <3>1. ASSUME NEW h \in e.from .. e.to - 1
          PROVE  Index!Abs(Ticks * c - t) <= Index!Abs(Ticks * (h - e.from) - t)
      <4> DEFINE k == h - e.from
      <4>1. k \in 0 .. len - 1
        BY <1>6, <1>8
      <4> HIDE DEF k
      <4>2. Index!Abs(Ticks * c - t) <= Index!Abs(Ticks * k - t)
        BY <2>3, <4>1
      <4>3. QED
        BY <4>2 DEF k
    <3>2. QED
      BY <3>1
  <2>8. t \in 0 .. Ticks * (e.to - 1 - e.from) => Index!Abs(Ticks * c - t) <= Tolerance
    BY <1>8, <2>3
  <2>9. /\ answer.window[d] = Index!WrittenRow(e, g)
        /\ \A h \in e.from .. e.to - 1 :
              Index!Abs(Ticks * (g - e.from) - t) <= Index!Abs(Ticks * (h - e.from) - t)
        /\ t \in 0 .. Ticks * (e.to - 1 - e.from) => Index!Abs(Ticks * (g - e.from) - t) <= Tolerance
    BY <2>4, <2>5, <2>6, <2>7, <2>8
  <2>10. QED
    BY <2>4, <2>9 DEF t
<1>11. QED
  BY <1>4, <1>10

(* FlattenSeq joins (SequencesExt). *)
LEMMA FlattenIndex == \A s : Index!FlattenSeq(s) = Assembly!FlattenSeq(s)
BY DEF Index!FlattenSeq, Assembly!FlattenSeq

LEMMA FlattenIs ==
    ASSUME NEW S, NEW s \in Seq(Seq(S))
    PROVE  \E f : Joins(f, s, Len(s)) /\ Assembly!FlattenSeq(s) = f[Len(s)]
<1> DEFINE n == Len(s)
           Loop(h) == h = [k \in 1 .. n |-> IF k = 1 THEN s[k] ELSE h[k - 1] \o s[k]]
           flatten == CHOOSE h : Loop(h)
<1>1. n \in Nat /\ \A k \in 1 .. n : s[k] \in Seq(S)
  OBVIOUS
<1>2. PICK f : Joins(f, s, n)
  BY <1>1, JoinsExist
<1>3. CASE n = 0
  <2>1. s = <<>> /\ f[0] = <<>>
    <3>1. s = <<>>
      BY <1>3
    <3>2. f[0] = <<>>
      BY <1>1, <1>2, JoinsStep DEF JoinsOn
    <3>3. QED
      BY <3>1, <3>2
  <2>2. Assembly!FlattenSeq(s) = s
    BY <1>3 DEF Assembly!FlattenSeq
  <2>3. QED
    BY <1>2, <1>3, <2>1, <2>2
<1>4. CASE n # 0
  <2>1. Assembly!FlattenSeq(s) = flatten[n]
    BY <1>4 DEF Assembly!FlattenSeq
  <2>2. \A h : Loop(h) <=> JoinsFromFirst(h, s, n)
    BY DEF JoinsFromFirst
  <2> HIDE DEF n, Loop
  <2>3. /\ \E h : JoinsFromFirst(h, s, n)
        /\ \A h : JoinsFromFirst(h, s, n) => h[n] = f[n]
    BY <1>1, <1>2, <1>4, JoinedFromFirst
  <2>4. Loop(flatten)
    BY <2>2, <2>3
  <2>5. QED
    BY <1>2, <2>1, <2>2, <2>3, <2>4 DEF n
<1>5. QED
  BY <1>3, <1>4

-----------------------------------------------------------------------------
(***************************************************************************)
(* The runs of a population.  The frames of the wanted episodes are joined  *)
(* in the order of the episodes, and pos has the ends of the parts.         *)
(***************************************************************************)
Increasing(s) == \A x, y \in 1 .. Len(s) : x < y => s[x] < s[y]

(* What is in order already, the sort leaves alone. *)
LEMMA SortedIncreasing ==
    ASSUME NEW s \in Seq(Nat), Increasing(s)
    PROVE  Index!Sorted(s) = s
<1> DEFINE n == Len(s)
           Upto(k) == {j \in DOMAIN s : s[j] < s[k] \/ (s[j] = s[k] /\ j <= k)}
           place(k) == Index!Cardinality(Upto(k))
<1>1. n \in Nat /\ DOMAIN s = 1 .. n /\ \A k \in 1 .. n : s[k] \in Nat
  OBVIOUS
<1>2. Index!Sorted(s) = [m \in DOMAIN s |-> s[CHOOSE k \in DOMAIN s : place(k) = m]]
  BY DEF Index!Sorted
<1>3. ASSUME NEW k \in 1 .. n PROVE place(k) = k
  <2>1. ASSUME NEW j \in 1 .. n PROVE s[j] < s[k] \/ (s[j] = s[k] /\ j <= k) <=> j <= k
    <3>1. CASE j < k
      <4>1. s[j] < s[k]
        BY <3>1 DEF Increasing
      <4>2. QED
        BY <1>1, <3>1, <4>1
    <3>2. CASE j = k
      BY <1>1, <3>2
    <3>3. CASE k < j
      <4>1. s[k] < s[j]
        BY <3>3 DEF Increasing
      <4>2. QED
        BY <1>1, <3>3, <4>1
    <3>4. QED
      BY <1>1, <3>1, <3>2, <3>3
  <2>2. Upto(k) = 1 .. k
    <3>1. \A j : j \in 1 .. k <=> j \in 1 .. n /\ j <= k
      BY <1>1
    <3>2. QED
      BY <1>1, <2>1, <3>1
  <2>3. Cardinality(1 .. k) = k
    <3>1. 1 \in Int /\ k \in Int /\ k >= 1
      BY <1>1
    <3>2. Cardinality(1 .. k) = IF 1 > k THEN 0 ELSE k - 1 + 1
      BY <3>1, FS_Interval
    <3>3. QED
      BY <3>1, <3>2
  <2>4. QED
    BY <2>2, <2>3, IndexCounts
<1> HIDE DEF place
<1>4. ASSUME NEW m \in 1 .. n PROVE (CHOOSE k \in DOMAIN s : place(k) = m) = m
  BY <1>1, <1>3
<1>5. Index!Sorted(s) = [m \in 1 .. n |-> s[m]]
  BY <1>1, <1>2, <1>4
<1>6. QED
  BY <1>1, <1>5

(* No number comes twice in what increases. *)
LEMMA IncreasingDistinct ==
    ASSUME NEW s \in Seq(Nat), Increasing(s)
    PROVE  Cardinality({s[k] : k \in DOMAIN s}) = Len(s)
<1> DEFINE n == Len(s)
           T == {s[k] : k \in DOMAIN s}
<1>1. n \in Nat /\ DOMAIN s = 1 .. n /\ s \in [1 .. n -> T] /\ \A k \in 1 .. n : s[k] \in Nat
  OBVIOUS
<1>2. \A x, y \in 1 .. n : s[x] = s[y] => x = y
  <2>1. \A x, y \in 1 .. n : x < y \/ y < x \/ x = y
    BY <1>1
  <2>2. \A x, y \in 1 .. n : x < y => s[x] # s[y]
    BY <1>1 DEF Increasing
  <2>3. QED
    BY <2>1, <2>2
<1>3. \A y \in T : \E x \in 1 .. n : s[x] = y
  BY <1>1
<1> HIDE DEF T, n
<1>4. s \in Bijection(1 .. n, T)
  BY <1>1, <1>2, <1>3 DEF Bijection, Injection, Surjection, IsInjective
<1>5. ExistsBijection(1 .. n, T)
  BY <1>4 DEF ExistsBijection
<1>6. IsFiniteSet(1 .. n) /\ Cardinality(1 .. n) = n
  <2>1. IsFiniteSet(1 .. n) /\ Cardinality(1 .. n) = IF 1 > n THEN 0 ELSE n - 1 + 1
    BY <1>1, FS_Interval
  <2>2. QED
    BY <1>1, <2>1
<1>7. Cardinality(T) = n
  BY <1>5, <1>6, FS_Bijection
<1>8. QED
  BY <1>7 DEF T, n

(* What an episode contributes, wanted or not. *)
PartOf(wanted) == [k \in DOMAIN episodes |->
    IF episodes[k].episode_index \in wanted THEN Index!Frames(episodes[k]) ELSE <<>>]
WantedAt(wanted) == {k \in DOMAIN episodes : episodes[k].episode_index \in wanted}
LenOf(wanted) == [k \in DOMAIN episodes |->
    IF k \in WantedAt(wanted) THEN episodes[k].to - episodes[k].from ELSE 0]

LEMMA PartsOfWanted ==
    ASSUME Index!WrittenInRow(records), InOrder, NEW wanted
    PROVE  LET n == Len(episodes)
               s == PartOf(wanted)
               w == LenOf(wanted)
           IN  /\ n \in Nat /\ DOMAIN episodes = 1 .. n
               /\ \A k \in 1 .. n :
                     /\ s[k] \in Seq(Nat) /\ Len(s[k]) = w[k] /\ w[k] \in Nat
                     /\ \A m \in 1 .. w[k] :
                           /\ s[k][m] = episodes[k].from + (m - 1)
                           /\ k \in WantedAt(wanted)
                           /\ episodes[k].from <= s[k][m] /\ s[k][m] < episodes[k].to
                     /\ k \in WantedAt(wanted) => s[k] = Index!Frames(episodes[k])
<1> DEFINE n == Len(episodes)
           s == PartOf(wanted)
           w == LenOf(wanted)
<1>1. /\ n \in Nat /\ DOMAIN episodes = 1 .. n
      /\ \A k \in 1 .. n : episodes[k].from \in Nat /\ episodes[k].to \in Nat
                           /\ episodes[k].from <= episodes[k].to
  BY EpisodeTypes
<1>2. ASSUME NEW k \in 1 .. n
      PROVE  /\ s[k] \in Seq(Nat) /\ Len(s[k]) = w[k] /\ w[k] \in Nat
             /\ \A m \in 1 .. w[k] :
                   /\ s[k][m] = episodes[k].from + (m - 1)
                   /\ k \in WantedAt(wanted)
                   /\ episodes[k].from <= s[k][m] /\ s[k][m] < episodes[k].to
             /\ k \in WantedAt(wanted) => s[k] = Index!Frames(episodes[k])
  <2>1. CASE k \notin WantedAt(wanted)
    <3>1. s[k] = <<>> /\ w[k] = 0
      BY <1>1, <2>1 DEF PartOf, LenOf, WantedAt
    <3>2. QED
      BY <2>1, <3>1
  <2>2. CASE k \in WantedAt(wanted)
    <3> DEFINE a == episodes[k].from
               b == episodes[k].to
               l == b - a
               q == [m \in 1 .. l |-> a + m - 1]
    <3>1. s[k] = Index!Frames(episodes[k]) /\ w[k] = l
      BY <1>1, <2>2 DEF PartOf, LenOf, WantedAt
    <3>2. Index!Frames(episodes[k]) = q
      BY DEF Index!Frames
    <3>3. a \in Nat /\ b \in Nat /\ l \in Nat /\ b = a + l
      BY <1>1
    <3> HIDE DEF a, b, l
    <3>4. \A m \in 1 .. l : a + m - 1 = a + (m - 1) /\ a + (m - 1) \in Nat
                            /\ a <= a + (m - 1) /\ a + (m - 1) < b
      BY <3>3
    <3>5. q \in [1 .. l -> Nat]
      BY <3>4
    <3>6. q \in Seq(Nat) /\ Len(q) = l
      BY <3>3, <3>5
    <3>7. \A m \in 1 .. l : q[m] = a + (m - 1)
      BY <3>4
    <3> HIDE DEF q
    <3>8. QED
      BY <2>2, <3>1, <3>2, <3>3, <3>4, <3>6, <3>7 DEF a, b
  <2>3. QED
    BY <2>1, <2>2
<1>3. QED
  BY <1>1, <1>2

(* The loop that gathers the frames, and the ends of the parts. *)
Population(f, g, wanted) ==
    /\ Joins(f, PartOf(wanted), Len(episodes))
    /\ Sums(g, LenOf(wanted), Len(episodes))

LEMMA GatheredIs ==
    ASSUME Index!WrittenInRow(records), InOrder, NEW wanted
    PROVE  \E f, g : Population(f, g, wanted) /\ Index!Gathered(wanted) = f[Len(episodes)]
<1> DEFINE n == Len(episodes)
           s == PartOf(wanted)
<1>1. n \in Nat /\ DOMAIN episodes = 1 .. n /\ \A k \in 1 .. n : s[k] \in Seq(Nat)
  BY PartsOfWanted
<1>2. s \in Seq(Seq(Nat)) /\ Len(s) = n
  <2>1. s = [k \in 1 .. n |-> s[k]]
    BY <1>1 DEF PartOf
  <2> HIDE DEF s, n
  <2>2. s \in [1 .. n -> Seq(Nat)]
    BY <1>1, <2>1
  <2>3. QED
    BY <1>1, <2>2
<1>3. Index!Gathered(wanted) = Assembly!FlattenSeq(s)
  BY FlattenIndex DEF Index!Gathered, PartOf
<1> HIDE DEF s, n
<1>4. PICK f : Joins(f, s, n) /\ Assembly!FlattenSeq(s) = f[n]
  BY <1>2, FlattenIs
<1>5. \E g : Sums(g, LenOf(wanted), n)
  BY <1>1, SumsExist
<1>6. QED
  BY <1>3, <1>4, <1>5 DEF Population, n, s

(* Each number of the population is a frame of a wanted episode, found after the
   parts of the episodes before it. *)
Placed(s, g, wanted) ==
    LET n == Len(episodes)
        w == LenOf(wanted)
    IN  /\ s \in Seq(Nat) /\ Len(s) = g[n]
        /\ \A k \in 1 .. n :
              /\ g[k - 1] \in Nat /\ g[k] = g[k - 1] + w[k] /\ g[k] <= g[n]
              /\ \A m \in 1 .. w[k] : s[g[k - 1] + m] = episodes[k].from + (m - 1)
        /\ \A j, k \in 1 .. n : j < k => g[j] <= g[k - 1]
        /\ \A x \in 1 .. g[n] : \E k \in 1 .. n : g[k - 1] < x /\ x <= g[k]

LEMMA PopulationPlaced ==
    ASSUME Index!WrittenInRow(records), InOrder, NEW wanted,
           NEW f, NEW g, Population(f, g, wanted)
    PROVE  Placed(f[Len(episodes)], g, wanted)
<1> DEFINE n == Len(episodes)
           s == PartOf(wanted)
           w == LenOf(wanted)
<1>1. /\ n \in Nat
      /\ \A k \in 1 .. n :
            /\ s[k] \in Seq(Nat) /\ Len(s[k]) = w[k] /\ w[k] \in Nat
            /\ \A m \in 1 .. w[k] : s[k][m] = episodes[k].from + (m - 1)
  BY PartsOfWanted
<1>2. Joins(f, s, n) /\ Sums(g, w, n)
  BY DEF Population
<1> HIDE DEF s, w, n
<1>3. /\ n \in Nat /\ Joins(f, s, n) /\ Sums(g, w, n)
      /\ \A k \in 1 .. n : s[k] \in Seq(Nat)
      /\ \A k \in 1 .. n : w[k] = Len(s[k])
  BY <1>1, <1>2
<1>4. \A k \in 0 .. n : f[k] \in Seq(Nat) /\ JoinedAt(f, s, g, k)
  BY ONLY <1>3, JoinsPlaces
<1>5. n \in 0 .. n
  BY <1>1
<1>6. f[n] \in Seq(Nat) /\ JoinedAt(f, s, g, n)
  BY <1>4, <1>5
<1>7. /\ g[n] \in Nat /\ Len(f[n]) = g[n]
      /\ \A k \in 1 .. n :
            /\ g[k - 1] \in Nat /\ g[k] = g[k - 1] + Len(s[k]) /\ g[k] <= g[n]
            /\ \A m \in 1 .. Len(s[k]) : f[n][g[k - 1] + m] = s[k][m]
      /\ \A x \in 1 .. g[n] : \E k \in 1 .. n : g[k - 1] < x /\ x <= g[k]
  BY <1>6 DEF JoinedAt
<1>8. ASSUME NEW k \in 1 .. n, NEW m \in 1 .. w[k]
      PROVE  f[n][g[k - 1] + m] = episodes[k].from + (m - 1)
  <2>1. Len(s[k]) = w[k] /\ s[k][m] = episodes[k].from + (m - 1)
    BY <1>1
  <2>2. f[n][g[k - 1] + m] = s[k][m]
    BY <1>7, <2>1
  <2>3. QED
    BY <2>1, <2>2
<1>9. \A j, k \in 1 .. n : j < k => g[j] <= g[k - 1]
  <2> SUFFICES ASSUME NEW j \in 1 .. n, NEW k \in 1 .. n, j < k PROVE g[j] <= g[k - 1]
    OBVIOUS
  <2>1. k - 1 \in 0 .. n /\ j \in 1 .. k - 1
    BY <1>1
  <2>2. JoinedAt(f, s, g, k - 1)
    BY <1>4, <2>1
  <2>3. QED
    BY <2>1, <2>2 DEF JoinedAt
<1>10. QED
  BY <1>1, <1>6, <1>7, <1>8, <1>9 DEF Placed, n, w

(* Where a number of the population comes from. *)
LEMMA PlaceOf ==
    ASSUME Index!WrittenInRow(records), InOrder, NEW wanted, NEW s, NEW g,
           Placed(s, g, wanted), NEW x \in 1 .. Len(s)
    PROVE  \E k \in 1 .. Len(episodes) :
              /\ k \in WantedAt(wanted)
              /\ g[k - 1] < x /\ x <= g[k]
              /\ g[k - 1] \in Nat /\ g[k] = g[k - 1] + (episodes[k].to - episodes[k].from)
              /\ s[x] = episodes[k].from + (x - g[k - 1] - 1)
              /\ episodes[k].from <= s[x] /\ s[x] < episodes[k].to
<1> DEFINE n == Len(episodes)
           w == LenOf(wanted)
<1>1. /\ n \in Nat /\ DOMAIN episodes = 1 .. n
      /\ \A k \in 1 .. n : episodes[k].from \in Nat /\ episodes[k].to \in Nat
  BY EpisodeTypes
<1>2. /\ Len(s) = g[n]
      /\ \A k \in 1 .. n :
            /\ g[k - 1] \in Nat /\ g[k] = g[k - 1] + w[k]
            /\ \A m \in 1 .. w[k] : s[g[k - 1] + m] = episodes[k].from + (m - 1)
      /\ \A y \in 1 .. g[n] : \E k \in 1 .. n : g[k - 1] < y /\ y <= g[k]
  BY DEF Placed
<1>3. PICK k \in 1 .. n : g[k - 1] < x /\ x <= g[k]
  BY <1>2
<1> DEFINE a == episodes[k].from
           b == episodes[k].to
           p == g[k - 1]
           m == x - p
<1>4. w[k] = IF k \in WantedAt(wanted) THEN b - a ELSE 0
  BY <1>1 DEF LenOf
<1> HIDE DEF w, n
<1>5. a \in Nat /\ b \in Nat /\ p \in Nat /\ x \in Nat /\ w[k] \in Int /\ g[k] = p + w[k]
      /\ p < x /\ x <= g[k]
  <2>1. a \in Nat /\ b \in Nat /\ p \in Nat /\ g[k] = p + w[k] /\ p < x /\ x <= g[k]
    BY <1>1, <1>2, <1>3
  <2>2. x \in Nat
    OBVIOUS
  <2>3. w[k] \in Int
    BY <1>4, <2>1
  <2>4. QED
    BY <2>1, <2>2, <2>3
<1>6. \A l \in 1 .. w[k] : s[p + l] = a + (l - 1)
  BY <1>2
<1> HIDE DEF a, b, p
<1>7. m \in 1 .. w[k] /\ p + m = x /\ m \in Nat
  BY <1>5
<1>8. k \in WantedAt(wanted) /\ w[k] = b - a
  BY <1>4, <1>7
<1>9. s[x] = a + (m - 1)
  BY <1>6, <1>7
<1>10. a <= s[x] /\ s[x] < b /\ s[x] = a + (x - p - 1)
  BY <1>5, <1>7, <1>8, <1>9
<1>11. QED
  BY <1>3, <1>5, <1>8, <1>10 DEF a, b, p, n

(* The episodes being in order, so is the population: the sort has nothing to do. *)
LEMMA PopulationIncreases ==
    ASSUME Index!WrittenInRow(records), InOrder, NEW wanted, NEW s, NEW g, Placed(s, g, wanted)
    PROVE  Increasing(s)
<1> DEFINE n == Len(episodes)
           At(k, x) == /\ k \in WantedAt(wanted)
                       /\ g[k - 1] < x /\ x <= g[k]
                       /\ g[k - 1] \in Nat /\ g[k] = g[k - 1] + (episodes[k].to - episodes[k].from)
                       /\ s[x] = episodes[k].from + (x - g[k - 1] - 1)
                       /\ episodes[k].from <= s[x] /\ s[x] < episodes[k].to
<1> SUFFICES ASSUME NEW x \in 1 .. Len(s), NEW y \in 1 .. Len(s), x < y PROVE s[x] < s[y]
  BY DEF Increasing
<1>1. ASSUME NEW z \in 1 .. Len(s) PROVE \E k \in 1 .. n : At(k, z)
  BY PlaceOf
<1> HIDE DEF At
<1>2. PICK k \in 1 .. n : At(k, x)
  BY <1>1
<1>3. PICK j \in 1 .. n : At(j, y)
  BY <1>1
<1>4. /\ n \in Nat /\ DOMAIN episodes = 1 .. n
      /\ \A m \in 1 .. n : episodes[m].from \in Nat /\ episodes[m].to \in Nat
      /\ \A c, d \in 1 .. n : c < d => episodes[c].to <= episodes[d].from
  BY EpisodeTypes DEF InOrder
<1>5. \A c, d \in 1 .. n : c < d => g[c] <= g[d - 1]
  BY DEF Placed
<1>6. /\ g[k - 1] < x /\ x <= g[k] /\ g[k - 1] \in Nat
      /\ g[k] = g[k - 1] + (episodes[k].to - episodes[k].from)
      /\ s[x] = episodes[k].from + (x - g[k - 1] - 1) /\ s[x] < episodes[k].to
  BY <1>2 DEF At
<1>7. /\ g[j - 1] < y /\ y <= g[j] /\ g[j - 1] \in Nat
      /\ g[j] = g[j - 1] + (episodes[j].to - episodes[j].from)
      /\ s[y] = episodes[j].from + (y - g[j - 1] - 1) /\ episodes[j].from <= s[y]
  BY <1>3 DEF At
<1>8. x \in Int /\ y \in Int /\ k \in Int /\ j \in Int
      /\ episodes[k].from \in Int /\ episodes[k].to \in Int
      /\ episodes[j].from \in Int /\ episodes[j].to \in Int
  BY <1>4
<1>9. s[x] \in Int /\ s[y] \in Int
  <2>1. s \in Seq(Nat)
    BY DEF Placed
  <2>2. QED
    BY <2>1
<1> HIDE DEF n
<1> DEFINE ak == episodes[k].from
           bk == episodes[k].to
           aj == episodes[j].from
           bj == episodes[j].to
           pk == g[k - 1]
           pj == g[j - 1]
<1>14. /\ ak \in Int /\ bk \in Int /\ aj \in Int /\ bj \in Int /\ pk \in Int /\ pj \in Int
       /\ x \in Int /\ y \in Int /\ x < y
       /\ pk < x /\ pj < y /\ x <= g[k] /\ y <= g[j] /\ g[k] = pk + (bk - ak)
       /\ g[j] = pj + (bj - aj)
       /\ s[x] < bk /\ aj <= s[y]
  <2>1. ak \in Int /\ bk \in Int /\ aj \in Int /\ bj \in Int /\ x \in Int /\ y \in Int /\ x < y
    BY <1>8
  <2>2. pk \in Int /\ pk < x /\ x <= g[k] /\ g[k] = pk + (bk - ak) /\ s[x] < bk
    BY <1>6
  <2>3. pj \in Int /\ pj < y /\ y <= g[j] /\ g[j] = pj + (bj - aj) /\ aj <= s[y]
    BY <1>7
  <2> HIDE DEF ak, bk, aj, bj, pk, pj
  <2>4. QED
    BY <2>1, <2>2, <2>3
<1>15. s[x] = ak + (x - pk - 1) /\ s[y] = aj + (y - pj - 1)
  BY <1>6, <1>7
<1>10. CASE k = j
  <2>1. aj = ak /\ pj = pk
    BY <1>10
  <2> HIDE DEF ak, bk, aj, bj, pk, pj
  <2>2. s[x] = ak + (x - pk - 1) /\ s[y] = ak + (y - pk - 1)
    BY <1>15, <2>1
  <2>3. QED
    BY <1>14, <2>2
<1>11. CASE k < j
  <2>1. bk <= aj
    BY <1>4, <1>11
  <2> HIDE DEF ak, bk, aj, bj, pk, pj
  <2>2. QED
    BY <1>9, <1>14, <2>1
<1>12. CASE j < k
  <2>1. g[j] <= pk
    BY <1>5, <1>12
  <2> HIDE DEF ak, bk, aj, bj, pk, pj
  <2>2. QED
    BY <1>14, <2>1
<1>13. QED
  BY <1>8, <1>10, <1>11, <1>12

(* What a wanted episode contributes is a slice of the population. *)
LEMMA SliceOfEpisode ==
    ASSUME Index!WrittenInRow(records), InOrder, NEW wanted, NEW s, NEW g,
           Placed(s, g, wanted), NEW k \in WantedAt(wanted)
    PROVE  LET l == episodes[k].to - episodes[k].from
           IN  /\ g[k - 1] + l <= Len(s)
               /\ SubSeq(s, g[k - 1] + 1, g[k - 1] + l) = Index!Frames(episodes[k])
<1> DEFINE n == Len(episodes)
           w == LenOf(wanted)
           a == episodes[k].from
           b == episodes[k].to
           p == g[k - 1]
           l == b - a
           t == SubSeq(s, p + 1, p + l)
           q == Index!Frames(episodes[k])
<1>1. /\ n \in Nat /\ k \in 1 .. n /\ a \in Nat /\ b \in Nat /\ a <= b /\ w[k] = l
  BY EpisodeTypes DEF WantedAt, LenOf
<1>2. /\ s \in Seq(Nat) /\ Len(s) = g[n]
      /\ p \in Nat /\ g[k] = p + w[k] /\ g[k] <= g[n]
      /\ \A m \in 1 .. w[k] : s[p + m] = a + (m - 1)
  BY <1>1 DEF Placed
<1>3. q = [m \in 1 .. l |-> a + m - 1]
  BY DEF Index!Frames
<1> HIDE DEF n, w, a, b, p, l, q
<1>4. l \in Nat
  BY <1>1 DEF l
<1>5. s \in Seq(Nat) /\ p \in Nat /\ l \in Nat /\ p + l <= Len(s)
  BY <1>1, <1>2, <1>4
<1>6. t \in Seq(Nat) /\ Len(t) = l /\ \A m \in 1 .. l : t[m] = s[p + m]
  BY ONLY <1>5, SliceIs
<1>7. t = [m \in 1 .. l |-> t[m]]
  <2>1. DOMAIN t = 1 .. l /\ t = [m \in DOMAIN t |-> t[m]]
    <3> HIDE DEF t
    <3> QED BY <1>4, <1>6
  <2>2. QED
    BY <2>1
<1> HIDE DEF t
<1>8. \A m \in 1 .. l : t[m] = a + m - 1
  <2> SUFFICES ASSUME NEW m \in 1 .. l PROVE t[m] = a + m - 1
    OBVIOUS
  <2>1. t[m] = s[p + m]
    BY <1>6
  <2>2. s[p + m] = a + (m - 1)
    BY <1>1, <1>2
  <2>3. m \in Int /\ a \in Int
    BY <1>1
  <2>4. QED
    BY <2>1, <2>2, <2>3
<1>9. t = q
  BY <1>3, <1>7, <1>8
<1>10. QED
  BY <1>5, <1>9 DEF t, q, a, b, p, l

RunAt(g, wanted) == [k \in DOMAIN episodes |-> [start |-> g[k - 1], len |-> LenOf(wanted)[k]]]

(* The loop of episode_runs: a run for each wanted episode. *)
LEMMA RunsForIs ==
    ASSUME Index!WrittenInRow(records), InOrder, NEW wanted, NEW f, NEW g,
           Population(f, g, wanted)
    PROVE  LET r == Index!RunsFor(wanted)
           IN  /\ Len(r) \in Nat /\ DOMAIN r = 1 .. Len(r)
               /\ \A j \in 1 .. Len(r) : \E k \in WantedAt(wanted) : r[j] = RunAt(g, wanted)[k]
<1> DEFINE n == Len(episodes)
           at == WantedAt(wanted)
           len == LenOf(wanted)
           Ends(h) == h = [k \in 0 .. n |-> IF k = 0 THEN 0 ELSE h[k - 1] + len[k]]
           pos == CHOOSE h : Ends(h)
           row == RunAt(pos, wanted)
           Loop(h) == h = [k \in 0 .. n |->
                             IF k = 0 THEN <<>>
                             ELSE IF k \in at THEN Append(h[k - 1], row[k]) ELSE h[k - 1]]
           runs == CHOOSE h : Loop(h)
           r == Index!RunsFor(wanted)
           R == {row[k] : k \in DOMAIN episodes}
<1>1. n \in Nat /\ DOMAIN episodes = 1 .. n
  BY EpisodeTypes
<1>2. \A h : Sums(h, len, n) <=> Ends(h)
  BY DEF Sums
<1>3. Sums(g, len, n)
  BY DEF Population
<1>4. pos = g
  <2>1. \E h : Ends(h)
    <3> HIDE DEF Ends, len, n
    <3> QED BY <1>2, <1>3
  <2>2. Ends(pos)
    <3> HIDE DEF Ends
    <3> QED BY <2>1
  <2> HIDE DEF Ends, pos, len, n
  <2>3. Sums(pos, len, n)
    BY <1>2, <2>2
  <2>4. QED
    BY <1>1, <1>3, <2>3, SumsUnique
<1>5. r = runs[n]
  BY DEF Index!RunsFor, RunAt, LenOf, WantedAt
<1>6. row \in Seq(R) /\ Len(row) = n
  <2>1. row = [k \in 1 .. n |-> row[k]] /\ \A k \in 1 .. n : row[k] \in R
    BY <1>1 DEF RunAt
  <2> HIDE DEF row, R, n
  <2>2. QED
    BY <1>1, <2>1
<1>7. \A h : Kept(h, row, at, n) <=> Loop(h)
  BY DEF Kept
<1> HIDE DEF n, at, len, Ends, pos, row, R
<1>8. \E h : Loop(h)
  <2> HIDE DEF Loop
  <2> QED BY <1>1, <1>7, KeptExists
<1>9. Loop(runs)
  <2> HIDE DEF Loop
  <2> QED BY <1>8
<1> HIDE DEF Loop, runs, r
<1>10. Kept(runs, row, at, n)
  BY <1>7, <1>9
<1>11. r \in Seq(R) /\ \E p : Picks(p, r, row, at, n)
  BY <1>5, <1>6, <1>10, KeptPicks
<1>12. PICK p : Picks(p, r, row, at, n)
  BY <1>11
<1>13. \A j \in 1 .. Len(r) : p[j] \in at /\ r[j] = row[p[j]]
  BY <1>12 DEF Picks
<1>14. row = RunAt(g, wanted)
  BY <1>4 DEF row
<1>15. Len(r) \in Nat /\ DOMAIN r = 1 .. Len(r)
  BY <1>11
<1>16. QED
  BY <1>13, <1>14, <1>15 DEF r, at

(* A population and its runs, whichever episodes are wanted. *)
LEMMA SelectionHonest ==
    ASSUME Index!WrittenInRow(records), InOrder, NEW wanted,
           subset = [wanted |-> wanted, frames |-> Index!FramesFor(wanted),
                     runs |-> Index!RunsFor(wanted)]
    PROVE  /\ \A g \in Index!Range(subset.frames) :
                 \E e \in Index!Written(g) : e.episode_index \in subset.wanted
           /\ Index!Cardinality(Index!Range(subset.frames)) = Len(subset.frames)
           /\ \A k \in DOMAIN subset.runs : \E e \in Index!Range(records) :
                 /\ e.episode_index \in subset.wanted
                 /\ subset.runs[k].start + subset.runs[k].len <= Len(subset.frames)
                 /\ SubSeq(subset.frames, subset.runs[k].start + 1,
                           subset.runs[k].start + subset.runs[k].len) = Index!Frames(e)
<1> DEFINE n == Len(episodes)
           s == Index!Gathered(wanted)
           r == Index!RunsFor(wanted)
<1>1. PICK f, g : Population(f, g, wanted) /\ s = f[n]
  BY GatheredIs
<1>2. Placed(s, g, wanted)
  BY <1>1, PopulationPlaced
<1>3. s \in Seq(Nat) /\ Increasing(s)
  <2>1. s \in Seq(Nat)
    BY <1>2 DEF Placed
  <2> HIDE DEF s
  <2>2. Increasing(s)
    BY <1>2, PopulationIncreases
  <2>3. QED
    BY <2>1, <2>2
<1>4. Index!FramesFor(wanted) = s
  BY <1>3, SortedIncreasing DEF Index!FramesFor
<1>5. subset.wanted = wanted /\ subset.frames = s /\ subset.runs = r
  BY <1>4
<1>6. /\ n \in Nat /\ DOMAIN episodes = 1 .. n
      /\ Index!Range(records) = {episodes[k] : k \in 1 .. n}
      /\ \A k \in WantedAt(wanted) : k \in 1 .. n /\ episodes[k].episode_index \in wanted
  BY EpisodeTypes DEF WantedAt
<1>7. /\ Len(r) \in Nat /\ DOMAIN r = 1 .. Len(r)
      /\ \A j \in 1 .. Len(r) : \E k \in WantedAt(wanted) : r[j] = RunAt(g, wanted)[k]
  BY <1>1, RunsForIs
<1>8. Index!Range(s) = {s[k] : k \in DOMAIN s}
  BY DEF Index!Range
<1> HIDE DEF s, r
<1>9. \A x \in Index!Range(s) : \E e \in Index!Written(x) : e.episode_index \in wanted
  <2> SUFFICES ASSUME NEW x \in 1 .. Len(s)
               PROVE  \E e \in Index!Written(s[x]) : e.episode_index \in wanted
    BY <1>3, <1>8
  <2>1. PICK k \in 1 .. n : /\ k \in WantedAt(wanted)
                            /\ episodes[k].from <= s[x] /\ s[x] < episodes[k].to
    BY <1>2, PlaceOf
  <2>2. episodes[k] \in Index!Written(s[x])
    BY <1>6, <2>1 DEF Index!Written
  <2>3. QED
    BY <1>6, <2>1, <2>2
<1>10. Index!Cardinality(Index!Range(s)) = Len(s)
  BY <1>3, <1>8, IncreasingDistinct, IndexCounts
<1>11. ASSUME NEW j \in DOMAIN r
       PROVE  \E e \in Index!Range(records) :
                 /\ e.episode_index \in wanted
                 /\ r[j].start + r[j].len <= Len(s)
                 /\ SubSeq(s, r[j].start + 1, r[j].start + r[j].len) = Index!Frames(e)
  <2>1. PICK k \in WantedAt(wanted) : r[j] = RunAt(g, wanted)[k]
    BY <1>7
  <2>2. r[j].start = g[k - 1] /\ r[j].len = episodes[k].to - episodes[k].from
    BY <1>6, <2>1 DEF RunAt, LenOf
  <2>3. /\ g[k - 1] + (episodes[k].to - episodes[k].from) <= Len(s)
        /\ SubSeq(s, g[k - 1] + 1, g[k - 1] + (episodes[k].to - episodes[k].from))
             = Index!Frames(episodes[k])
    BY <1>2, SliceOfEpisode
  <2>4. QED
    BY <1>6, <2>2, <2>3
<1>12. QED
  BY <1>5, <1>9, <1>10, <1>11

LEMMA IndexInvGivesRuns == ASSUME IndexInv PROVE RunsAreEpisodes
<1> SUFFICES ASSUME phase = "selected" PROVE RunsAreEpisodes
  BY DEF RunsAreEpisodes, Index!RunsAreEpisodes
<1>1. Index!WrittenInRow(records) /\ InOrder /\ Selected
  BY DEF IndexInv
<1> DEFINE wanted == subset.wanted
<1>2. subset = [wanted |-> wanted, frames |-> Index!FramesFor(wanted),
                runs |-> Index!RunsFor(wanted)]
  BY <1>1 DEF Selected
<1> HIDE DEF wanted
<1>3. QED
  BY <1>1, <1>2, SelectionHonest DEF RunsAreEpisodes, Index!RunsAreEpisodes

LEMMA IndexInvInit ==
    ASSUME Index!IndexAssumption, Index!Init
    PROVE  IndexInv
BY DEF Index!IndexAssumption, Index!Init, IndexInv

LEMMA IndexInvSafe == ASSUME Index!IndexAssumption PROVE Spec => []IndexInv
<1>1. Init => IndexInv
  BY IndexInvInit DEF Init
<1>2. IndexInv /\ [Next]_vars => IndexInv'
  BY Steps, IndexInvNext
<1>3. QED
  BY <1>1, <1>2, PTL DEF Spec

(* Every frame of a dataset is found in its episode and at its row of the shard,
   in whatever order the index files list the episodes, and no other number is
   (EpisodeIndex, episodes.rs, with the binary search of the library, and
   TabularLoader, loader.rs). *)
THEOREM FramesFound == ASSUME Index!IndexAssumption PROVE Spec => []FrameFound
<1>1. IndexInv => FrameFound
  BY IndexInvGivesFrame
<1>2. QED
  BY <1>1, IndexInvSafe, PTL

(* A window has the frame of the episode nearest to each time it asks for, and
   one within the tolerance when the time is in the episode (resolve_offsets,
   window.rs). *)
THEOREM WindowsStay == ASSUME Index!IndexAssumption PROVE Spec => []WindowHonest
<1>1. IndexInv => WindowHonest
  BY IndexInvGivesWindow
<1>2. QED
  BY <1>1, IndexInvSafe, PTL

(* Whichever episodes are wanted, the population has each of their frames once and
   in order, and each run that chunked_order is given is the frames of one of them
   (frame_indices_for_episodes and episode_runs, loader.rs). *)
THEOREM RunsStayEpisodes == ASSUME Index!IndexAssumption PROVE Spec => []RunsAreEpisodes
<1>1. IndexInv => RunsAreEpisodes
  BY IndexInvGivesRuns
<1>2. QED
  BY <1>1, IndexInvSafe, PTL

-----------------------------------------------------------------------------
(***************************************************************************)
(* The batches of the two paths.  The values of a feature are the vectors   *)
(* of the rows, one after the other, whether they are joined row by row or  *)
(* all at once.                                                            *)
(***************************************************************************)

(* A window is not empty, and its steps stay in the episode of the frame. *)
LEMMA WindowSteps ==
    ASSUME Assembly!AssemblyAssumption, args \in Arguments, NEW name
    PROVE  Assembly!deltas_for(name) \in Seq(Int) /\ Len(Assembly!deltas_for(name)) >= 1
<1>1. CASE name \in DOMAIN args.window /\ args.window[name] # <<>>
  <2>1. Assembly!deltas_for(name) = args.window[name]
    BY <1>1 DEF Assembly!deltas_for
  <2>2. args.window[name] \in Seq(Int)
    BY <1>1 DEF Assembly!AssemblyAssumption
  <2>3. QED
    BY <1>1, <2>1, <2>2
<1>2. CASE ~(name \in DOMAIN args.window /\ args.window[name] # <<>>)
  <2>1. Assembly!deltas_for(name) = <<0>>
    BY <1>2 DEF Assembly!deltas_for
  <2>2. QED
    BY <2>1
<1>3. QED
  BY <1>1, <1>2

LEMMA StepsInEpisode ==
    ASSUME Assembly!AssemblyAssumption, args \in Arguments, NEW name, NEW g,
           \E k \in DOMAIN Episodes : g \in Assembly!Within(Episodes[k])
    PROVE  \E k \in DOMAIN Episodes : \A z \in DOMAIN Assembly!deltas_for(name) :
               Assembly!StepsAt(name, g)[z] \in Assembly!Within(Episodes[k])
<1> DEFINE k == Assembly!EpisodeOfFrame(g)
           e == Episodes[k]
           d == Assembly!deltas_for(name)
<1>1. \A m \in DOMAIN Episodes : Episodes[m].from \in Nat /\ Episodes[m].to \in Nat
  <2> DEFINE R == [from : Nat, to : Nat]
  <2>1. Episodes \in Seq(R)
    BY DEF Assembly!AssemblyAssumption
  <2>2. \A m \in DOMAIN Episodes : Episodes[m] \in R
    <3> HIDE DEF R
    <3> QED BY <2>1
  <2>3. QED
    BY <2>2
<1>2. k \in DOMAIN Episodes /\ e.from <= g /\ g < e.to /\ g \in Int
  <2>1. PICK m \in DOMAIN Episodes : g \in Assembly!Within(Episodes[m])
    OBVIOUS
  <2>2. Episodes[m].from <= g /\ g < Episodes[m].to /\ g \in Int
    BY <1>1, <2>1 DEF Assembly!Within
  <2>3. QED
    BY <2>2 DEF Assembly!EpisodeOfFrame
<1>3. Assembly!StepsAt(name, g) =
        [z \in DOMAIN d |-> IF g + d[z] < e.from THEN e.from
                            ELSE IF g + d[z] > e.to - 1 THEN e.to - 1 ELSE g + d[z]]
  BY DEF Assembly!StepsAt
<1>4. \A z \in DOMAIN d : d[z] \in Int
  BY WindowSteps
<1>5. Assembly!Within(e) = e.from .. e.to - 1
  BY DEF Assembly!Within
<1> HIDE DEF k, d
<1>6. ASSUME NEW z \in DOMAIN d PROVE Assembly!StepsAt(name, g)[z] \in Assembly!Within(e)
  <2>1. d[z] \in Int /\ e.from \in Int /\ e.to \in Int
    BY <1>1, <1>2, <1>4
  <2>2. QED
    BY <1>2, <1>3, <1>5, <2>1
<1>7. QED
  BY <1>2, <1>6 DEF d

(* A vector for each step of the window. *)
LEMMA VectorsAre ==
    ASSUME Assembly!AssemblyAssumption, args \in Arguments, NEW f \in Assembly!Features, NEW job
    PROVE  \E V : \A g : (\E k \in DOMAIN Episodes : g \in Assembly!Within(Episodes[k])) =>
              /\ Assembly!Vectors(f, g) \in Seq(Seq(V))
              /\ Len(Assembly!Vectors(f, g)) = Len(Assembly!deltas_for(f))
<1> DEFINE W(h) == Assembly!Normalized(f, FeatureData[f][h])
           Whole == UNION {Assembly!Within(Episodes[k]) : k \in DOMAIN Episodes}
           V == UNION {{W(h)[m] : m \in DOMAIN W(h)} : h \in Whole}
           d == Assembly!deltas_for(f)
<1>1. ASSUME NEW h \in Whole PROVE W(h) \in Seq(V)
  <2> DEFINE v == FeatureData[f][h]
  <2>1. v \in Seq(Int)
    BY DEF Assembly!AssemblyAssumption, Assembly!Features
  <2>2. W(h) = [m \in 1 .. Len(v) |-> W(h)[m]] /\ DOMAIN W(h) = 1 .. Len(v)
    <3>1. DOMAIN v = 1 .. Len(v) /\ v = [m \in 1 .. Len(v) |-> v[m]]
      BY <2>1
    <3> HIDE DEF v
    <3>2. Assembly!Normalized(f, v) = [m \in 1 .. Len(v) |-> Assembly!Normalized(f, v)[m]]
          /\ DOMAIN Assembly!Normalized(f, v) = 1 .. Len(v)
      BY <3>1 DEF Assembly!Normalized
    <3>3. QED
      BY <3>2 DEF v
  <2>3. \A m \in DOMAIN W(h) : W(h)[m] \in V
    OBVIOUS
  <2>4. Len(v) \in Nat
    BY <2>1
  <2> HIDE DEF W, V, v
  <2>5. W(h) \in [1 .. Len(v) -> V]
    BY <2>2, <2>3
  <2>6. QED
    BY <2>4, <2>5
<1> HIDE DEF V
<1>2. ASSUME NEW g, \E k \in DOMAIN Episodes : g \in Assembly!Within(Episodes[k])
      PROVE  /\ Assembly!Vectors(f, g) \in Seq(Seq(V))
             /\ Len(Assembly!Vectors(f, g)) = Len(d)
  <2>1. Assembly!Vectors(f, g) = [z \in DOMAIN d |-> W(Assembly!StepsAt(f, g)[z])]
    BY DEF Assembly!Vectors
  <2>2. \A z \in DOMAIN d : Assembly!StepsAt(f, g)[z] \in Whole
    <3>1. PICK k \in DOMAIN Episodes : \A z \in DOMAIN d :
             Assembly!StepsAt(f, g)[z] \in Assembly!Within(Episodes[k])
      BY <1>2, StepsInEpisode
    <3>2. QED
      BY <3>1
  <2>3. Len(d) \in Nat /\ DOMAIN d = 1 .. Len(d)
    BY WindowSteps
  <2> HIDE DEF W, Whole, d
  <2>4. Assembly!Vectors(f, g) \in [1 .. Len(d) -> Seq(V)]
    BY <1>1, <2>1, <2>2, <2>3
  <2>5. QED
    BY <2>3, <2>4
<1>3. QED
  BY <1>2

LEMMA FlattenTyped ==
    ASSUME NEW S, NEW s \in Seq(Seq(S))
    PROVE  Assembly!FlattenSeq(s) \in Seq(S)
<1> DEFINE n == Len(s)
<1>1. n \in Nat /\ n \in 0 .. n /\ \A k \in 1 .. n : s[k] \in Seq(S)
  OBVIOUS
<1>2. PICK f : Joins(f, s, n) /\ Assembly!FlattenSeq(s) = f[n]
  BY FlattenIs
<1> HIDE DEF n
<1>3. \A k \in 0 .. n : f[k] \in Seq(S)
  BY <1>1, <1>2, JoinsTyped
<1>4. QED
  BY <1>1, <1>2, <1>3

LEMMA FlattenConcat ==
    ASSUME NEW S, NEW r \in Seq(Seq(S)), NEW t \in Seq(Seq(S))
    PROVE  Assembly!FlattenSeq(r \o t) = Assembly!FlattenSeq(r) \o Assembly!FlattenSeq(t)
<1> DEFINE a == Len(r)
           b == Len(t)
           s == r \o t
<1>1. a \in Nat /\ b \in Nat /\ \A k \in 1 .. b : t[k] \in Seq(S)
  OBVIOUS
<1>2. /\ s \in Seq(Seq(S)) /\ Len(s) = a + b
      /\ \A k \in 1 .. a : s[k] = r[k]
      /\ \A k \in 1 .. b : s[a + k] = t[k]
  BY ConcatPlaces
<1>3. PICK e : Joins(e, r, a) /\ Assembly!FlattenSeq(r) = e[a]
  BY FlattenIs
<1>4. PICK h : Joins(h, t, b) /\ Assembly!FlattenSeq(t) = h[b]
  BY FlattenIs
<1> HIDE DEF s
<1>5. PICK f : Joins(f, s, Len(s)) /\ Assembly!FlattenSeq(s) = f[Len(s)]
  BY <1>2, FlattenIs
<1> HIDE DEF a, b
<1>6. Joins(f, s, a + b) /\ Assembly!FlattenSeq(s) = f[a + b]
  BY <1>2, <1>5
<1>7. a + b \in Nat /\ RowsIn(s, a + b, S) /\ Follows(t, s, a, b) /\ Follows(r, s, 0, a)
  <2>1. \A k \in 1 .. Len(s) : s[k] \in Seq(S)
    BY <1>2
  <2>2. \A k \in 1 .. a : 0 + k = k
    BY <1>1
  <2>3. QED
    BY <1>1, <1>2, <2>1, <2>2 DEF RowsIn, Follows
<1>8. f[a + b] = f[a] \o h[b]
  <2>1. GoesOn(f, a + b, a, h, b)
    BY <1>1, <1>4, <1>6, <1>7, JoinsAfter
  <2>2. QED
    BY <2>1 DEF GoesOn
<1>9. f[a] = e[a]
  <2>1. a <= a + b /\ a \in 0 .. a
    BY <1>1
  <2>2. \A k \in 0 .. a : f[k] = e[k]
    BY <1>1, <1>3, <1>6, <1>7, <2>1, JoinsBegin
  <2>3. QED
    BY <2>1, <2>2
<1>10. QED
  BY <1>3, <1>4, <1>6, <1>8, <1>9 DEF s

(* Joining what was joined is joining all. *)
LEMMA FlattenTwice ==
    ASSUME NEW S, NEW ss \in Seq(Seq(Seq(S)))
    PROVE  Assembly!FlattenSeq(Assembly!FlattenSeq(ss)) =
           Assembly!FlattenSeq([k \in DOMAIN ss |-> Assembly!FlattenSeq(ss[k])])
<1> DEFINE n == Len(ss)
           t == [k \in DOMAIN ss |-> Assembly!FlattenSeq(ss[k])]
<1>1. n \in Nat /\ DOMAIN ss = 1 .. n /\ \A k \in 1 .. n : ss[k] \in Seq(Seq(S))
  OBVIOUS
<1>2. \A k \in 1 .. n : t[k] = Assembly!FlattenSeq(ss[k]) /\ t[k] \in Seq(S)
  BY <1>1, FlattenTyped
<1>3. t \in Seq(Seq(S)) /\ Len(t) = n
  <2>1. t \in [1 .. n -> Seq(S)]
    BY <1>1, <1>2
  <2>2. QED
    BY <1>1, <2>1
<1>4. PICK f : Joins(f, ss, n) /\ Assembly!FlattenSeq(ss) = f[n]
  BY FlattenIs
<1> HIDE DEF t
<1>5. PICK g : Joins(g, t, Len(t)) /\ Assembly!FlattenSeq(t) = g[Len(t)]
  BY <1>3, FlattenIs
<1> HIDE DEF n
<1> DEFINE P == {k \in 0 .. n : Assembly!FlattenSeq(f[k]) = g[k]}
<1>6. /\ f[0] = <<>> /\ g[0] = <<>>
      /\ \A k \in 0 .. n - 1 : f[k + 1] = f[k] \o ss[k + 1] /\ k + 1 \in 1 .. n
      /\ \A k \in 0 .. n - 1 : g[k + 1] = g[k] \o t[k + 1]
  <2>1. JoinsOn(f, ss, n)
    BY <1>1, <1>4, JoinsStep
  <2>2. JoinsOn(g, t, n)
    BY <1>1, <1>3, <1>5, JoinsStep
  <2>3. QED
    BY <2>1, <2>2 DEF JoinsOn
<1>7. \A k \in 0 .. n : f[k] \in Seq(Seq(S))
  BY <1>1, <1>4, JoinsTyped
<1>8. 0 \in P
  <2>1. Assembly!FlattenSeq(<<>>) = <<>>
    BY DEF Assembly!FlattenSeq
  <2>2. 0 \in 0 .. n
    BY <1>1
  <2>3. QED
    BY <1>6, <2>1, <2>2
<1>9. ASSUME NEW k \in 0 .. n - 1, k \in P PROVE k + 1 \in P
  <2>1. k \in 0 .. n /\ k + 1 \in 0 .. n /\ k + 1 \in 1 .. n
    BY <1>1
  <2>2. f[k] \in Seq(Seq(S)) /\ ss[k + 1] \in Seq(Seq(S))
    BY <1>1, <1>7, <2>1
  <2>3. Assembly!FlattenSeq(f[k] \o ss[k + 1]) =
        Assembly!FlattenSeq(f[k]) \o Assembly!FlattenSeq(ss[k + 1])
    BY <2>2, FlattenConcat
  <2>4. Assembly!FlattenSeq(f[k + 1]) = g[k + 1]
    BY <1>2, <1>6, <1>9, <2>1, <2>3
  <2>5. QED
    BY <2>1, <2>4
<1> HIDE DEF P
<1>10. \A k \in 0 .. n : k \in P
  BY <1>1, <1>8, <1>9, InductionTo
<1>11. n \in 0 .. n
  BY <1>1
<1>12. Assembly!FlattenSeq(f[n]) = g[n]
  BY <1>10, <1>11 DEF P
<1>13. QED
  BY <1>3, <1>4, <1>5, <1>12 DEF t

(* Sequences of one length. *)
LEMMA FlattenLength ==
    ASSUME NEW S, NEW s \in Seq(Seq(S)), NEW l \in Nat, \A k \in DOMAIN s : Len(s[k]) = l
    PROVE  Len(Assembly!FlattenSeq(s)) = Len(s) * l
<1> DEFINE n == Len(s)
<1>1. n \in Nat /\ \A k \in 1 .. n : s[k] \in Seq(S) /\ Len(s[k]) = l
  OBVIOUS
<1>2. PICK f : Joins(f, s, n) /\ Assembly!FlattenSeq(s) = f[n]
  BY FlattenIs
<1> HIDE DEF n
<1>3. Len(f[n]) = n * l
  BY <1>1, <1>2, JoinsLength
<1>4. QED
  BY <1>2, <1>3 DEF n
LEMMA AtLeastOneEach == ASSUME NEW n \in Nat, NEW l \in Nat, n >= 1, l >= 1 PROVE n * l >= 1
<1>1. n * l >= n * 1
  OBVIOUS
<1>2. QED
  BY <1>1

(* A batch has frames of episodes. *)
IsJob(job) ==
    /\ job \in Seq(Nat) /\ job # <<>>
    /\ \A m \in 1 .. Len(job) : \E k \in DOMAIN Episodes : job[m] \in Assembly!Within(Episodes[k])

VectorsOf(f, job) == [m \in DOMAIN job |-> Assembly!Vectors(f, job[m])]

LEMMA VectorsOfJob ==
    ASSUME Assembly!AssemblyAssumption, args \in Arguments, NEW f \in Assembly!Features,
           NEW job, IsJob(job)
    PROVE  \E V : /\ VectorsOf(f, job) \in Seq(Seq(Seq(V)))
                  /\ Len(VectorsOf(f, job)) = Len(job)
                  /\ \A m \in DOMAIN VectorsOf(f, job) :
                        Len(VectorsOf(f, job)[m]) = Len(Assembly!deltas_for(f))
<1> DEFINE v == VectorsOf(f, job)
           n == Len(job)
           l == Len(Assembly!deltas_for(f))
<1>1. PICK V : \A g : (\E k \in DOMAIN Episodes : g \in Assembly!Within(Episodes[k])) =>
              /\ Assembly!Vectors(f, g) \in Seq(Seq(V))
              /\ Len(Assembly!Vectors(f, g)) = l
  BY VectorsAre
<1>2. /\ n \in Nat /\ DOMAIN job = 1 .. n
      /\ \A m \in 1 .. n : \E k \in DOMAIN Episodes : job[m] \in Assembly!Within(Episodes[k])
  BY DEF IsJob
<1>3. v = [m \in 1 .. n |-> Assembly!Vectors(f, job[m])]
  BY <1>2 DEF VectorsOf
<1> HIDE DEF v, n, l
<1>4. \A m \in 1 .. n : v[m] \in Seq(Seq(V)) /\ Len(v[m]) = l
  BY <1>1, <1>2, <1>3
<1>5. v \in [1 .. n -> Seq(Seq(V))]
  BY <1>3, <1>4
<1>6. v \in Seq(Seq(Seq(V))) /\ Len(v) = n /\ DOMAIN v = 1 .. n
  BY <1>2, <1>5
<1>7. QED
  BY <1>4, <1>6 DEF v, n, l

(* Row by row or all at once: the same values. *)
LEMMA SameBlock ==
    ASSUME Assembly!AssemblyAssumption, args \in Arguments, NEW f \in Assembly!Features,
           NEW job, IsJob(job)
    PROVE  Assembly!WorkerBlock(f, job) = Assembly!Block(f, job)
<1> DEFINE v == VectorsOf(f, job)
           row(m) == Assembly!FlattenSeq([z \in DOMAIN Assembly!deltas_for(f) |->
                                            Assembly!Vectors(f, job[m])[z]])
<1>1. PICK V : v \in Seq(Seq(Seq(V)))
  BY VectorsOfJob
<1>2. Assembly!AllVectors(f, job) = Assembly!FlattenSeq(v)
  BY DEF Assembly!AllVectors, VectorsOf
<1>3. ASSUME NEW m \in DOMAIN job PROVE row(m) = Assembly!FlattenSeq(v[m])
  <2>1. v[m] = Assembly!Vectors(f, job[m])
    BY DEF VectorsOf
  <2>2. [z \in DOMAIN Assembly!deltas_for(f) |-> Assembly!Vectors(f, job[m])[z]]
          = Assembly!Vectors(f, job[m])
    BY DEF Assembly!Vectors
  <2>3. QED
    BY <2>1, <2>2
<1>4. DOMAIN v = DOMAIN job
  BY DEF VectorsOf
<1>5. [m \in DOMAIN job |-> row(m)] = [m \in DOMAIN v |-> Assembly!FlattenSeq(v[m])]
  BY <1>3, <1>4
<1>6. Assembly!WorkerBlock(f, job) =
        [shape |-> Assembly!ShapeOf(f, job),
         data |-> Assembly!FlattenSeq([m \in DOMAIN job |-> row(m)])]
  BY DEF Assembly!WorkerBlock
<1>7. Assembly!Block(f, job) =
        [shape |-> Assembly!ShapeOf(f, job),
         data |-> Assembly!FlattenSeq(Assembly!FlattenSeq(v))]
  BY <1>2 DEF Assembly!Block
<1> HIDE DEF v, row
<1>8. Assembly!FlattenSeq(Assembly!FlattenSeq(v)) =
        Assembly!FlattenSeq([m \in DOMAIN v |-> Assembly!FlattenSeq(v[m])])
  BY <1>1, FlattenTwice
<1>9. QED
  BY <1>5, <1>6, <1>7, <1>8

(* Vectors of one length fill the shape. *)
LEMMA EvenFits ==
    ASSUME Assembly!AssemblyAssumption, args \in Arguments, NEW f \in Assembly!Features,
           NEW job, IsJob(job), ~Assembly!Ragged(f, job)
    PROVE  Assembly!Fits(Assembly!Block(f, job))
<1> DEFINE v == VectorsOf(f, job)
           all == Assembly!AllVectors(f, job)
           n == Len(job)
           l == Len(Assembly!deltas_for(f))
           d == Assembly!Dim(f, job)
           data == Assembly!FlattenSeq(all)
<1>1. PICK V : v \in Seq(Seq(Seq(V))) /\ Len(v) = n /\ \A m \in DOMAIN v : Len(v[m]) = l
  BY VectorsOfJob
<1>2. all = Assembly!FlattenSeq(v)
  BY DEF Assembly!AllVectors, VectorsOf
<1>3. l \in Nat /\ l >= 1
  BY WindowSteps
<1>4. n \in Nat /\ n >= 1
  <2>1. job \in Seq(Nat) /\ job # <<>>
    BY DEF IsJob
  <2>2. QED
    BY <2>1
<1>5. \A x \in DOMAIN all : Len(all[x]) = d
  BY DEF Assembly!Ragged, Assembly!Range
<1>6. d = Len(all[1])
  BY DEF Assembly!Dim
<1>7. args.window = Assembly!NoWindow => l = 1
  <2> SUFFICES ASSUME args.window = Assembly!NoWindow PROVE l = 1
    OBVIOUS
  <2>1. \A name \in DOMAIN args.window : args.window[name] = <<>>
    BY DEF Assembly!NoWindow
  <2>2. Assembly!deltas_for(f) = <<0>>
    BY <2>1 DEF Assembly!deltas_for
  <2>3. QED
    BY <2>2
<1>8. Assembly!Block(f, job) =
        [shape |-> IF args.window = Assembly!NoWindow THEN <<n, d>> ELSE <<n, l, d>>,
         data |-> data]
  BY DEF Assembly!Block, Assembly!ShapeOf
<1> HIDE DEF v, all, n, l, d, data
<1>9. all \in Seq(Seq(V)) /\ Len(all) = n * l
  BY <1>1, <1>2, <1>3, FlattenTyped, FlattenLength
<1>10. 1 \in DOMAIN all
  <2>1. n * l >= 1
    BY <1>3, <1>4, AtLeastOneEach
  <2>2. QED
    BY <1>3, <1>4, <1>9, <2>1
<1>11. d \in Nat
  BY <1>6, <1>9, <1>10
<1>12. Len(data) = (n * l) * d
  BY <1>5, <1>9, <1>11, FlattenLength DEF data
<1>13. CASE args.window = Assembly!NoWindow
  <2>1. Len(data) = n * d
    BY <1>4, <1>7, <1>12, <1>13
  <2>2. QED
    BY <1>8, <1>13, <2>1 DEF Assembly!Fits
<1>14. CASE args.window # Assembly!NoWindow
  BY <1>8, <1>12, <1>14 DEF Assembly!Fits
<1>15. QED
  BY <1>13, <1>14

(* Neither path refused the arguments. *)
Accepted == \A p \in Assembly!Paths : ~Assembly!Refused(p)

(* Where they are meant to agree, the paths do. *)
LEMMA PathsAgree ==
    ASSUME Assembly!AssemblyAssumption, args \in Arguments, Accepted, NEW job, IsJob(job),
           args.cameras = {} \/ (args.window = Assembly!NoWindow /\ args.buffer = "owned"),
           \A f \in Assembly!Features : ~Assembly!Ragged(f, job)
    PROVE  Assembly!SyncBatch(job) = Assembly!WorkerBatch(job)
<1> DEFINE F == Assembly!Features
           Unseen == \E c \in args.cameras : \E m \in DOMAIN job : ~Assembly!Recorded(c, job[m])
           Mixed == \E c \in args.cameras : Assembly!Inconsistent(c, job)
           Same == Assembly!Batch([f \in F |-> Assembly!Block(f, job)], <<>>, job,
                                  [c \in args.cameras |-> Assembly!WorkerStack(c, job)])
<1>1. ~args.goal /\ args.output # "numpy_zerocopy"
  BY DEF Accepted, Assembly!Refused, Assembly!Paths
<1>2. \A c \in args.cameras : Assembly!Shown(c, job) = job
  BY DEF Assembly!Shown
<1>3. Assembly!SyncBatch(job) =
        IF Unseen \/ Mixed \/ ~Assembly!Convertible THEN Assembly!Error ELSE Same
  <2>1. \A c \in args.cameras : Assembly!Stack(c, job) = Assembly!WorkerStack(c, job)
    <3> SUFFICES ASSUME NEW c \in args.cameras
                 PROVE  Assembly!Stack(c, job) = Assembly!WorkerStack(c, job)
      OBVIOUS
    <3>1. args.window = Assembly!NoWindow
      OBVIOUS
    <3>2. QED
      BY <1>1, <1>2, <3>1 DEF Assembly!Stack, Assembly!WorkerStack
  <2>2. [c \in args.cameras |-> Assembly!Stack(c, job)] =
        [c \in args.cameras |-> Assembly!WorkerStack(c, job)]
    BY <2>1
  <2>3. (\E c \in args.cameras : \E g \in Assembly!Range(Assembly!Shown(c, job)) :
             ~Assembly!Recorded(c, g)) <=> Unseen
    BY <1>2 DEF Assembly!Range
  <2>4. (\E c \in args.cameras : Assembly!Inconsistent(c, Assembly!Shown(c, job))) <=> Mixed
    BY <1>2
  <2> HIDE DEF Unseen, Mixed
  <2>5. QED
    BY <1>1, <2>2, <2>3, <2>4 DEF Assembly!SyncBatch
<1>4. Assembly!WorkerBatch(job) =
        IF Unseen \/ Mixed \/ ~Assembly!Convertible THEN Assembly!Error ELSE Same
  <2>1. ~(args.cameras # {} /\ args.buffer = "none")
        /\ ~(args.cameras # {} /\ args.buffer = "iosurface" /\ ~Assembly!Missing(job[1]))
    OBVIOUS
  <2>2. (\E g \in Assembly!Range(job) : Assembly!Missing(g)) <=> Unseen
    BY DEF Assembly!Range, Assembly!Missing
  <2>3. \A f \in F : Assembly!WorkerBlock(f, job) = Assembly!Block(f, job)
    BY SameBlock
  <2>4. \A f \in F : Assembly!Fits(Assembly!WorkerBlock(f, job))
    BY <2>3, EvenFits
  <2>5. [f \in F |-> Assembly!WorkerBlock(f, job)] = [f \in F |-> Assembly!Block(f, job)]
    BY <2>3
  <2> HIDE DEF Unseen, Mixed, F
  <2>6. QED
    BY <2>1, <2>2, <2>4, <2>5 DEF Assembly!WorkerBatch, Mixed, F
<1>5. QED
  BY <1>3, <1>4

AnswerOf(p, job) == IF p = "sync" THEN Assembly!SyncBatch(job) ELSE Assembly!WorkerBatch(job)

(* What the calls answered so far. *)
AssemblyInv ==
    /\ args \in Arguments
    /\ \A p \in Assembly!Paths :
          /\ made[p] = "yes" => ~Assembly!Refused(p)
          /\ Len(built[p]) \in 0 .. Len(Jobs) /\ DOMAIN built[p] = 1 .. Len(built[p])
          /\ \A k \in 1 .. Len(built[p]) : built[p][k] = AnswerOf(p, Jobs[k])
          /\ \E S : built[p] \in Seq(S)
    /\ DOMAIN made = Assembly!Paths /\ DOMAIN built = Assembly!Paths

LEMMA AnswersKept ==
    ASSUME args' = args
    PROVE  /\ \A p : (Assembly!Refused(p))' = Assembly!Refused(p)
           /\ \A p, job : (AnswerOf(p, job))' = AnswerOf(p, job)
<1>1. \A name : (Assembly!deltas_for(name))' = Assembly!deltas_for(name)
  BY DEF Assembly!deltas_for
<1>2. \A f, v : (Assembly!Normalized(f, v))' = Assembly!Normalized(f, v)
  BY DEF Assembly!Normalized
<1>3. \A name, g : (Assembly!StepsAt(name, g))' = Assembly!StepsAt(name, g)
  BY <1>1 DEF Assembly!StepsAt
<1>4. \A f, g : (Assembly!Vectors(f, g))' = Assembly!Vectors(f, g)
  BY <1>1, <1>2, <1>3 DEF Assembly!Vectors
<1>5. \A f, job : (Assembly!AllVectors(f, job))' = Assembly!AllVectors(f, job)
  BY <1>4 DEF Assembly!AllVectors
<1>6. \A f, job : (Assembly!Dim(f, job))' = Assembly!Dim(f, job)
  BY <1>5 DEF Assembly!Dim
<1>7. \A f, job : (Assembly!ShapeOf(f, job))' = Assembly!ShapeOf(f, job)
  BY <1>6, <1>1 DEF Assembly!ShapeOf
<1>8. \A f, job : (Assembly!Block(f, job))' = Assembly!Block(f, job)
  BY <1>7, <1>5 DEF Assembly!Block
<1>9. \A f, job : (Assembly!Ragged(f, job))' = Assembly!Ragged(f, job)
  BY <1>5, <1>6 DEF Assembly!Ragged
<1>10. \A f, job : (Assembly!WorkerBlock(f, job))' = Assembly!WorkerBlock(f, job)
  BY <1>7, <1>1, <1>4 DEF Assembly!WorkerBlock
<1>11. \A block : (Assembly!Fits(block))' = Assembly!Fits(block)
  BY DEF Assembly!Fits
<1>12. \A c, job : (Assembly!Shown(c, job))' = Assembly!Shown(c, job)
  BY <1>3 DEF Assembly!Shown
<1>13. \A c, job : (Assembly!Stack(c, job))' = Assembly!Stack(c, job)
  BY <1>12, <1>1 DEF Assembly!Stack
<1>14. \A g : (Assembly!Missing(g))' = Assembly!Missing(g)
  BY DEF Assembly!Missing
<1>15. (Assembly!Convertible)' = Assembly!Convertible
  BY DEF Assembly!Convertible
<1>16. \A job : (Assembly!SyncBatch(job))' = Assembly!SyncBatch(job)
  BY <1>9, <1>12, <1>15, <1>8, <1>13
     DEF Assembly!SyncBatch, Assembly!GoalJob, Assembly!GoalOf, Assembly!Batch, Assembly!EpisodeColumn
<1>17. \A job : (Assembly!WorkerBatch(job))' = Assembly!WorkerBatch(job)
  BY <1>14, <1>11, <1>15, <1>10
     DEF Assembly!WorkerBatch, Assembly!Batch, Assembly!EpisodeColumn
<1>18. \A p : (Assembly!Refused(p))' = Assembly!Refused(p)
  BY DEF Assembly!Refused, Assembly!Normalizable
<1>19. QED
  BY <1>16, <1>17, <1>18 DEF AnswerOf

(* A sequence and one more. *)
LEMMA OneMore ==
    ASSUME NEW S, NEW s \in Seq(S), NEW x
    PROVE  LET t == Append(s, x)
               n == Len(s)
           IN  /\ t \in Seq(S \cup {x}) /\ Len(t) = n + 1 /\ DOMAIN t = 1 .. n + 1
               /\ t[n + 1] = x /\ \A k \in 1 .. n : t[k] = s[k]
<1>1. s \in Seq(S \cup {x}) /\ x \in S \cup {x}
  OBVIOUS
<1> DEFINE T == S \cup {x}
<1> HIDE DEF T
<1>2. s \in Seq(T) /\ x \in T
  BY <1>1 DEF T
<1>3. LET t == Append(s, x)
          n == Len(s)
      IN  /\ t \in Seq(T) /\ Len(t) = n + 1 /\ DOMAIN t = 1 .. n + 1
          /\ t[n + 1] = x /\ \A k \in 1 .. n : t[k] = s[k]
  BY <1>2
<1>4. QED
  BY <1>3 DEF T

LEMMA BuildAnswers ==
    ASSUME Assembly!AssemblyAssumption, AssemblyInv, NEW p \in Assembly!Paths, Assembly!Build(p)
    PROVE  AssemblyInv'
<1> DEFINE n == Len(built[p])
           x == AnswerOf(p, Jobs[n + 1])
<1>1. args' = args /\ made' = made /\ n < Len(Jobs)
      /\ built' = [built EXCEPT ![p] = Append(built[p], x)]
  BY DEF Assembly!Build, AnswerOf
<1>2. PICK S : built[p] \in Seq(S)
  BY DEF AssemblyInv
<1> HIDE DEF x
<1>3. /\ Append(built[p], x) \in Seq(S \cup {x}) /\ Len(Append(built[p], x)) = n + 1
      /\ DOMAIN Append(built[p], x) = 1 .. n + 1
      /\ Append(built[p], x)[n + 1] = x
      /\ \A k \in 1 .. n : Append(built[p], x)[k] = built[p][k]
  BY <1>2, OneMore
<1>4. built'[p] = Append(built[p], x) /\ \A q \in Assembly!Paths : q # p => built'[q] = built[q]
  BY <1>1 DEF AssemblyInv
<1>5. n \in Nat /\ Len(Jobs) \in Nat
  <2>1. Jobs \in Seq(Seq(Nat))
    BY DEF Assembly!AssemblyAssumption
  <2>2. QED
    BY <1>2, <2>1
<1>6. /\ \A q : (Assembly!Refused(q))' = Assembly!Refused(q)
      /\ \A q, job : (AnswerOf(q, job))' = AnswerOf(q, job)
  BY <1>1, AnswersKept
<1>7. ASSUME NEW q \in Assembly!Paths
      PROVE  /\ made'[q] = "yes" => ~(Assembly!Refused(q))'
             /\ Len(built'[q]) \in 0 .. Len(Jobs) /\ DOMAIN built'[q] = 1 .. Len(built'[q])
             /\ \A k \in 1 .. Len(built'[q]) : built'[q][k] = (AnswerOf(q, Jobs[k]))'
             /\ \E Z : built'[q] \in Seq(Z)
  <2>1. made'[q] = "yes" => ~(Assembly!Refused(q))'
    BY <1>1, <1>6 DEF AssemblyInv
  <2>2. CASE q # p
    <3>1. built'[q] = built[q]
      BY <1>4, <2>2
    <3>2. QED
      BY <1>6, <2>1, <3>1 DEF AssemblyInv
  <2>3. CASE q = p
    <3> DEFINE b == built'[p]
    <3>1. /\ b \in Seq(S \cup {x}) /\ Len(b) = n + 1 /\ DOMAIN b = 1 .. n + 1
          /\ b[n + 1] = x /\ \A k \in 1 .. n : b[k] = built[p][k]
      BY <1>3, <1>4
    <3>2. \A k \in 1 .. n : built[p][k] = AnswerOf(p, Jobs[k])
      BY DEF AssemblyInv
    <3> HIDE DEF b, n
    <3>3. Len(b) \in 0 .. Len(Jobs)
      BY <1>1, <1>5, <3>1
    <3>4. \A k \in 1 .. n + 1 : b[k] = AnswerOf(p, Jobs[k])
      <4> SUFFICES ASSUME NEW k \in 1 .. n + 1 PROVE b[k] = AnswerOf(p, Jobs[k])
        OBVIOUS
      <4>1. k \in 1 .. n \/ k = n + 1
        BY <1>5
      <4>2. CASE k \in 1 .. n
        BY <3>1, <3>2, <4>2
      <4>3. CASE k = n + 1
        BY <3>1, <4>3 DEF x
      <4>4. QED
        BY <4>1, <4>2, <4>3
    <3>5. \A k \in 1 .. Len(b) : b[k] = (AnswerOf(p, Jobs[k]))'
      BY <1>6, <3>1, <3>4
    <3>6. QED
      BY <2>1, <2>3, <3>1, <3>3, <3>5 DEF b
  <2>4. QED
    BY <2>2, <2>3
<1>8. args' \in Arguments /\ DOMAIN made' = Assembly!Paths /\ DOMAIN built' = Assembly!Paths
  BY <1>1 DEF AssemblyInv
<1>9. QED
  BY <1>7, <1>8 DEF AssemblyInv

LEMMA AssemblyInvNext ==
    ASSUME Assembly!AssemblyAssumption, AssemblyInv,
           Assembly!Next \/ UNCHANGED assemblyVars
    PROVE  AssemblyInv'
<1>1. CASE UNCHANGED assemblyVars
  <2>1. args' = args /\ made' = made /\ built' = built
    BY <1>1 DEF assemblyVars
  <2>2. /\ \A q : (Assembly!Refused(q))' = Assembly!Refused(q)
        /\ \A q, job : (AnswerOf(q, job))' = AnswerOf(q, job)
    BY <2>1, AnswersKept
  <2>3. QED
    BY <2>1, <2>2 DEF AssemblyInv
<1>2. ASSUME NEW p \in Assembly!Paths, Assembly!Create(p) PROVE AssemblyInv'
  <2>1. args' = args /\ built' = built
        /\ made' = [made EXCEPT ![p] = IF Assembly!Refused(p) THEN "refused" ELSE "yes"]
    BY <1>2 DEF Assembly!Create
  <2>2. /\ \A q : (Assembly!Refused(q))' = Assembly!Refused(q)
        /\ \A q, job : (AnswerOf(q, job))' = AnswerOf(q, job)
    BY <2>1, AnswersKept
  <2>3. DOMAIN made' = Assembly!Paths /\ \A q \in Assembly!Paths : made'[q] = "yes" => ~Assembly!Refused(q)
    BY <2>1 DEF AssemblyInv
  <2>4. QED
    BY <2>1, <2>2, <2>3 DEF AssemblyInv
<1>3. ASSUME NEW p \in Assembly!Paths, Assembly!Build(p) PROVE AssemblyInv'
  BY <1>3, BuildAnswers
<1>4. CASE Assembly!Exhausted /\ UNCHANGED Assembly!assemblyVars
  BY <1>1, <1>4 DEF assemblyVars, Assembly!assemblyVars
<1>5. QED
  BY <1>1, <1>2, <1>3, <1>4 DEF Assembly!Next

LEMMA AssemblyInvGivesAgreement ==
    ASSUME Assembly!AssemblyAssumption, AssemblyInv
    PROVE  BatchesAgree
<1> SUFFICES ASSUME NEW k \in Assembly!Both, ~Assembly!KnownDifference(k)
             PROVE  built["sync"][k] = built["workers"][k]
  BY DEF BatchesAgree, Assembly!BatchesAgree
<1>1. made["sync"] = "yes" /\ made["workers"] = "yes"
      /\ k \in DOMAIN built["sync"] /\ k \in DOMAIN built["workers"]
  BY DEF Assembly!Both
<1>2. /\ Accepted /\ args \in Arguments
      /\ k \in 1 .. Len(built["sync"]) /\ k \in 1 .. Len(built["workers"])
      /\ Len(built["sync"]) \in 0 .. Len(Jobs)
      /\ built["sync"][k] = Assembly!SyncBatch(Jobs[k])
      /\ built["workers"][k] = Assembly!WorkerBatch(Jobs[k])
  BY <1>1 DEF AssemblyInv, Accepted, Assembly!Paths, AnswerOf
<1>3. Jobs \in Seq(Seq(Nat)) /\ k \in 1 .. Len(Jobs)
  <2>1. Jobs \in Seq(Seq(Nat))
    BY DEF Assembly!AssemblyAssumption
  <2>2. QED
    BY <1>2, <2>1
<1>4. IsJob(Jobs[k])
  <2>1. Jobs[k] \in Seq(Nat) /\ k \in DOMAIN Jobs
    BY <1>3
  <2>2. /\ Jobs[k] # <<>>
        /\ \A g \in Assembly!Range(Jobs[k]) :
              \E m \in DOMAIN Episodes : g \in Assembly!Within(Episodes[m])
    BY <2>1 DEF Assembly!AssemblyAssumption
  <2>3. \A m \in 1 .. Len(Jobs[k]) : Jobs[k][m] \in Assembly!Range(Jobs[k])
    BY <2>1 DEF Assembly!Range
  <2>4. QED
    BY <2>1, <2>2, <2>3 DEF IsJob
<1>5. /\ args.cameras = {} \/ (args.window = Assembly!NoWindow /\ args.buffer = "owned")
      /\ \A f \in Assembly!Features : ~Assembly!Ragged(f, Jobs[k])
  BY DEF Assembly!KnownDifference
<1>6. Assembly!SyncBatch(Jobs[k]) = Assembly!WorkerBatch(Jobs[k])
  BY <1>2, <1>4, <1>5, PathsAgree
<1>7. QED
  BY <1>2, <1>6

(* With workers or without, a loader yields the same batches, value by value and
   row by row, or fails on the same ones, except where KnownDifference says so
   (Loader.__next__, lib.rs, and BatchAssembler::assemble, pipeline.rs). *)
THEOREM LoadersAgree == ASSUME Assembly!AssemblyAssumption PROVE Spec => []BatchesAgree
<1>1. Init => AssemblyInv
  BY DEF Init, Assembly!Init, AssemblyInv
<1>2. AssemblyInv /\ [Next]_vars => AssemblyInv'
  BY Steps, AssemblyInvNext
<1>3. AssemblyInv => BatchesAgree
  BY AssemblyInvGivesAgreement
<1>4. QED
  BY <1>1, <1>2, <1>3, PTL DEF Spec

=============================================================================
