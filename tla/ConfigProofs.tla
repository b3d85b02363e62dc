----------------------------- MODULE ConfigProofs -----------------------------
(***************************************************************************)
(* Theorems about the configuration file and what a session is launched    *)
(* with.  ConfigFile, for any clients, directories, workspaces and bounds: *)
(* edits made from the file as it was are kept, the configuration in       *)
(* memory names nothing twice, and nobody ends in the container of another *)
(* directory unless one name has stood for two.  Launch, for any templates *)
(* and layers of mounts: a session has its own image and number, its       *)
(* mounts are accepted, and the login prepared for it is the one it has.   *)
(***************************************************************************)
EXTENDS ConfigFile, Launch, TLAPS, Facts

Blocks == Seq(Block)
File == [rest : BOOLEAN, blocks : Blocks]
Rules == [body : {"none", "own", "starter"}, template : Template \cup {None}]

(***************************************************************************)
(* The inductive invariant: types; what is known of a name that was chosen *)
(* and of a copy that is being written; and where blocks come from.        *)
(***************************************************************************)
State ==
  [at : {"start", "failed"}] \cup [at : {"matched", "added"}, block : Block]
    \cup [at : {"append"}, named : Blocks, block : Block]
    \cup [at : {"write"}, named : Blocks, block : Block, copy : File]
    \cup [at : {"ask"}, name : Name, expected : Rules]
    \cup [at : {"attached"}, dir : Dir]

LoopState ==
  [at : {"idle", "reload"}] \cup [at : {"read"}, named : Blocks, block : Block]
    \cup [at : {"write"}, named : Blocks, block : Block, copy : File]
    \cup [at : {"drop"}, name : Name]
    \cup [at : {"truncate", "fill"}, name : Name, copy : File]

History == [overtaken : BOOLEAN, kept : SUBSET Block, ever : SUBSET Block]

Types ==
  /\ file \in File /\ memory \in Blocks /\ sessions \in Blocks
  /\ rules \in [Dir -> Rules]
  /\ ws \in [Client -> State]
  /\ loop \in LoopState
  /\ history \in History

\* Every container has a client that was attached to it when it was started.
Attached == {c \in Client : ws[c].at = "attached"}

\* A new name is none of those it was chosen among.
Fresh ==
  /\ \A c \in Client : ws[c].at \in {"append", "write"} => ws[c].block.name \notin Names(ws[c].named)
  /\ loop.at \in {"read", "write"} => loop.block.name \notin Names(loop.named)

\* The file is what was added and not removed, and so is what will be written
\* into it after it was emptied, if nobody writes before.
NotOvertaken ==
  ~history.overtaken =>
    /\ loop.at # "fill" => Valid(file) /\ Range(file.blocks) = history.kept
    /\ loop.at = "fill" /\ file.blocks = <<>> =>
         /\ Valid(loop.copy)
         /\ {b \in Range(loop.copy.blocks) : b.name # loop.name} = history.kept

\* Whatever is in a file, a copy, the memory or a container was added once.
Known ==
  /\ Range(file.blocks) \cup Range(memory) \cup Range(sessions) \cup history.kept \subseteq history.ever
  /\ \A c \in Client : ws[c].at = "write" => Range(ws[c].copy.blocks) \subseteq history.ever
  /\ loop.at \in {"write", "truncate", "fill"} => Range(loop.copy.blocks) \subseteq history.ever

\* A client is about to get a workspace that its directory is in.
Asked(c) ==
  /\ ws[c].at \in {"append", "write"} => ws[c].block.dir = Cwd[c]
  /\ ws[c].at \in {"matched", "added"} =>
       ws[c].block \in history.ever /\ <<Cwd[c], ws[c].block.dir>> \in Within
  /\ ws[c].at = "ask" =>
       \E b \in history.ever : b.name = ws[c].name /\ <<Cwd[c], b.dir>> \in Within

Room == Len(sessions) <= Cardinality(Attached)

Inv ==
  /\ Types
  /\ MemoryIsSound
  /\ Room
  /\ Fresh
  /\ NotOvertaken
  /\ Known
  /\ \A c \in Client : Asked(c)
  /\ EndsWhereAsked

-----------------------------------------------------------------------------
(* Lists of workspaces *)

LEMMA ListedIs ==
  ASSUME NEW list \in Blocks, NEW i \in DOMAIN list
  PROVE  list[i] \in Block /\ list[i].name \in Name /\ list[i].dir \in Dir
<1>1. list[i] \in Block
  BY LenProperties, ElementOfSeq DEF Blocks
<1> QED BY <1>1 DEF Block

LEMMA LeastOf ==
  ASSUME NEW S \in SUBSET Nat, S # {}
  PROVE  Min(S) \in S /\ \A y \in S : Min(S) <= y
<1>1. \E x \in S : \A y \in S : x <= y
  BY LeastNumber
<1> QED BY <1>1 DEF Min

Distinct(list) == \A i, j \in DOMAIN list : list[i].name = list[j].name => i = j

\* A list names nothing twice just if it has as many names as workspaces.
LEMMA ManyNames ==
  ASSUME NEW list \in Blocks
  PROVE  /\ IsFiniteSet(Names(list)) /\ Cardinality(Names(list)) \in Nat
         /\ Cardinality(Names(list)) <= Len(list)
         /\ Cardinality(Names(list)) = Len(list) <=> Distinct(list)
<1> DEFINE f == [i \in 1 .. Len(list) |-> list[i].name]
<1>1. DOMAIN list = 1 .. Len(list) /\ Len(list) \in Nat
  BY DEF Blocks
<1>2. Range(f) = Names(list)
  BY <1>1 DEF Range, Names
<1>3. IsInjective(f) <=> Distinct(list)
  BY <1>1 DEF IsInjective, Distinct
<1>4. DOMAIN f = 1 .. Len(list) /\ f = [i \in 1 .. Len(list) |-> f[i]]
  OBVIOUS
<1> HIDE DEF f
<1> QED BY <1>1, <1>2, <1>3, <1>4, ManyValues

LEMMA FoundByName ==
  ASSUME NEW list \in Blocks, NEW name
  PROVE  /\ Find(list, name) \in Nat
         /\ Find(list, name) # 0 =>
              Find(list, name) \in DOMAIN list /\ list[Find(list, name)].name = name
<1>1. Places(list, name) \in SUBSET DOMAIN list /\ DOMAIN list \subseteq Nat \ {0}
  BY DEF Places, Blocks
<1>2. CASE Places(list, name) = {}
  BY <1>2 DEF Find
<1>3. CASE Places(list, name) # {}
  <2>1. Min(Places(list, name)) \in Places(list, name)
    BY <1>1, <1>3, LeastOf
  <2> QED BY <1>1, <1>3, <2>1 DEF Find, Places
<1> QED BY <1>2, <1>3

\* There is a number that none of the names has.
LEMMA DedupeIsNew ==
  ASSUME NEW list \in Blocks, NEW base \in {Base[d] : d \in Dir}
  PROVE  Dedupe(list, base) \in Name /\ Dedupe(list, base) \notin Names(list)
<1> DEFINE n == Len(list)
           f == [k \in 1 .. n + 1 |-> <<base, k>>]
           Free == {k \in 1 .. n + 1 : <<base, k>> \notin Names(list)}
<1>1. n \in Nat /\ n + 1 \in Nat
  BY DEF Blocks
<1>2. Free # {}
  <2> SUFFICES ASSUME Free = {} PROVE FALSE
    OBVIOUS
  <2>1. Range(f) \in SUBSET Names(list)
    BY DEF Range
  <2>2. IsInjective(f)
    BY DEF IsInjective
  <2>3. DOMAIN f = 1 .. n + 1 /\ f = [k \in 1 .. n + 1 |-> f[k]]
    OBVIOUS
  <2> HIDE DEF f
  <2>4. Cardinality(Range(f)) = n + 1
    BY <1>1, <2>2, <2>3, ManyValues
  <2>5. Cardinality(Range(f)) <= Cardinality(Names(list))
    BY <2>1, ManyNames, FS_Subset
  <2> QED BY <1>1, <2>4, <2>5, ManyNames
<1>3. Free \in SUBSET Nat
  BY <1>1
<1>4. Min(Free) \in Free
  BY <1>2, <1>3, LeastOf
<1>5. Dedupe(list, base) = <<base, Min(Free)>>
  BY DEF Dedupe
<1>6. Min(Free) \in Nat \ {0} /\ <<base, Min(Free)>> \notin Names(list)
  BY <1>1, <1>4
<1> HIDE DEF Free
<1> QED BY <1>5, <1>6 DEF Name

\* Of the workspaces a directory lies in there is a best one.
LEMMA BestIsMatch ==
  ASSUME NEW list \in Blocks, NEW dir \in Dir, Matching(list, dir) # {}
  PROVE  BestMatch(list, dir) \in Matching(list, dir)
<1> DEFINE M == Matching(list, dir)
           Deep == {Depth[list[i].dir] : i \in M}
<1>1. M \in SUBSET (0 .. Len(list)) /\ Len(list) \in Nat
  BY DEF Matching, Blocks
<1>2. \A i \in M : <<dir, list[i].dir>> \in Within
  BY DEF Matching
<1>3. \A i \in M : Depth[list[i].dir] \in Nat /\ Depth[dir] \in Nat /\ Depth[list[i].dir] <= Depth[dir]
  BY <1>2, ConfigAssumption
<1>4. Depth[dir] \in Nat /\ Deep \in SUBSET (0 .. Depth[dir]) /\ Deep # {}
  <2>1. \A i \in M : Depth[list[i].dir] \in 0 .. Depth[dir]
    BY <1>3
  <2>2. Depth[dir] \in Nat
    BY <1>3
  <2> QED BY <2>1, <2>2, Zenon
<1>5. (\A d \in Deep : \E i \in M : d = Depth[list[i].dir]) /\ \A i \in M : Depth[list[i].dir] \in Deep
  BY Zenon
<1> HIDE DEF Deep
<1>6. PICK most \in Deep : \A d \in Deep : d <= most
  BY <1>4, GreatestNumber
<1> DEFINE Top == {i \in M : Depth[list[i].dir] = most}
<1>7. Top \in SUBSET (0 .. Len(list)) /\ Top # {}
  BY <1>1, <1>5, <1>6
<1>8. PICK i \in Top : \A j \in Top : j <= i
  BY <1>1, <1>7, GreatestNumber
<1>9. i \in M /\ Depth[list[i].dir] = most
  OBVIOUS
<1>10. \A j \in M : Depth[list[j].dir] = most => j \in Top
  OBVIOUS
<1> HIDE DEF Top
<1>11. ASSUME NEW j \in M
       PROVE  \/ Depth[list[j].dir] < Depth[list[i].dir]
              \/ Depth[list[j].dir] = Depth[list[i].dir] /\ j <= i
  <2>1. CASE Depth[list[j].dir] = most
    BY <1>8, <1>9, <1>10, <2>1
  <2>2. CASE Depth[list[j].dir] # most
    <3>1. Depth[list[j].dir] <= most
      BY <1>5, <1>6
    <3>2. Depth[list[j].dir] \in Nat /\ most \in Nat
      BY <1>3, <1>4, <1>6
    <3> QED BY <1>9, <2>2, <3>1, <3>2
  <2> QED BY <2>1, <2>2
<1> QED BY <1>9, <1>11 DEF BestMatch

\* The members at some places are a list again, and no name comes twice in it
\* if none did.
LEMMA InPlacesIs ==
  ASSUME NEW list \in Blocks, NEW K \in SUBSET DOMAIN list
  PROVE  /\ InPlaces(list, K) \in Blocks
         /\ Range(InPlaces(list, K)) = {list[i] : i \in K}
         /\ Distinct(list) => Distinct(InPlaces(list, K))
<1> DEFINE k == Cardinality(K)
           order == CHOOSE f \in [1 .. Cardinality(K) -> K] :
                      \A i, j \in DOMAIN f : i < j => f[i] < f[j]
<1>1. DOMAIN list = 1 .. Len(list) /\ Len(list) \in Nat /\ \A i \in DOMAIN list : list[i] \in Block
  BY DEF Blocks
<1>2. k \in Nat /\ HasOrder(K)
  BY <1>1, InOrderOf
<1>3. \E f \in [1 .. k -> K] : \A i, j \in DOMAIN f : i < j => f[i] < f[j]
  BY <1>2 DEF HasOrder, Increasing
<1>4. order \in [1 .. k -> K] /\ \A i, j \in 1 .. k : i < j => order[i] < order[j]
  <2>1. order \in [1 .. k -> K] /\ \A i, j \in DOMAIN order : i < j => order[i] < order[j]
    BY <1>3
  <2> QED BY <2>1
<1>5. InPlaces(list, K) = [i \in 1 .. k |-> list[order[i]]]
  BY DEF InPlaces
<1> HIDE DEF order
<1>6. \A i \in 1 .. k : order[i] \in K /\ order[i] \in Int
  BY <1>1, <1>4
<1>7. \A i, j \in 1 .. k : order[i] = order[j] => i = j
  <2> SUFFICES ASSUME NEW i \in 1 .. k, NEW j \in 1 .. k, i < j
               PROVE  order[i] # order[j]
    BY <1>2
  <2> QED BY <1>4, <1>6
<1>8. Range(order) = K
  <2>1. IsInjective(order) /\ DOMAIN order = 1 .. k /\ order = [i \in 1 .. k |-> order[i]]
    BY <1>4, <1>7 DEF IsInjective
  <2>2. Cardinality(Range(order)) = k
    BY <1>2, <2>1, ManyValues
  <2>3. Range(order) \in SUBSET K
    BY <1>4 DEF Range
  <2>4. IsFiniteSet(K)
    <3>1. IsFiniteSet(1 .. Len(list))
      BY <1>1, FS_Interval
    <3> QED BY <1>1, <3>1, FS_Subset
  <2> QED BY <2>2, <2>3, <2>4, FS_Subset
<1>9. \A i \in K : \E j \in 1 .. k : order[j] = i
  BY <1>4, <1>8 DEF Range
<1> DEFINE new == [i \in 1 .. k |-> list[order[i]]]
<1>10. new \in Blocks
  BY <1>1, <1>2, <1>6 DEF Blocks
<1>11. Range(new) = {list[i] : i \in K}
  BY <1>6, <1>9 DEF Range
<1>12. ASSUME Distinct(list) PROVE Distinct(new)
  <2> SUFFICES ASSUME NEW i \in 1 .. k, NEW j \in 1 .. k, list[order[i]].name = list[order[j]].name
               PROVE  i = j
    BY DEF Distinct
  <2> QED BY <1>6, <1>7, <1>12 DEF Distinct
<1> QED BY <1>5, <1>10, <1>11, <1>12

LEMMA WithoutIs ==
  ASSUME NEW copy \in File, NEW name
  PROVE  /\ Without(copy, name) \in File
         /\ Without(copy, name).rest = copy.rest
         /\ Range(Without(copy, name).blocks) = {b \in Range(copy.blocks) : b.name # name}
         /\ Distinct(copy.blocks) => Distinct(Without(copy, name).blocks)
<1> DEFINE K == DOMAIN copy.blocks \ Places(copy.blocks, name)
<1>1. copy.blocks \in Blocks
  BY DEF File
<1>2. Without(copy, name) = [copy EXCEPT !.blocks = InPlaces(copy.blocks, K)]
  BY DEF Without
<1>3. {copy.blocks[i] : i \in K} = {b \in Range(copy.blocks) : b.name # name}
  BY DEF Range, Places
<1>4. K \in SUBSET DOMAIN copy.blocks
  OBVIOUS
<1> HIDE DEF K
<1>5. /\ InPlaces(copy.blocks, K) \in Blocks
      /\ Range(InPlaces(copy.blocks, K)) = {copy.blocks[i] : i \in K}
      /\ Distinct(copy.blocks) => Distinct(InPlaces(copy.blocks, K))
  BY <1>1, <1>4, InPlacesIs
<1> QED BY <1>2, <1>3, <1>5 DEF File

LEMMA WithIs ==
  ASSUME NEW copy \in File, NEW block \in Block
  PROVE  /\ With(copy, block) \in File
         /\ With(copy, block).rest = copy.rest
         /\ Range(With(copy, block).blocks) = Range(copy.blocks) \cup {block}
         /\ Distinct(copy.blocks) /\ block.name \notin Names(copy.blocks) =>
              Distinct(With(copy, block).blocks)
<1> DEFINE list == copy.blocks
           new == Append(list, block)
<1>1. list \in Blocks
  BY DEF File
<1>2. With(copy, block) = [copy EXCEPT !.blocks = new]
  BY DEF With
<1> HIDE DEF list
<1>3. new \in Blocks /\ Len(list) \in Nat /\ DOMAIN new = 1 .. Len(list) + 1
  BY <1>1 DEF Blocks
<1>4. DOMAIN list = 1 .. Len(list) /\ new[Len(list) + 1] = block /\ \A i \in 1 .. Len(list) : new[i] = list[i]
  BY <1>1 DEF Blocks
<1> HIDE DEF new
<1>5. \A i \in 1 .. Len(list) + 1 : i # Len(list) + 1 => i \in 1 .. Len(list)
  BY <1>3
<1>6. Range(new) = Range(list) \cup {block}
  BY <1>3, <1>4, <1>5 DEF Range
<1>7. Distinct(list) /\ block.name \notin Names(list) => Distinct(new)
  BY <1>3, <1>4, <1>5 DEF Distinct, Names
<1> QED BY <1>2, <1>3, <1>6, <1>7 DEF File, list

-----------------------------------------------------------------------------
(* Types *)

LEMMA StateFields ==
  ASSUME NEW s \in State
  PROVE  /\ s.at \in {"start", "matched", "append", "write", "added", "ask", "attached", "failed"}
         /\ s.at \in {"matched", "added", "append", "write"} => s.block \in Block
         /\ s.at \in {"append", "write"} => s.named \in Blocks
         /\ s.at = "write" => s.copy \in File
         /\ s.at = "ask" => s.name \in Name /\ s.expected \in Rules
         /\ s.at = "attached" => s.dir \in Dir
BY DEF State

LEMMA LoopFields ==
  ASSUME NEW s \in LoopState
  PROVE  /\ s.at \in {"idle", "read", "write", "drop", "truncate", "fill", "reload"}
         /\ s.at \in {"read", "write"} => s.named \in Blocks /\ s.block \in Block
         /\ s.at \in {"drop", "truncate", "fill"} => s.name \in Name
         /\ s.at \in {"write", "truncate", "fill"} => s.copy \in File
         /\ s.at = "truncate" => [s EXCEPT !.at = "fill"] \in LoopState
BY DEF LoopState

LEMMA AtIs ==
  ASSUME ws \in [Client -> State], NEW c \in Client, NEW s, At(c, s)
  PROVE  /\ s \in State => ws' \in [Client -> State]
         /\ ws'[c] = s
         /\ \A other \in Client : other # c => ws'[other] = ws[other]
BY DEF At

LEMMA RulesIfMissingType ==
  ASSUME rules \in [Dir -> Rules], NEW d \in Dir
  PROVE  RulesIfMissing(d) \in [Dir -> Rules]
<1>1. rules[d] \in Rules
  OBVIOUS
<1>2. [rules[d] EXCEPT !.body = "starter"] \in Rules
  BY <1>1 DEF Rules
<1> QED BY <1>2 DEF RulesIfMissing

LEMMA AddedType ==
  ASSUME history \in History, NEW copy, NEW named, NEW block \in Block
  PROVE  Added(copy, named, block) \in History
BY DEF Added, History

LEMMA ReloadType ==
  ASSUME file \in File, memory \in Blocks, Reload
  PROVE  memory' \in Blocks
BY DEF Reload, File

LEMMA TypesStay ==
  ASSUME Types, Next
  PROVE  Types'
<1> USE DEF Types
<1>1. ASSUME NEW c \in Client, Load(c)
      PROVE  Types'
  <2>1. file.blocks \in Blocks /\ Cwd[c] \in Dir
    BY ConfigAssumption DEF File
  <2>2. CASE ~Valid(file)
    <3>1. [at |-> "failed"] \in State
      BY DEF State
    <3> QED BY <1>1, <2>2, <3>1, AtIs DEF Load, Fail
  <2>3. CASE Valid(file) /\ Matching(file.blocks, Cwd[c]) # {}
    <3>1. file.blocks[BestMatch(file.blocks, Cwd[c])] \in Block
      BY <2>1, <2>3, BestIsMatch, ListedIs DEF Matching
    <3>2. [at |-> "matched", block |-> file.blocks[BestMatch(file.blocks, Cwd[c])]] \in State
      BY <3>1 DEF State
    <3> QED BY <1>1, <2>3, <3>2, AtIs DEF Load
  <2>4. CASE Valid(file) /\ Matching(file.blocks, Cwd[c]) = {}
    <3>1. Dedupe(file.blocks, Base[Cwd[c]]) \in Name
      BY <2>1, DedupeIsNew
    <3>2. [name |-> Dedupe(file.blocks, Base[Cwd[c]]), dir |-> Cwd[c]] \in Block
      BY <2>1, <3>1 DEF Block
    <3>3. [at |-> "append", named |-> file.blocks,
           block |-> [name |-> Dedupe(file.blocks, Base[Cwd[c]]), dir |-> Cwd[c]]] \in State
      BY <2>1, <3>2 DEF State
    <3> QED BY <1>1, <2>4, <3>3, AtIs DEF Load
  <2> QED BY <2>2, <2>3, <2>4
<1>2. ASSUME NEW c \in Client, Attach(c)
      PROVE  Types'
  <2>1. PICK i \in DOMAIN sessions : At(c, [at |-> "attached", dir |-> sessions[i].dir])
    BY <1>2 DEF Attach
  <2>2. sessions[i].dir \in Dir
    BY ListedIs
  <2>3. [at |-> "attached", dir |-> sessions[i].dir] \in State
    BY <2>2 DEF State
  <2> QED BY <1>2, <2>1, <2>3, AtIs DEF Attach
<1>3. ASSUME NEW c \in Client, Choose(c)
      PROVE  Types'
  <2>1. ws[c].block \in Block /\ ws[c].block.dir \in Dir /\ ws[c].block.name \in Name
    <3>1. ws[c] \in State /\ ws[c].at \in {"matched", "added"}
      BY <1>3 DEF Choose
    <3>2. ws[c].block \in Block
      BY <3>1, StateFields
    <3> QED BY <3>2 DEF Block
  <2>2. CASE Fail(c) /\ UNCHANGED rules
    <3>1. [at |-> "failed"] \in State
      BY DEF State
    <3> QED BY <1>3, <2>2, <3>1, AtIs DEF Choose, Fail
  <2>3. CASE ~(Fail(c) /\ UNCHANGED rules)
    <3> DEFINE d == ws[c].block.dir
               chosen(t) == [RulesIfMissing(d) EXCEPT ![d].template = t]
    <3>1. PICK t \in Template, remembered \in BOOLEAN :
            /\ rules' = IF remembered THEN rules ELSE chosen(t)
            /\ At(c, [at |-> "ask", name |-> ws[c].block.name,
                      expected |-> IF remembered THEN NoRules ELSE rules'[d]])
      BY <1>3, <2>3 DEF Choose
    <3>2. chosen(t) \in [Dir -> Rules]
      <4>1. RulesIfMissing(d) \in [Dir -> Rules]
        BY <2>1, RulesIfMissingType
      <4>2. [RulesIfMissing(d)[d] EXCEPT !.template = t] \in Rules
        BY <2>1, <4>1 DEF Rules
      <4> QED BY <4>1, <4>2
    <3>3. rules' \in [Dir -> Rules] /\ NoRules \in Rules /\ rules'[d] \in Rules
      BY <2>1, <3>1, <3>2 DEF NoRules, Rules
    <3>4. [at |-> "ask", name |-> ws[c].block.name,
           expected |-> IF remembered THEN NoRules ELSE rules'[d]] \in State
      BY <2>1, <3>3 DEF State
    <3> QED BY <1>3, <3>1, <3>3, <3>4, AtIs DEF Choose
  <2> QED BY <2>2, <2>3
<1>4. ASSUME NEW c \in Client, ReadToAppend(c)
      PROVE  Types'
  <2>1. ws[c] \in State /\ ws[c].at = "append" /\ Cwd[c] \in Dir
    BY <1>4, ConfigAssumption DEF ReadToAppend
  <2>2. ws[c].block \in Block /\ ws[c].named \in Blocks
    BY <2>1, StateFields
  <2>3. [at |-> "write", copy |-> file, named |-> ws[c].named, block |-> ws[c].block] \in State
    BY <2>2 DEF State
  <2> QED BY <1>4, <2>1, <2>3, AtIs, RulesIfMissingType DEF ReadToAppend
<1>5. ASSUME NEW c \in Client, WriteAppended(c)
      PROVE  Types'
  <2>1. ws[c] \in State /\ ws[c].at = "write"
    BY <1>5 DEF WriteAppended
  <2>2. ws[c].block \in Block /\ ws[c].copy \in File
    BY <2>1, StateFields
  <2>3. [at |-> "added", block |-> ws[c].block] \in State
    BY <2>2 DEF State
  <2> QED BY <1>5, <2>2, <2>3, AtIs, WithIs, AddedType DEF WriteAppended
<1>6. ASSUME NEW c \in Client, TakeLaunch(c)
      PROVE  Types'
  <2> DEFINE i == Find(file.blocks, ws[c].name)
             d == file.blocks[i].dir
             started == Append(sessions, [name |-> ws[c].name, dir |-> d])
  <2>1. ws[c] \in State /\ ws[c].at = "ask" /\ file.blocks \in Blocks
    BY <1>6 DEF TakeLaunch, File
  <2>2. ws[c].name \in Name
    BY <2>1, StateFields
  <2>3. memory' \in Blocks
    BY <1>6, ReloadType DEF TakeLaunch
  <2>4. CASE Fail(c) /\ UNCHANGED sessions
    <3>1. [at |-> "failed"] \in State
      BY DEF State
    <3> QED BY <1>6, <2>3, <2>4, <3>1, AtIs DEF TakeLaunch, Fail
  <2>5. CASE i # 0 /\ sessions' = started /\ Started(c, d)
    <3>1. d \in Dir
      BY <2>1, <2>5, FoundByName, ListedIs
    <3>2. [name |-> ws[c].name, dir |-> d] \in Block /\ [at |-> "attached", dir |-> d] \in State
      BY <2>2, <3>1 DEF Block, State
    <3>3. started \in Blocks
      BY <3>2 DEF Blocks
    <3> HIDE DEF started, d
    <3> QED BY <1>6, <2>3, <2>5, <3>2, <3>3, AtIs DEF TakeLaunch, Started
  <2> QED BY <1>6, <2>4, <2>5 DEF TakeLaunch
<1>7. ASSUME NEW name \in Typed, NEW d \in Dir, Submit(name, d)
      PROVE  Types'
  <2>1. [name |-> name, dir |-> d] \in Block
    BY ConfigAssumption DEF Block
  <2>2. [at |-> "read", named |-> memory, block |-> [name |-> name, dir |-> d]] \in LoopState
    BY <2>1 DEF LoopState
  <2> QED BY <1>7, <2>2, RulesIfMissingType DEF Submit
<1>8. ASSUME NEW name \in Names(memory), RemoveWorkspace(name)
      PROVE  Types'
  <2>1. name \in Name
    BY ListedIs DEF Names
  <2>2. [at |-> "drop", name |-> name] \in LoopState
    BY <2>1 DEF LoopState
  <2> QED BY <1>8, <2>2 DEF RemoveWorkspace
<1>9. ASSUME SubmitRead
      PROVE  Types'
  <2>1. loop.named \in Blocks /\ loop.block \in Block
    BY <1>9, LoopFields DEF SubmitRead
  <2>2. [at |-> "write", copy |-> file, named |-> loop.named, block |-> loop.block] \in LoopState
    BY <2>1 DEF LoopState
  <2> QED BY <1>9, <2>2 DEF SubmitRead
<1>10. ASSUME SubmitWrite
       PROVE  Types'
  <2>1. loop.copy \in File /\ loop.block \in Block
    BY <1>10, LoopFields DEF SubmitWrite
  <2>2. [at |-> "reload"] \in LoopState
    BY DEF LoopState
  <2> QED BY <1>10, <2>1, <2>2, WithIs, AddedType DEF SubmitWrite
<1>11. ASSUME ReadToRemove
       PROVE  Types'
  <2>1. loop.name \in Name
    BY <1>11, LoopFields DEF ReadToRemove
  <2>2. /\ [at |-> "truncate", copy |-> file, name |-> loop.name] \in LoopState
        /\ [at |-> "idle"] \in LoopState
    BY <2>1 DEF LoopState
  <2> QED BY <1>11, <2>2 DEF ReadToRemove
<1>12. ASSUME Truncate
       PROVE  Types'
  <2>1. loop' \in LoopState
    BY <1>12, LoopFields DEF Truncate
  <2>2. history' \in History
    BY <1>12 DEF Truncate, History
  <2>3. file' \in File
    BY <1>12 DEF Truncate, File, Blocks
  <2> QED BY <1>12, <2>1, <2>2, <2>3 DEF Truncate
<1>13. ASSUME Fill
       PROVE  Types'
  <2>1. loop.copy \in File
    BY <1>13, LoopFields DEF Fill
  <2>2. history' \in History
    BY <1>13 DEF Fill, History
  <2>3. [at |-> "reload"] \in LoopState
    BY DEF LoopState
  <2> QED BY <1>13, <2>1, <2>2, <2>3, WithoutIs DEF Fill
<1>14. ASSUME FinishEdit \/ SoftRefresh
       PROVE  Types'
  <2>1. [at |-> "idle"] \in LoopState
    BY DEF LoopState
  <2> QED BY <1>14, <2>1, ReloadType DEF FinishEdit, SoftRefresh
<1>15. ASSUME NEW i \in DOMAIN sessions, ContainerEnds(i)
       PROVE  Types'
  <2>1. sessions' \in Blocks
    BY <1>15, DropOne DEF ContainerEnds, Blocks
  <2> QED BY <1>15, <2>1 DEF ContainerEnds
<1> QED
  BY <1>1, <1>2, <1>3, <1>4, <1>5, <1>6, <1>7, <1>8, <1>9, <1>10, <1>11, <1>12, <1>13,
     <1>14, <1>15 DEF Next, Run, Edit

-----------------------------------------------------------------------------
(* The configuration in memory, and how many containers there are *)

LEMMA SoundStays ==
  ASSUME MemoryIsSound, Next
  PROVE  MemoryIsSound'
<1>1. ASSUME UNCHANGED memory PROVE MemoryIsSound'
  BY <1>1 DEF MemoryIsSound, Names
<1>2. ASSUME Reload PROVE MemoryIsSound'
  BY <1>2 DEF Reload, Valid, MemoryIsSound, Names
<1>3. Reload \/ UNCHANGED memory
  BY DEF Next, Run, Edit, Load, Attach, Choose, ReadToAppend, WriteAppended, TakeLaunch,
         Submit, RemoveWorkspace, SubmitRead, SubmitWrite, ReadToRemove, Truncate, Fill,
         FinishEdit, SoftRefresh, ContainerEnds
<1> QED BY <1>1, <1>2, <1>3

\* A client moves only while it is not attached.
LEMMA OneMoves ==
  ASSUME NEW c \in Client, Run(c) \/ TakeLaunch(c)
  PROVE  ws[c].at # "attached" /\ \E s : At(c, s)
<1>1. CASE Load(c)
  BY <1>1 DEF Load, Fail
<1>2. CASE Attach(c)
  BY <1>2 DEF Attach
<1>3. CASE Choose(c)
  BY <1>3 DEF Choose, Fail
<1>4. CASE ReadToAppend(c) \/ WriteAppended(c)
  BY <1>4 DEF ReadToAppend, WriteAppended
<1>5. CASE TakeLaunch(c)
  BY <1>5 DEF TakeLaunch, Started, Fail
<1> QED BY <1>1, <1>2, <1>3, <1>4, <1>5 DEF Run

LEMMA Becomes ==
  ASSUME Types, NEW c \in Client
  PROVE  /\ Run(c) \/ TakeLaunch(c) => At(c, ws'[c])
         /\ Load(c) => ws'[c].at \in {"failed", "matched", "append"}
         /\ Attach(c) => ws'[c].at = "attached"
         /\ Choose(c) => ws'[c].at \in {"failed", "ask"}
         /\ WriteAppended(c) => ws'[c].at = "added"
         /\ TakeLaunch(c) => ws'[c].at \in {"failed", "attached"}
<1>1. ASSUME NEW s, At(c, s) PROVE ws'[c] = s
  BY <1>1, AtIs DEF Types
<1>2. Run(c) \/ TakeLaunch(c) => At(c, ws'[c])
  BY <1>1, OneMoves
<1>3. ASSUME Load(c) PROVE ws'[c].at \in {"failed", "matched", "append"}
  BY <1>1, <1>3 DEF Load, Fail
<1>4. ASSUME Attach(c) PROVE ws'[c].at = "attached"
  BY <1>1, <1>4 DEF Attach
<1>5. ASSUME Choose(c) PROVE ws'[c].at \in {"failed", "ask"}
  <2>1. Fail(c) \/ \E expected : At(c, [at |-> "ask", name |-> ws[c].block.name, expected |-> expected])
    BY <1>5 DEF Choose
  <2>2. CASE Fail(c)
    BY <1>1, <2>2 DEF Fail
  <2>3. ASSUME NEW expected, At(c, [at |-> "ask", name |-> ws[c].block.name, expected |-> expected])
        PROVE  ws'[c].at = "ask"
    BY <1>1, <2>3
  <2> QED BY <2>1, <2>2, <2>3
<1>6. ASSUME WriteAppended(c) PROVE ws'[c].at = "added"
  BY <1>1, <1>6 DEF WriteAppended
<1>7. ASSUME TakeLaunch(c) PROVE ws'[c].at \in {"failed", "attached"}
  BY <1>1, <1>7 DEF TakeLaunch, Fail, Started
<1> QED BY <1>2, <1>3, <1>4, <1>5, <1>6, <1>7

LEMMA MoreAttached ==
  ASSUME Types, NEW c \in Client, NEW s, At(c, s), ws[c].at # "attached"
  PROVE  /\ Cardinality(Attached) \in Nat /\ Cardinality(Attached') \in Nat
         /\ Cardinality(Attached) <= Cardinality(Attached')
         /\ s.at = "attached" => Cardinality(Attached') = Cardinality(Attached) + 1
<1>1. IsFiniteSet(Attached) /\ IsFiniteSet(Attached')
  <2>1. Attached \in SUBSET Client /\ Attached' \in SUBSET Client
    BY DEF Attached
  <2> QED BY <2>1, ConfigAssumption, FS_Subset
<1>2. Cardinality(Attached) \in Nat /\ Cardinality(Attached') \in Nat
  BY <1>1, FS_CardinalityType
<1>3. ws'[c] = s /\ \A other \in Client : other # c => ws'[other] = ws[other]
  BY AtIs DEF Types
<1>4. Attached \in SUBSET Attached'
  BY <1>3 DEF Attached
<1>5. ASSUME s.at = "attached" PROVE Attached' = Attached \cup {c} /\ c \notin Attached
  BY <1>3, <1>5 DEF Attached
<1> QED BY <1>1, <1>2, <1>4, <1>5, FS_Subset, FS_AddElement

LEMMA RoomStays ==
  ASSUME Types, Room, Next
  PROVE  Room'
<1>1. Len(sessions) \in Nat
  BY LenProperties DEF Types, Blocks
<1>2. ASSUME NEW c \in Client, Run(c) \/ TakeLaunch(c), UNCHANGED sessions
      PROVE  Room'
  <2>1. PICK s : At(c, s) /\ ws[c].at # "attached"
    BY <1>2, OneMoves
  <2>2. /\ Cardinality(Attached) \in Nat /\ Cardinality(Attached') \in Nat
        /\ Cardinality(Attached) <= Cardinality(Attached')
    BY <2>1, MoreAttached
  <2> QED BY <1>1, <1>2, <2>2 DEF Room
<1>3. ASSUME NEW c \in Client, TakeLaunch(c), ~UNCHANGED sessions
      PROVE  Room'
  <2>1. PICK new \in Block, dir \in Dir :
          /\ sessions' = Append(sessions, new)
          /\ At(c, [at |-> "attached", dir |-> dir])
          /\ ws[c].at # "attached"
    <3> DEFINE d == file.blocks[Find(file.blocks, ws[c].name)].dir
               new == [name |-> ws[c].name, dir |-> d]
    <3>1. ws[c] \in State /\ ws[c].at = "ask" /\ file.blocks \in Blocks
      BY <1>3 DEF TakeLaunch, Types, File
    <3>2. Find(file.blocks, ws[c].name) # 0 /\ sessions' = Append(sessions, new) /\ Started(c, d)
      BY <1>3 DEF TakeLaunch
    <3>3. d \in Dir
      BY <3>1, <3>2, FoundByName, ListedIs
    <3>4. new \in Block
      BY <3>1, <3>3, StateFields DEF Block
    <3> QED BY <3>1, <3>2, <3>3, <3>4 DEF Started
  <2>2. Len(sessions') = Len(sessions) + 1
    BY <2>1, AppendProperties DEF Types, Blocks
  <2>3. /\ Cardinality(Attached) \in Nat
        /\ Cardinality(Attached') = Cardinality(Attached) + 1
    BY <2>1, MoreAttached
  <2> QED BY <1>1, <2>2, <2>3 DEF Room
<1>4. ASSUME NEW i \in DOMAIN sessions, ContainerEnds(i)
      PROVE  Room'
  <2>1. Len(sessions') = Len(sessions) - 1 /\ ws' = ws
    BY <1>4, DropOne DEF ContainerEnds, Types, Blocks
  <2>2. Attached' = Attached /\ IsFiniteSet(Attached)
    <3>1. Attached \in SUBSET Client
      BY DEF Attached
    <3> QED BY <2>1, <3>1, ConfigAssumption, FS_Subset DEF Attached
  <2>3. Cardinality(Attached) \in Nat
    BY <2>2, FS_CardinalityType
  <2> QED BY <1>1, <2>1, <2>2, <2>3 DEF Room
<1>5. ASSUME UNCHANGED <<sessions, ws>>
      PROVE  Room'
  BY <1>5 DEF Room, Attached
<1>6. \/ \E c \in Client : (Run(c) \/ TakeLaunch(c)) /\ UNCHANGED sessions
      \/ \E c \in Client : TakeLaunch(c) /\ ~UNCHANGED sessions
      \/ \E i \in DOMAIN sessions : ContainerEnds(i)
      \/ UNCHANGED <<sessions, ws>>
  <2>1. ASSUME NEW c \in Client, Run(c) PROVE UNCHANGED sessions
    BY <2>1 DEF Run, Load, Attach, Choose, ReadToAppend, WriteAppended
  <2>2. ASSUME \/ \E d \in Dir, name \in Typed : Submit(name, d)
               \/ \E name \in Names(memory) : RemoveWorkspace(name)
               \/ Edit \/ SoftRefresh
        PROVE  UNCHANGED <<sessions, ws>>
    BY <2>2 DEF Edit, Submit, RemoveWorkspace, SubmitRead, SubmitWrite, ReadToRemove, Truncate,
                Fill, FinishEdit, SoftRefresh
  <2> QED BY <2>1, <2>2 DEF Next
<1> QED BY <1>2, <1>3, <1>4, <1>5, <1>6

-----------------------------------------------------------------------------
(* Edits *)

LEMMA ValidIs ==
  ASSUME NEW f \in File
  PROVE  Valid(f) <=> f.rest /\ Distinct(f.blocks)
<1>1. f.blocks \in Blocks
  BY DEF File
<1> QED BY <1>1, ManyNames DEF Valid

LEMMA FreshStays ==
  ASSUME Types, Fresh, Next
  PROVE  Fresh'
<1>1. ASSUME NEW c \in Client, UNCHANGED loop, NEW s, At(c, s),
             s.at \in {"append", "write"} => s.block.name \notin Names(s.named)
      PROVE  Fresh'
  <2>1. ws'[c] = s /\ \A other \in Client : other # c => ws'[other] = ws[other]
    BY <1>1, AtIs DEF Types
  <2>2. ASSUME NEW other \in Client, ws'[other].at \in {"append", "write"}
        PROVE  ws'[other].block.name \notin Names(ws'[other].named)
    BY <1>1, <2>1, <2>2 DEF Fresh
  <2> QED BY <1>1, <2>2 DEF Fresh, Names
<1>2. ASSUME UNCHANGED ws,
             loop'.at \in {"read", "write"} => loop'.block.name \notin Names(loop'.named)
      PROVE  Fresh'
  BY <1>2 DEF Fresh, Names
<1>3. ASSUME NEW c \in Client, Load(c)
      PROVE  Fresh'
  <2> DEFINE base == Base[Cwd[c]]
             s == [at |-> "append", named |-> file.blocks,
                   block |-> [name |-> Dedupe(file.blocks, base), dir |-> Cwd[c]]]
  <2>1. Dedupe(file.blocks, base) \notin Names(file.blocks)
    <3>1. file.blocks \in Blocks /\ Cwd[c] \in Dir
      BY ConfigAssumption DEF Types, File
    <3> QED BY <3>1, DedupeIsNew
  <2>2. s.block.name \notin Names(s.named)
    BY <2>1
  <2>3. \/ Fail(c)
        \/ At(c, [at |-> "matched", block |-> file.blocks[BestMatch(file.blocks, Cwd[c])]])
        \/ At(c, s)
    BY <1>3 DEF Load
  <2> HIDE DEF s
  <2> QED BY <1>1, <1>3, <2>2, <2>3 DEF Load, Fail
<1>4. ASSUME NEW c \in Client, Attach(c) \/ Choose(c) \/ WriteAppended(c) \/ TakeLaunch(c)
      PROVE  Fresh'
  <2>1. At(c, ws'[c]) /\ ws'[c].at \notin {"append", "write"}
    BY <1>4, Becomes DEF Run
  <2>2. UNCHANGED loop
    BY <1>4 DEF Attach, Choose, WriteAppended, TakeLaunch
  <2> QED BY <1>1, <2>1, <2>2
<1>5. ASSUME NEW c \in Client, ReadToAppend(c)
      PROVE  Fresh'
  <2>1. ws[c].block.name \notin Names(ws[c].named)
    BY <1>5 DEF ReadToAppend, Fresh
  <2> QED BY <1>1, <1>5, <2>1 DEF ReadToAppend
<1>6. ASSUME NEW name \in Typed, NEW d \in Dir, Submit(name, d)
      PROVE  Fresh'
  BY <1>2, <1>6 DEF Submit
<1>7. ASSUME SubmitRead
      PROVE  Fresh'
  BY <1>2, <1>7 DEF SubmitRead, Fresh
<1>8. ASSUME \/ \E name \in Names(memory) : RemoveWorkspace(name)
             \/ SubmitWrite \/ ReadToRemove \/ Truncate \/ Fill \/ FinishEdit
      PROVE  Fresh'
  <2>1. UNCHANGED ws /\ loop'.at \notin {"read", "write"}
    <3>1. CASE Truncate
      BY <3>1, LoopFields DEF Truncate, Types, LoopState
    <3> QED
      BY <1>8, <3>1 DEF RemoveWorkspace, SubmitWrite, ReadToRemove, Fill, FinishEdit
  <2> QED BY <1>2, <2>1
<1>9. ASSUME SoftRefresh \/ \E i \in DOMAIN sessions : ContainerEnds(i)
      PROVE  Fresh'
  BY <1>9 DEF SoftRefresh, ContainerEnds, Fresh, Names
<1> QED
  BY <1>3, <1>4, <1>5, <1>6, <1>7, <1>8, <1>9 DEF Next, Run, Edit

\* A block with a new name, written into the file it was chosen for, keeps the
\* file in order.
LEMMA EditKeeps ==
  ASSUME Types, NotOvertaken, NEW copy, NEW named, NEW block \in Block,
         block.name \notin Names(named),
         file' = With(copy, block), history' = Added(copy, named, block),
         loop.at # "fill" => loop'.at # "fill", loop.at = "fill" => loop' = loop
  PROVE  NotOvertaken'
<1> SUFFICES ASSUME ~history'.overtaken PROVE NotOvertaken'
  BY DEF NotOvertaken
<1>1. /\ ~history.overtaken /\ file = copy /\ file.blocks = named
      /\ history'.kept = history.kept \cup {block}
  BY DEF Added, Types, History
<1>2. /\ file' \in File /\ file'.rest = file.rest
      /\ Range(file'.blocks) = Range(file.blocks) \cup {block}
      /\ Distinct(file.blocks) => Distinct(file'.blocks)
  BY <1>1, WithIs DEF Types
<1>3. CASE loop.at # "fill"
  <2>1. Valid(file) /\ Range(file.blocks) = history.kept
    BY <1>1, <1>3 DEF NotOvertaken
  <2>2. Valid(file') /\ Range(file'.blocks) = history'.kept
    BY <1>1, <1>2, <2>1, ValidIs DEF Types
  <2> QED BY <1>3, <2>2 DEF NotOvertaken, Valid, Names
<1>4. CASE loop.at = "fill"
  <2>1. file'.blocks # <<>>
    <3>1. block \in Range(file'.blocks)
      BY <1>2
    <3> QED BY <3>1 DEF Range
  <2> QED BY <1>4, <2>1 DEF NotOvertaken
<1> QED BY <1>3, <1>4

LEMMA NotOvertakenStays ==
  ASSUME Types, Fresh, NotOvertaken, Next
  PROVE  NotOvertaken'
<1>1. ASSUME NEW c \in Client, WriteAppended(c)
      PROVE  NotOvertaken'
  <2>1. ws[c].block \in Block
    BY <1>1, StateFields DEF WriteAppended, Types
  <2>2. ws[c].block.name \notin Names(ws[c].named)
    BY <1>1 DEF WriteAppended, Fresh
  <2>3. /\ file' = With(ws[c].copy, ws[c].block) /\ loop' = loop
        /\ history' = Added(ws[c].copy, ws[c].named, ws[c].block)
    BY <1>1 DEF WriteAppended
  <2> QED BY <2>1, <2>2, <2>3, EditKeeps
<1>2. ASSUME SubmitWrite
      PROVE  NotOvertaken'
  <2>1. loop.block \in Block
    BY <1>2, LoopFields DEF SubmitWrite, Types
  <2>2. loop.block.name \notin Names(loop.named)
    BY <1>2 DEF SubmitWrite, Fresh
  <2>3. /\ file' = With(loop.copy, loop.block) /\ loop.at # "fill" /\ loop'.at # "fill"
        /\ history' = Added(loop.copy, loop.named, loop.block)
    BY <1>2 DEF SubmitWrite
  <2> QED BY <2>1, <2>2, <2>3, EditKeeps
<1>3. ASSUME Truncate
      PROVE  NotOvertaken'
  <2> SUFFICES ASSUME ~history'.overtaken PROVE NotOvertaken'
    BY DEF NotOvertaken
  <2>1. /\ loop.at = "truncate" /\ file' = [rest |-> FALSE, blocks |-> <<>>]
        /\ loop'.at = "fill" /\ loop'.copy = loop.copy /\ loop'.name = loop.name
    BY <1>3 DEF Truncate, Types, LoopState
  <2>2. /\ ~history.overtaken /\ file = loop.copy
        /\ history'.kept = {b \in history.kept : b.name # loop.name}
    BY <1>3 DEF Truncate, Types, History
  <2>3. Valid(loop.copy) /\ Range(loop.copy.blocks) = history.kept
    BY <2>1, <2>2 DEF NotOvertaken
  <2> QED BY <2>1, <2>2, <2>3 DEF NotOvertaken, Valid, Names
<1>4. ASSUME Fill
      PROVE  NotOvertaken'
  <2> SUFFICES ASSUME ~history'.overtaken PROVE NotOvertaken'
    BY DEF NotOvertaken
  <2>1. /\ loop.at = "fill" /\ loop'.at = "reload" /\ file' = Without(loop.copy, loop.name)
        /\ loop.copy \in File
    BY <1>4, LoopFields DEF Fill, Types
  <2>2. ~history.overtaken /\ file.blocks = <<>> /\ history'.kept = history.kept
    BY <1>4 DEF Fill, Types, History
  <2>3. /\ Valid(loop.copy)
        /\ {b \in Range(loop.copy.blocks) : b.name # loop.name} = history.kept
    BY <2>1, <2>2 DEF NotOvertaken
  <2>4. file' \in File /\ Valid(file') /\ Range(file'.blocks) = history'.kept
    BY <2>1, <2>2, <2>3, WithoutIs, ValidIs
  <2> QED BY <2>1, <2>4 DEF NotOvertaken, Valid, Names
<1>5. ASSUME UNCHANGED <<file, history>>, loop.at # "fill", loop'.at # "fill"
      PROVE  NotOvertaken'
  BY <1>5 DEF NotOvertaken, Valid, Names
<1>6. ASSUME UNCHANGED <<file, history, loop>>
      PROVE  NotOvertaken'
  BY <1>6 DEF NotOvertaken, Valid, Names
<1>7. ASSUME NEW c \in Client, Load(c) \/ Attach(c) \/ Choose(c) \/ ReadToAppend(c) \/ TakeLaunch(c)
      PROVE  NotOvertaken'
  BY <1>6, <1>7 DEF Load, Attach, Choose, ReadToAppend, TakeLaunch
<1>8. ASSUME SoftRefresh \/ \E i \in DOMAIN sessions : ContainerEnds(i)
      PROVE  NotOvertaken'
  BY <1>6, <1>8 DEF SoftRefresh, ContainerEnds
<1>9. ASSUME \/ \E d \in Dir, name \in Typed : Submit(name, d)
             \/ \E name \in Names(memory) : RemoveWorkspace(name)
             \/ SubmitRead \/ ReadToRemove \/ FinishEdit
      PROVE  NotOvertaken'
  BY <1>5, <1>9 DEF Submit, RemoveWorkspace, SubmitRead, ReadToRemove, FinishEdit
<1> QED
  BY <1>1, <1>2, <1>3, <1>4, <1>7, <1>8, <1>9 DEF Next, Run, Edit

-----------------------------------------------------------------------------
(* Where blocks come from, and where clients end *)

LEMMA EverGrows ==
  ASSUME Types, Next
  PROVE  history.ever \subseteq history'.ever
<1>1. CASE UNCHANGED history
  BY <1>1
<1>2. CASE \E c \in Client : WriteAppended(c)
  BY <1>2 DEF WriteAppended, Added
<1>3. CASE SubmitWrite
  BY <1>3 DEF SubmitWrite, Added
<1>4. CASE Truncate
  BY <1>4 DEF Truncate, Types, History
<1>5. CASE Fill
  BY <1>5 DEF Fill, Types, History
<1>6. ASSUME NEW c \in Client, Load(c) \/ Attach(c) \/ Choose(c) \/ ReadToAppend(c) \/ TakeLaunch(c)
      PROVE  UNCHANGED history
  BY <1>6 DEF Load, Attach, Choose, ReadToAppend, TakeLaunch
<1>7. ASSUME \/ \E d \in Dir, name \in Typed : Submit(name, d)
             \/ \E name \in Names(memory) : RemoveWorkspace(name)
             \/ SubmitRead \/ ReadToRemove \/ FinishEdit \/ SoftRefresh
             \/ \E i \in DOMAIN sessions : ContainerEnds(i)
      PROVE  UNCHANGED history
  BY <1>7 DEF Submit, RemoveWorkspace, SubmitRead, ReadToRemove, FinishEdit, SoftRefresh,
              ContainerEnds
<1> QED
  BY <1>1, <1>2, <1>3, <1>4, <1>5, <1>6, <1>7 DEF Next, Run, Edit

\* What the blocks of a file are among is not changed by loading it.
LEMMA ReloadKnown ==
  ASSUME Known, Reload, UNCHANGED file
  PROVE  Range(memory') \subseteq history.ever
BY DEF Known, Reload

\* What a client is about to write is known if it has just read the file, or
\* if it had been before.
LEMMA ClientKnown ==
  ASSUME Types, Known, NEW c \in Client, NEW s, At(c, s), history.ever \subseteq history'.ever,
         s.at = "write" => Range(s.copy.blocks) \subseteq history'.ever
  PROVE  \A other \in Client :
           ws'[other].at = "write" => Range(ws'[other].copy.blocks) \subseteq history'.ever
<1>1. ws'[c] = s /\ \A other \in Client : other # c => ws'[other] = ws[other]
  BY AtIs DEF Types
<1> QED BY <1>1 DEF Known

LEMMA KnownStays ==
  ASSUME Types, Known, Next
  PROVE  Known'
<1>1. history.ever \subseteq history'.ever
  BY EverGrows
<1> DEFINE ClientsKnown ==
             \A c \in Client : ws'[c].at = "write" => Range(ws'[c].copy.blocks) \subseteq history'.ever
<1>2. ASSUME UNCHANGED <<file, history, loop>>, ClientsKnown,
             Range(memory') \cup Range(sessions') \subseteq history.ever
      PROVE  Known'
  BY <1>2 DEF Known
<1>3. ASSUME NEW c \in Client, Load(c) \/ Choose(c)
      PROVE  Known'
  <2>1. At(c, ws'[c]) /\ ws'[c].at # "write"
    BY <1>3, Becomes DEF Run
  <2>2. ClientsKnown
    BY <1>1, <2>1, ClientKnown
  <2> HIDE DEF ClientsKnown
  <2> QED BY <1>2, <1>3, <2>2 DEF Load, Choose, Known
<1>4. ASSUME NEW c \in Client, Attach(c)
      PROVE  Known'
  <2>1. At(c, ws'[c]) /\ ws'[c].at # "write"
    BY <1>4, Becomes DEF Run
  <2>2. ClientsKnown
    BY <1>1, <2>1, ClientKnown
  <2> HIDE DEF ClientsKnown
  <2> QED BY <1>2, <1>4, <2>2 DEF Attach, Known
<1>5. ASSUME NEW c \in Client, ReadToAppend(c)
      PROVE  Known'
  <2>1. ClientsKnown
    <3>1. Range(file.blocks) \subseteq history'.ever
      BY <1>1 DEF Known
    <3> QED BY <1>1, <1>5, <3>1, ClientKnown DEF ReadToAppend
  <2> HIDE DEF ClientsKnown
  <2> QED BY <1>2, <1>5, <2>1 DEF ReadToAppend, Known
<1>6. ASSUME NEW c \in Client, WriteAppended(c)
      PROVE  Known'
  <2>1. /\ At(c, [at |-> "added", block |-> ws[c].block])
        /\ file' = With(ws[c].copy, ws[c].block)
        /\ UNCHANGED <<memory, sessions, loop>>
        /\ history' = Added(ws[c].copy, ws[c].named, ws[c].block)
    BY <1>6 DEF WriteAppended
  <2>2. ws[c].block \in Block /\ ws[c].copy \in File /\ ws[c].at = "write"
    BY <1>6, StateFields DEF WriteAppended, Types
  <2>3. ClientsKnown
    BY <1>1, <2>1, ClientKnown
  <2>4. Range(file'.blocks) = Range(ws[c].copy.blocks) \cup {ws[c].block}
    BY <2>1, <2>2, WithIs
  <2>5. /\ history'.kept = history.kept \cup {ws[c].block}
        /\ history'.ever = history.ever \cup {ws[c].block}
    BY <2>1 DEF Added
  <2>6. Range(file'.blocks) \cup Range(memory') \cup Range(sessions') \cup history'.kept
          \subseteq history'.ever
    BY <2>1, <2>2, <2>4, <2>5 DEF Known
  <2> HIDE DEF ClientsKnown
  <2>7. loop'.at \in {"write", "truncate", "fill"} => Range(loop'.copy.blocks) \subseteq history'.ever
    BY <1>1, <2>1 DEF Known
  <2> QED BY <2>3, <2>6, <2>7 DEF Known, ClientsKnown
<1>7. ASSUME NEW c \in Client, TakeLaunch(c)
      PROVE  Known'
  <2>1. UNCHANGED <<file, history, loop>> /\ Reload
    BY <1>7 DEF TakeLaunch
  <2>2. At(c, ws'[c]) /\ ws'[c].at # "write"
    BY <1>7, Becomes
  <2>3. ClientsKnown
    BY <1>1, <2>2, ClientKnown
  <2>4. Range(memory') \subseteq history.ever
    BY <2>1, ReloadKnown
  <2>5. Range(sessions') \subseteq history.ever
    <3> DEFINE i == Find(file.blocks, ws[c].name)
               new == [name |-> ws[c].name, dir |-> file.blocks[i].dir]
    <3>1. CASE UNCHANGED sessions
      BY <3>1 DEF Known
    <3>2. CASE i # 0 /\ sessions' = Append(sessions, new)
      <4>1. i \in DOMAIN file.blocks /\ file.blocks[i].name = ws[c].name
        BY <3>2, FoundByName DEF Types, File
      <4>2. file.blocks[i] \in Block
        BY <4>1, ListedIs DEF Types, File
      <4>3. new = file.blocks[i]
        BY <4>1, <4>2 DEF Block
      <4>4. new \in Block /\ new \in history.ever
        BY <4>1, <4>2, <4>3 DEF Known, Range
      <4> HIDE DEF new
      <4>5. Range(Append(sessions, new)) = Range(sessions) \cup {new}
        BY <4>4, AppendOnce DEF Types, Blocks
      <4> QED BY <3>2, <4>4, <4>5 DEF Known
    <3> QED BY <1>7, <3>1, <3>2 DEF TakeLaunch
  <2> HIDE DEF ClientsKnown
  <2> QED BY <1>2, <2>1, <2>3, <2>4, <2>5
<1>8. ASSUME \/ \E d \in Dir, name \in Typed : Submit(name, d)
             \/ \E name \in Names(memory) : RemoveWorkspace(name)
             \/ SubmitRead \/ ReadToRemove \/ FinishEdit \/ SoftRefresh
      PROVE  Known'
  <2>1. UNCHANGED <<file, ws, sessions, history>>
    BY <1>8 DEF Submit, RemoveWorkspace, SubmitRead, ReadToRemove, FinishEdit, SoftRefresh
  <2>2. loop'.at \in {"write", "truncate", "fill"} => Range(loop'.copy.blocks) \subseteq history.ever
    BY <1>8 DEF Submit, RemoveWorkspace, SubmitRead, ReadToRemove, FinishEdit, SoftRefresh, Known
  <2>3. Range(memory') \subseteq history.ever
    <3>1. Reload \/ UNCHANGED memory
      BY <1>8 DEF Submit, RemoveWorkspace, SubmitRead, ReadToRemove, FinishEdit, SoftRefresh
    <3> QED BY <2>1, <3>1, ReloadKnown DEF Known
  <2> QED BY <2>1, <2>2, <2>3 DEF Known
<1>9. ASSUME SubmitWrite
      PROVE  Known'
  <2>1. /\ file' = With(loop.copy, loop.block) /\ loop'.at = "reload"
        /\ UNCHANGED <<memory, sessions, ws>>
        /\ history' = Added(loop.copy, loop.named, loop.block)
    BY <1>9 DEF SubmitWrite
  <2>2. loop.block \in Block /\ loop.copy \in File /\ loop.at = "write"
    BY <1>9, LoopFields DEF SubmitWrite, Types
  <2>3. Range(file'.blocks) = Range(loop.copy.blocks) \cup {loop.block}
    BY <2>1, <2>2, WithIs
  <2>4. /\ history'.kept = history.kept \cup {loop.block}
        /\ history'.ever = history.ever \cup {loop.block}
    BY <2>1 DEF Added
  <2>5. Range(file'.blocks) \cup Range(memory') \cup Range(sessions') \cup history'.kept
          \subseteq history'.ever
    BY <2>1, <2>2, <2>3, <2>4 DEF Known
  <2>6. ClientsKnown
    BY <1>1, <2>1 DEF Known
  <2> HIDE DEF ClientsKnown
  <2> QED BY <2>1, <2>5, <2>6 DEF Known, ClientsKnown
<1>10. ASSUME Truncate
       PROVE  Known'
  <2>1. /\ file'.blocks = <<>> /\ UNCHANGED <<memory, sessions, ws>>
        /\ loop.at = "truncate" /\ loop'.copy = loop.copy
    BY <1>10 DEF Truncate, Types, LoopState
  <2>2. history'.kept \subseteq history.kept /\ history'.ever = history.ever
    BY <1>10 DEF Truncate, Types, History
  <2>3. Range(file'.blocks) = {}
    BY <2>1 DEF Range
  <2> QED BY <2>1, <2>2, <2>3 DEF Known
<1>11. ASSUME Fill
       PROVE  Known'
  <2>1. /\ file' = Without(loop.copy, loop.name) /\ UNCHANGED <<memory, sessions, ws>>
        /\ loop.at = "fill" /\ loop'.at = "reload" /\ loop.copy \in File
    BY <1>11, LoopFields DEF Fill, Types
  <2>2. history'.kept = history.kept /\ history'.ever = history.ever
    BY <1>11 DEF Fill, Types, History
  <2>3. Range(file'.blocks) \subseteq Range(loop.copy.blocks)
    BY <2>1, WithoutIs
  <2> QED BY <2>1, <2>2, <2>3 DEF Known
<1>12. ASSUME NEW i \in DOMAIN sessions, ContainerEnds(i)
       PROVE  Known'
  <2>1. Range(sessions') \subseteq Range(sessions)
    BY <1>12, DropOne DEF ContainerEnds, Types, Blocks
  <2> QED BY <1>12, <2>1 DEF ContainerEnds, Known
<1> QED
  BY <1>3, <1>4, <1>5, <1>6, <1>7, <1>8, <1>9, <1>10, <1>11, <1>12 DEF Next, Run, Edit

AllAsked == \A c \in Client : Asked(c)

\* A client that is attached is where it belongs, or some name has been given
\* to two directories.
Ended(c) ==
  ws[c].at = "attached" =>
    \/ <<Cwd[c], ws[c].dir>> \in Within
    \/ \E b1, b2 \in history.ever : b1.name = b2.name /\ b1.dir # b2.dir

\* It is the client that moved whose new state is in question.
LEMMA OthersAsked ==
  ASSUME Types, AllAsked, EndsWhereAsked, Next,
         NEW c \in Client, At(c, ws'[c]), Asked(c)', Ended(c)'
  PROVE  AllAsked' /\ EndsWhereAsked'
<1>1. \A other \in Client : other # c => ws'[other] = ws[other]
  BY AtIs DEF Types
<1>2. history.ever \subseteq history'.ever
  BY EverGrows
<1>3. ASSUME NEW other \in Client PROVE Asked(other)' /\ Ended(other)'
  <2>1. CASE other = c
    BY <2>1
  <2>2. CASE other # c
    <3>1. ws'[other] = ws[other] /\ Asked(other)
      BY <1>1, <2>2 DEF AllAsked
    <3>2. Asked(other)'
      BY <1>2, <3>1 DEF Asked
    <3>3. Ended(other)
      BY DEF EndsWhereAsked, Ended
    <3>4. Ended(other)'
      BY <1>2, <3>1, <3>3 DEF Ended
    <3> QED BY <3>2, <3>4
  <2> QED BY <2>1, <2>2
<1> QED BY <1>3 DEF AllAsked, EndsWhereAsked, Ended

LEMMA AskedStays ==
  ASSUME Types, Known, AllAsked, EndsWhereAsked, Next
  PROVE  AllAsked' /\ EndsWhereAsked'
<1>1. history.ever \subseteq history'.ever
  BY EverGrows
<1>2. ASSUME NEW c \in Client, Load(c)
      PROVE  AllAsked' /\ EndsWhereAsked'
  <2> DEFINE i == BestMatch(file.blocks, Cwd[c])
  <2>1. At(c, ws'[c]) /\ ws'[c].at \in {"failed", "matched", "append"} /\ Cwd[c] \in Dir
    BY <1>2, Becomes, ConfigAssumption DEF Run
  <2>2. CASE ws'[c].at = "matched"
    <3>1. Matching(file.blocks, Cwd[c]) # {} /\ ws'[c] = [at |-> "matched", block |-> file.blocks[i]]
      BY <1>2, <2>2, AtIs DEF Load, Fail, Types
    <3>2. i \in DOMAIN file.blocks /\ <<Cwd[c], file.blocks[i].dir>> \in Within
      BY <2>1, <3>1, BestIsMatch DEF Matching, Types, File
    <3>3. file.blocks[i] \in history'.ever
      BY <1>1, <3>2 DEF Known, Range
    <3>4. Asked(c)' /\ Ended(c)'
      BY <3>1, <3>2, <3>3 DEF Asked, Ended
    <3> QED BY <2>1, <3>4, OthersAsked
  <2>3. CASE ws'[c].at = "append"
    <3>1. ws'[c].block.dir = Cwd[c]
      BY <1>2, <2>3, AtIs DEF Load, Fail, Types
    <3>2. Asked(c)' /\ Ended(c)'
      BY <2>3, <3>1 DEF Asked, Ended
    <3> QED BY <2>1, <3>2, OthersAsked
  <2>4. CASE ws'[c].at = "failed"
    <3>1. Asked(c)' /\ Ended(c)'
      BY <2>4 DEF Asked, Ended
    <3> QED BY <2>1, <3>1, OthersAsked
  <2> QED BY <2>1, <2>2, <2>3, <2>4
<1>3. ASSUME NEW c \in Client, Attach(c)
      PROVE  AllAsked' /\ EndsWhereAsked'
  <2>1. PICK i \in DOMAIN sessions :
          /\ sessions[i].name = ws[c].block.name
          /\ At(c, [at |-> "attached", dir |-> sessions[i].dir])
    BY <1>3 DEF Attach, OfWorkspace
  <2>2. /\ ws'[c] = [at |-> "attached", dir |-> sessions[i].dir]
        /\ history' = history /\ ws[c].at = "matched"
    BY <1>3, <2>1, AtIs DEF Attach, Types
  <2>3. sessions[i] \in history.ever
    BY <2>1 DEF Known, Range
  <2>4. ws[c].block \in history.ever /\ <<Cwd[c], ws[c].block.dir>> \in Within
    BY <2>2 DEF AllAsked, Asked
  <2>5. Ended(c)'
    BY <2>1, <2>2, <2>3, <2>4 DEF Ended
  <2>6. Asked(c)'
    BY <2>2 DEF Asked
  <2> QED BY <2>1, <2>2, <2>5, <2>6, OthersAsked
<1>4. ASSUME NEW c \in Client, Choose(c)
      PROVE  AllAsked' /\ EndsWhereAsked'
  <2>1. /\ At(c, ws'[c]) /\ ws'[c].at \in {"failed", "ask"} /\ ws[c].at \in {"matched", "added"}
        /\ history' = history
    BY <1>4, Becomes DEF Run, Choose
  <2>2. ws[c].block \in history.ever /\ <<Cwd[c], ws[c].block.dir>> \in Within
    BY <2>1 DEF AllAsked, Asked
  <2>3. ws'[c].at = "ask" => ws'[c].name = ws[c].block.name
    <3>1. Fail(c) \/ \E expected : At(c, [at |-> "ask", name |-> ws[c].block.name, expected |-> expected])
      BY <1>4 DEF Choose
    <3>2. CASE Fail(c)
      BY <3>2, AtIs DEF Fail, Types
    <3>3. ASSUME NEW expected, At(c, [at |-> "ask", name |-> ws[c].block.name, expected |-> expected])
          PROVE  ws'[c].name = ws[c].block.name
      BY <3>3, AtIs DEF Types
    <3> QED BY <3>1, <3>2, <3>3
  <2>4. Asked(c)' /\ Ended(c)'
    BY <2>1, <2>2, <2>3 DEF Asked, Ended
  <2> QED BY <2>1, <2>4, OthersAsked
<1>5. ASSUME NEW c \in Client, ReadToAppend(c)
      PROVE  AllAsked' /\ EndsWhereAsked'
  <2>1. /\ At(c, ws'[c]) /\ ws[c].at = "append" /\ ws'[c].at = "write"
        /\ ws'[c].block = ws[c].block
    BY <1>5, Becomes, AtIs DEF Run, ReadToAppend, Types
  <2>2. Asked(c)' /\ Ended(c)'
    BY <2>1 DEF AllAsked, Asked, Ended
  <2> QED BY <2>1, <2>2, OthersAsked
<1>6. ASSUME NEW c \in Client, WriteAppended(c)
      PROVE  AllAsked' /\ EndsWhereAsked'
  <2>1. /\ At(c, ws'[c]) /\ ws[c].at = "write" /\ ws'[c].at = "added"
        /\ ws'[c].block = ws[c].block
    BY <1>6, Becomes, AtIs DEF Run, WriteAppended, Types
  <2>2. ws[c].block.dir = Cwd[c] /\ <<Cwd[c], Cwd[c]>> \in Within
    BY <2>1, ConfigAssumption DEF AllAsked, Asked
  <2>3. ws[c].block \in history'.ever
    BY <1>6 DEF WriteAppended, Added
  <2>4. Asked(c)' /\ Ended(c)'
    BY <2>1, <2>2, <2>3 DEF Asked, Ended
  <2> QED BY <2>1, <2>4, OthersAsked
<1>7. ASSUME NEW c \in Client, TakeLaunch(c)
      PROVE  AllAsked' /\ EndsWhereAsked'
  <2> DEFINE i == Find(file.blocks, ws[c].name)
  <2>1. /\ At(c, ws'[c]) /\ ws'[c].at \in {"failed", "attached"} /\ ws[c].at = "ask"
        /\ history' = history
    BY <1>7, Becomes DEF TakeLaunch
  <2>2. CASE ws'[c].at = "failed"
    <3>1. Asked(c)' /\ Ended(c)'
      BY <2>2 DEF Asked, Ended
    <3> QED BY <2>1, <3>1, OthersAsked
  <2>3. CASE ws'[c].at = "attached"
    <3>1. i # 0 /\ ws'[c].dir = file.blocks[i].dir
      BY <1>7, <2>3, AtIs DEF TakeLaunch, Fail, Started, Types
    <3>2. i \in DOMAIN file.blocks /\ file.blocks[i].name = ws[c].name
      BY <3>1, FoundByName DEF Types, File
    <3>3. file.blocks[i] \in history.ever
      BY <3>2 DEF Known, Range
    <3>4. PICK b \in history.ever : b.name = ws[c].name /\ <<Cwd[c], b.dir>> \in Within
      BY <2>1 DEF AllAsked, Asked
    <3>5. Ended(c)'
      BY <2>1, <3>1, <3>2, <3>3, <3>4 DEF Ended
    <3>6. Asked(c)'
      BY <2>3 DEF Asked
    <3> QED BY <2>1, <3>5, <3>6, OthersAsked
  <2> QED BY <2>1, <2>2, <2>3
<1>8. ASSUME UNCHANGED ws
      PROVE  AllAsked' /\ EndsWhereAsked'
  BY <1>1, <1>8 DEF AllAsked, Asked, EndsWhereAsked
<1>9. ASSUME \/ \E d \in Dir, name \in Typed : Submit(name, d)
             \/ \E name \in Names(memory) : RemoveWorkspace(name)
             \/ Edit \/ SoftRefresh
             \/ \E i \in DOMAIN sessions : ContainerEnds(i)
      PROVE  UNCHANGED ws
  BY <1>9 DEF Submit, RemoveWorkspace, Edit, SubmitRead, SubmitWrite, ReadToRemove, Truncate,
              Fill, FinishEdit, SoftRefresh, ContainerEnds
<1> QED
  BY <1>2, <1>3, <1>4, <1>5, <1>6, <1>7, <1>8, <1>9 DEF Next, Run

-----------------------------------------------------------------------------
(* The theorems *)

LEMMA InvInit == Init => Inv
<1> SUFFICES ASSUME Init PROVE Inv
  OBVIOUS
<1>1. First \in Blocks /\ \A c \in Client : ws[c] = [at |-> "start"]
  BY ConfigAssumption DEF Init, Blocks
<1>2. Types
  <2>1. [at |-> "start"] \in State /\ [at |-> "idle"] \in LoopState
    BY DEF State, LoopState
  <2>2. rules \in [Dir -> Rules]
    BY DEF Init, Rules, NoRules
  <2>3. Range(First) \subseteq Block
    BY <1>1, ListedIs DEF Range
  <2>4. file \in File /\ history \in History /\ <<>> \in Blocks
    BY <1>1, <2>3 DEF Init, File, History, Blocks
  <2> QED BY <1>1, <2>1, <2>2, <2>4 DEF Init, Types
<1>3. MemoryIsSound
  BY ConfigAssumption DEF Init, MemoryIsSound
<1>4. Room
  <2>1. Attached = {} /\ Len(sessions) = 0
    BY <1>1 DEF Init, Attached
  <2> QED BY <2>1, FS_EmptySet DEF Room
<1>5. Fresh
  BY <1>1 DEF Init, Fresh
<1>6. NotOvertaken
  BY ConfigAssumption DEF Init, NotOvertaken, Valid
<1>7. Known
  BY <1>1 DEF Init, Known, Range
<1>8. AllAsked /\ EndsWhereAsked
  BY <1>1 DEF AllAsked, Asked, EndsWhereAsked
<1> QED BY <1>2, <1>3, <1>4, <1>5, <1>6, <1>7, <1>8 DEF Inv, AllAsked

LEMMA InvNext == Inv /\ [Next]_vars => Inv'
<1>1. ASSUME Inv, Next PROVE Inv'
  BY <1>1, TypesStay, SoundStays, RoomStays, FreshStays, NotOvertakenStays, KnownStays, AskedStays
     DEF Inv, AllAsked
<1>2. ASSUME Inv, UNCHANGED vars PROVE Inv'
  <2> USE <1>2 DEF vars
  <2>1. Types' /\ MemoryIsSound' /\ Room'
    BY DEF Inv, Types, MemoryIsSound, Room, Attached, Names
  <2>2. Fresh' /\ NotOvertaken'
    BY DEF Inv, Fresh, NotOvertaken, Valid, Names
  <2>3. Known'
    BY DEF Inv, Known
  <2>4. (\A c \in Client : Asked(c))' /\ EndsWhereAsked'
    BY DEF Inv, Asked, EndsWhereAsked
  <2> QED BY <2>1, <2>2, <2>3, <2>4 DEF Inv
<1> QED BY <1>1, <1>2

LEMMA Invariance == Spec => []Inv
BY InvInit, InvNext, PTL DEF Spec

LEMMA InvGivesTypes == Inv => TypeOK
<1> SUFFICES ASSUME Inv PROVE TypeOK
  OBVIOUS
<1> USE DEF Inv, Types
<1>1. \A list \in Blocks : Range(list) \subseteq Block
  BY ListedIs DEF Range
<1>2. Len(sessions) <= Cardinality(Client)
  <2>1. Attached \in SUBSET Client /\ IsFiniteSet(Client)
    BY ConfigAssumption DEF Attached
  <2>2. Cardinality(Attached) <= Cardinality(Client) /\ IsFiniteSet(Attached)
    BY <2>1, FS_Subset
  <2>3. Cardinality(Attached) \in Nat /\ Cardinality(Client) \in Nat /\ Len(sessions) \in Nat
    BY <2>1, <2>2, FS_CardinalityType, LenProperties DEF Blocks
  <2> QED BY <2>2, <2>3 DEF Room
<1>3. /\ \A c \in Client : ws[c].at \in {"start", "matched", "append", "write", "added",
                                       "ask", "attached", "failed"}
      /\ loop.at \in {"idle", "read", "write", "drop", "truncate", "fill", "reload"}
  BY StateFields, LoopFields
<1>4. file.rest \in BOOLEAN /\ Range(file.blocks) \cup Range(memory) \subseteq Block
  BY <1>1 DEF File
<1>5. history.kept \subseteq history.ever /\ history.ever \subseteq Block
  BY DEF Known, History
<1>6. rules \in [Dir -> [body : {"none", "own", "starter"}, template : Template \cup {None}]]
  BY DEF Rules
<1> QED BY <1>1, <1>2, <1>3, <1>4, <1>5, <1>6 DEF TypeOK

\* Whatever clients and the interface's user do, and however many of them,
\* every variable has its type, the configuration in memory names no workspace
\* twice (load.rs, validate), and as long as nobody wrote
\* back an overtaken copy the file can be loaded and holds exactly what was
\* added and not removed (new_project.rs, append_project_block and
\* remove_workspace_block).
THEOREM EditsAreKept == Spec => []FileKeepsEdits
<1>1. Inv => FileKeepsEdits
  BY InvGivesTypes DEF FileKeepsEdits, Inv, NotOvertaken
<1> QED BY <1>1, Invariance, PTL

\* A client of `hat ws` ends in a container of a directory that its own lies
\* in, unless one name has stood for two directories: workspaces are matched
\* by path and attached to by name (workspace.rs), and found by name for a
\* launch (launch.rs, handle_workspace_launch_request).
THEOREM EndsInItsPlace == Spec => []EndsWhereAsked
<1>1. Inv => EndsWhereAsked
  BY DEF Inv
<1> QED BY <1>1, Invariance, PTL

-----------------------------------------------------------------------------
(* WHAT A SESSION IS LAUNCHED WITH *)

\* What the files of the host hold: nothing that is made for a copy.
HostHolds == SUBSET (Session \cup {"host", "oauth", "refresh"})
HostOK == host \in [HostFile -> {Missing} \cup HostHolds]

LEMMA HostContents ==
  ASSUME HostOK, NEW f \in HostFile, host[f] # Missing
  PROVE  host[f] \in Contents /\ "onboarded" \notin host[f] /\ "keychain" \notin host[f]
<1>1. host[f] \in HostHolds
  BY DEF HostOK
<1> QED BY <1>1, LaunchAssumption DEF HostHolds, Contents, Trace

-----------------------------------------------------------------------------
(* Mounts *)

\* No two mounts of a list are in one place.
Apart(ms) == \A i, j \in DOMAIN ms : ms[i].container = ms[j].container => i = j

LEMMA WithMountIs ==
  ASSUME NEW M, NEW ms \in Seq(M), NEW m \in M, Apart(ms)
  PROVE  WithMount(ms, m) \in Seq(M) /\ Apart(WithMount(ms, m))
<1> DEFINE n == Len(ms)
           put == [i \in DOMAIN ms |-> IF ms[i].container = m.container THEN m ELSE ms[i]]
<1>1. n \in Nat /\ DOMAIN ms = 1 .. n /\ \A i \in 1 .. n : ms[i] \in M
  BY LenProperties, ElementOfSeq
<1> HIDE DEF n
<1>2. CASE \E i \in DOMAIN ms : ms[i].container = m.container
  <2>1. WithMount(ms, m) = put
    BY <1>2 DEF WithMount
  <2>2. \A i \in 1 .. n : put[i] \in M /\ put[i].container = ms[i].container
    BY <1>1
  <2>3. put \in Seq(M) /\ DOMAIN put = 1 .. n
    <3>1. put = [i \in 1 .. n |-> put[i]]
      BY <1>1
    <3> HIDE DEF put
    <3>2. [i \in 1 .. n |-> put[i]] \in Seq(M)
      BY <1>1, <2>2, IsASeq
    <3> QED BY <3>1, <3>2
  <2>4. Apart(put)
    <3> HIDE DEF put
    <3> QED BY <1>1, <2>2, <2>3 DEF Apart
  <2> QED BY <2>1, <2>3, <2>4
<1>3. CASE ~\E i \in DOMAIN ms : ms[i].container = m.container
  <2> DEFINE new == Append(ms, m)
  <2>1. WithMount(ms, m) = new
    BY <1>3 DEF WithMount
  <2>2. /\ new \in Seq(M) /\ DOMAIN new = 1 .. n + 1 /\ new[n + 1] = m
        /\ \A i \in 1 .. n : new[i] = ms[i]
    BY AppendProperties, LenProperties DEF n
  <2> HIDE DEF new
  <2>3. ASSUME NEW i \in 1 .. n + 1, NEW j \in 1 .. n + 1, new[i].container = new[j].container
        PROVE  i = j
    <3>1. (i = n + 1 \/ i \in 1 .. n) /\ (j = n + 1 \/ j \in 1 .. n)
      BY <1>1
    <3> QED BY <1>1, <1>3, <2>2, <2>3, <3>1 DEF Apart
  <2> QED BY <2>1, <2>2, <2>3 DEF Apart
<1> QED BY <1>2, <1>3

LEMMA MergedIs ==
  ASSUME NEW M, NEW layers \in Seq(M)
  PROVE  Merged(layers) \in Seq(M) /\ Apart(Merged(layers))
<1> DEFINE S == {ms \in Seq(M) : Apart(ms)}
           N == Len(layers)
           Defined(f) == f = [n \in 0 .. N |-> IF n = 0 THEN <<>> ELSE WithMount(f[n - 1], layers[n])]
           step == [n \in 1 .. N |-> [ms \in S |-> WithMount(ms, layers[n])]]
<1>1. N \in Nat /\ \A n \in 1 .. N : layers[n] \in M
  BY LenProperties, ElementOfSeq
<1>2. <<>> \in S
  BY EmptySeq DEF Apart
<1>3. ASSUME NEW n \in 1 .. N, NEW ms \in S PROVE WithMount(ms, layers[n]) \in S
  BY <1>1, WithMountIs
<1> HIDE DEF N, S
<1>4. step \in [1 .. N -> [S -> S]] /\ \A n \in 1 .. N, ms \in S : step[n][ms] = WithMount(ms, layers[n])
  BY <1>3
<1> HIDE DEF step
<1>5. \E f : Defined(f)
  <2> DEFINE e == <<>>
  <2>0. e \in S
    BY <1>2
  <2> HIDE DEF e
  <2>1. PICK g \in [0 .. N -> S] : g[0] = e /\ \A i \in 1 .. N : g[i] = step[i][g[i - 1]]
    <3>1. N \in Nat /\ step \in [1 .. N -> [S -> S]]
      BY <1>1, <1>4
    <3> QED BY <2>0, <3>1, Recursion
  <2>2. ASSUME NEW n \in 0 .. N PROVE g[n] = IF n = 0 THEN e ELSE WithMount(g[n - 1], layers[n])
    <3>1. n # 0 => n \in 1 .. N /\ n - 1 \in 0 .. N
      BY <1>1
    <3> QED BY <1>4, <2>1, <3>1
  <2>3. g = [n \in 0 .. N |-> IF n = 0 THEN e ELSE WithMount(g[n - 1], layers[n])]
    BY <2>2
  <2> QED BY <2>3 DEF e
<1> DEFINE f == CHOOSE f : Defined(f)
<1>6. Defined(f)
  BY <1>5
<1>7. Merged(layers) = f[N]
  BY DEF Merged, N
<1> HIDE DEF f
<1>8. f[0] = <<>> /\ \A i \in 1 .. N : f[i] = WithMount(f[i - 1], layers[i])
  <2>1. 0 \in 0 .. N /\ \A i \in 1 .. N : i \in 0 .. N /\ i # 0
    BY <1>1
  <2> QED BY <1>6, <2>1
<1>9. \A i \in 0 .. N : f[i] \in S
  <2>1. f[0] \in S /\ \A i \in 1 .. N : f[i - 1] \in S => f[i] \in S
    BY <1>2, <1>3, <1>8
  <2> QED BY <1>1, <2>1, Carried
<1> QED BY <1>1, <1>7, <1>9 DEF S

\* What comes first is not mounted deeper.
Shallower(M) == {p \in M \X M : Len(p[1].container) <= Len(p[2].container)}
Measured(M) == \A m \in M : Len(m.container) \in Nat

LEMMA InsertedIs ==
  ASSUME NEW M, NEW ms \in Seq(M), NEW m \in M
  PROVE  /\ Inserted(ms, m) \in Seq(M)
         /\ Range(Inserted(ms, m)) = Range(ms) \cup {m}
         /\ IsInjective(ms) /\ m \notin Range(ms) => IsInjective(Inserted(ms, m))
         /\ Measured(M) /\ Ordered(ms, Shallower(M)) => Ordered(Inserted(ms, m), Shallower(M))
<1> DEFINE deeper == {r \in Range(ms) : Len(r.container) > Len(m.container)}
           before == Keeping(ms, Range(ms) \ deeper)
           after == Keeping(ms, deeper)
<1>1. /\ before \in Seq(M) /\ Range(before) = Range(ms) \ deeper
      /\ after \in Seq(M) /\ Range(after) = deeper
      /\ IsInjective(ms) => IsInjective(before) /\ IsInjective(after)
      /\ Ordered(ms, Shallower(M)) =>
           Ordered(before, Shallower(M)) /\ Ordered(after, Shallower(M))
  <2> HIDE DEF deeper
  <2>1. /\ Keeping(ms, Range(ms) \ deeper) \in Seq(M)
        /\ Range(Keeping(ms, Range(ms) \ deeper)) = Range(ms) \cap (Range(ms) \ deeper)
        /\ IsInjective(ms) => IsInjective(Keeping(ms, Range(ms) \ deeper))
    BY KeepingIs
  <2>2. /\ Keeping(ms, deeper) \in Seq(M)
        /\ Range(Keeping(ms, deeper)) = Range(ms) \cap deeper
        /\ IsInjective(ms) => IsInjective(Keeping(ms, deeper))
    BY KeepingIs
  <2>3. deeper \subseteq Range(ms)
    BY DEF deeper
  <2>4. Ordered(ms, Shallower(M)) =>
          /\ Ordered(Keeping(ms, Range(ms) \ deeper), Shallower(M))
          /\ Ordered(Keeping(ms, deeper), Shallower(M))
    BY KeepingOrder
  <2> QED BY <2>1, <2>2, <2>3, <2>4
<1>2. Inserted(ms, m) = before \o <<m>> \o after
  BY DEF Inserted
<1>3. /\ deeper \subseteq Range(ms) /\ Range(ms) \subseteq M
      /\ Measured(M) => /\ \A r \in Range(ms) \ deeper : <<r, m>> \in Shallower(M)
                        /\ \A r \in deeper : <<m, r>> \in Shallower(M)
                        /\ \A r \in Range(ms) \ deeper, q \in deeper : <<r, q>> \in Shallower(M)
  <2>1. Range(ms) \subseteq M
    BY ElementOfSeq DEF Range
  <2> QED BY <2>1 DEF Shallower, Measured
<1> HIDE DEF before, after, deeper
<1> DEFINE one == <<m>>
           start == before \o one
<1>4. /\ one \in Seq(M) /\ Range(one) = {m} /\ IsInjective(one)
      /\ Ordered(one, Shallower(M))
  BY One DEF Ordered
<1> HIDE DEF one
<1>5. /\ start \in Seq(M) /\ Range(start) = (Range(ms) \ deeper) \cup {m}
      /\ IsInjective(ms) /\ m \notin Range(ms) => IsInjective(start)
  BY <1>1, <1>4, Joined
<1>7. Measured(M) /\ Ordered(ms, Shallower(M)) => Ordered(start, Shallower(M))
  BY <1>1, <1>3, <1>4, JoinedOrder
<1> HIDE DEF start
<1>8. Measured(M) /\ Ordered(ms, Shallower(M)) => Ordered(start \o after, Shallower(M))
  BY <1>1, <1>3, <1>5, <1>7, JoinedOrder
<1>6. /\ start \o after \in Seq(M)
      /\ Range(start \o after) = Range(ms) \cup {m}
      /\ IsInjective(ms) /\ m \notin Range(ms) => IsInjective(start \o after)
  BY <1>1, <1>3, <1>5, Joined
<1> QED BY <1>2, <1>6, <1>8 DEF start, one

LEMMA ByDepthIs ==
  ASSUME NEW M, NEW ms \in Seq(M)
  PROVE  /\ ByDepth(ms) \in Seq(M)
         /\ Range(ByDepth(ms)) = Range(ms)
         /\ IsInjective(ms) => IsInjective(ByDepth(ms))
         /\ Measured(M) => Ordered(ByDepth(ms), Shallower(M))
<1> DEFINE S == Seq(M)
           N == Len(ms)
           Defined(f) == f = [n \in 0 .. N |-> IF n = 0 THEN <<>> ELSE Inserted(f[n - 1], ms[n])]
           step == [n \in 1 .. N |-> [x \in S |-> Inserted(x, ms[n])]]
           Firsts(n) == {ms[i] : i \in 1 .. n}
           Good(x, n) == /\ x \in S /\ Range(x) = Firsts(n)
                         /\ IsInjective(ms) => IsInjective(x)
                         /\ Measured(M) => Ordered(x, Shallower(M))
<1>1. N \in Nat /\ DOMAIN ms = 1 .. N /\ \A n \in 1 .. N : ms[n] \in M
  BY LenProperties, ElementOfSeq
<1>2. <<>> \in S
  BY EmptySeq
<1> HIDE DEF N
<1>3. ASSUME NEW n \in 1 .. N, NEW x \in S PROVE Inserted(x, ms[n]) \in S
  BY <1>1, InsertedIs
<1> HIDE DEF S
<1>4. step \in [1 .. N -> [S -> S]] /\ \A n \in 1 .. N, x \in S : step[n][x] = Inserted(x, ms[n])
  BY <1>3
<1> HIDE DEF step
<1>5. \E f : Defined(f)
  <2> DEFINE e == <<>>
  <2>0. e \in S
    BY <1>2
  <2> HIDE DEF e
  <2>1. PICK g \in [0 .. N -> S] : g[0] = e /\ \A i \in 1 .. N : g[i] = step[i][g[i - 1]]
    <3>1. N \in Nat /\ step \in [1 .. N -> [S -> S]]
      BY <1>1, <1>4
    <3> QED BY <2>0, <3>1, Recursion
  <2>2. ASSUME NEW n \in 0 .. N PROVE g[n] = IF n = 0 THEN e ELSE Inserted(g[n - 1], ms[n])
    <3>1. n # 0 => n \in 1 .. N /\ n - 1 \in 0 .. N
      BY <1>1
    <3> QED BY <1>4, <2>1, <3>1
  <2>3. g = [n \in 0 .. N |-> IF n = 0 THEN e ELSE Inserted(g[n - 1], ms[n])]
    BY <2>2
  <2> QED BY <2>3 DEF e
<1> DEFINE f == CHOOSE f : Defined(f)
<1>6. Defined(f)
  BY <1>5
<1>7. ByDepth(ms) = f[N]
  BY DEF ByDepth, N
<1> HIDE DEF f
<1>8. f[0] = <<>> /\ \A i \in 1 .. N : f[i] = Inserted(f[i - 1], ms[i])
  <2>1. 0 \in 0 .. N /\ \A i \in 1 .. N : i \in 0 .. N /\ i # 0
    BY <1>1
  <2> QED BY <1>6, <2>1
<1> DEFINE Bad == {n \in 0 .. N : ~Good(f[n], n)}
<1>9. Good(f[0], 0)
  <2>1. /\ f[0] \in S /\ Range(f[0]) = {} /\ IsInjective(f[0])
        /\ Ordered(f[0], Shallower(M))
    BY <1>2, <1>8 DEF Range, IsInjective, Ordered
  <2> QED BY <2>1
<1>10. ASSUME NEW n \in 1 .. N, Good(f[n - 1], n - 1)
       PROVE  Good(f[n], n)
  <2>1. \A i \in 1 .. n : i = n \/ i \in 1 .. n - 1
    OBVIOUS
  <2>2. \A i \in 1 .. n - 1 : i \in 1 .. n /\ i \in 1 .. N /\ n # i
    BY <1>1
  <2>3. Firsts(n) = Firsts(n - 1) \cup {ms[n]} /\ n \in 1 .. n
    BY <2>1, <2>2
  <2>4. IsInjective(ms) => ms[n] \notin Firsts(n - 1)
    BY <1>1, <2>2 DEF IsInjective
  <2> HIDE DEF Firsts
  <2>5. f[n - 1] \in Seq(M) /\ ms[n] \in M
    BY <1>1, <1>10 DEF S
  <2> DEFINE x == f[n - 1]
  <2>6. /\ f[n] \in Seq(M) /\ Range(f[n]) = Range(x) \cup {ms[n]}
        /\ IsInjective(x) /\ ms[n] \notin Range(x) => IsInjective(f[n])
        /\ Measured(M) /\ Ordered(x, Shallower(M)) => Ordered(f[n], Shallower(M))
    <3>1. f[n] = Inserted(x, ms[n])
      BY <1>8
    <3>2. x \in Seq(M)
      BY <2>5
    <3> DEFINE m == ms[n]
    <3>3. m \in M
      BY <2>5
    <3> HIDE DEF x, m
    <3>4. /\ Inserted(x, m) \in Seq(M)
          /\ Range(Inserted(x, m)) = Range(x) \cup {m}
          /\ IsInjective(x) /\ m \notin Range(x) => IsInjective(Inserted(x, m))
          /\ Measured(M) /\ Ordered(x, Shallower(M)) => Ordered(Inserted(x, m), Shallower(M))
      BY <3>2, <3>3, InsertedIs
    <3> QED BY <3>1, <3>4 DEF m
  <2> QED BY <1>10, <2>3, <2>4, <2>6 DEF S
<1>11. Bad = {}
  <2> HIDE DEF Good
  <2>1. Bad \in SUBSET (0 .. N) /\ 0 \notin Bad
    BY <1>9
  <2>2. \A i \in 1 .. N : i - 1 \notin Bad => i \notin Bad
    <3> TAKE i \in 1 .. N
    <3>1. i - 1 \in 0 .. N
      BY <1>1
    <3> QED BY <1>10, <3>1
  <2> HIDE DEF Bad
  <2> QED BY <1>1, <2>1, <2>2, NoCounterexample
<1>12. Good(f[N], N)
  <2> HIDE DEF Good
  <2>1. N \in 0 .. N
    BY <1>1
  <2> QED BY <1>11, <2>1
<1>13. Firsts(N) = Range(ms)
  BY <1>1 DEF Range
<1> HIDE DEF Firsts
<1> QED BY <1>7, <1>12, <1>13 DEF S

\* The places the launch itself knows are paths.
LEMMA PathsOfNames == /\ Settings \in Path /\ Config \in Path /\ <<"hostdo">> \in Path
<1>1. {"coder", ".claude", "settings.json", ".claude.json", "hostdo"} \subseteq Label
  BY LaunchAssumption DEF Config, Settings, Range
<1>2. /\ <<"coder", ".claude", "settings.json">> \in Seq(Label)
      /\ <<"coder", ".claude.json">> \in Seq(Label)
      /\ <<"hostdo">> \in Seq(Label)
  BY <1>1
<1>3. /\ Len(<<"coder", ".claude", "settings.json">>) = 3 /\ Len(<<"coder", ".claude.json">>) = 2
      /\ Len(<<"hostdo">>) = 1 /\ Len(<<>>) = 0
  OBVIOUS
<1> QED BY <1>2, <1>3 DEF Settings, Config, Path

Layered(t) == Range(t.defaults \o t.state \o t.profile)
Mounted(t) == Layered(t) \cup Range(SettingsMount(t))

LEMMA AllMountsIs ==
  ASSUME NEW t \in Profile
  PROVE  /\ AllMounts(t) \in Seq(Mount)
         /\ Range(AllMounts(t)) \subseteq Mounted(t)
         /\ PlacesDiffer => Apart(AllMounts(t))
         /\ Ordered(AllMounts(t), Shallower(Mount))
<1> DEFINE present == {m \in Range(t.state) : Exists(m.host)}
           layers == t.defaults \o Keeping(t.state, present) \o t.profile
           mine == SettingsMount(t)
           ms == Mounts(t) \o mine
<1>1. t.defaults \in Seq(Mount) /\ t.state \in Seq(Mount) /\ t.profile \in Seq(Mount)
  BY LaunchAssumption
<1>2. Keeping(t.state, present) \in Seq(Mount) /\ Range(Keeping(t.state, present)) \subseteq Range(t.state)
  <2> HIDE DEF present
  <2> QED BY <1>1, KeepingIs
<1>3. Layered(t) = Range(t.defaults) \cup Range(t.state) \cup Range(t.profile)
  <2>1. /\ t.defaults \o t.state \in Seq(Mount)
        /\ Range(t.defaults \o t.state) = Range(t.defaults) \cup Range(t.state)
    BY <1>1, Joined
  <2>2. Range((t.defaults \o t.state) \o t.profile) = Range(t.defaults \o t.state) \cup Range(t.profile)
    <3> DEFINE x == t.defaults \o t.state
    <3>1. x \in Seq(Mount)
      BY <2>1
    <3> HIDE DEF x
    <3>2. Range(x \o t.profile) = Range(x) \cup Range(t.profile)
      BY <1>1, <3>1, Joined
    <3> QED BY <3>2 DEF x
  <2> QED BY <2>1, <2>2 DEF Layered
<1>4. layers \in Seq(Mount) /\ Range(layers) \subseteq Layered(t)
  <2> DEFINE kept == Keeping(t.state, present)
  <2> HIDE DEF kept
  <2>1. /\ t.defaults \o kept \in Seq(Mount)
        /\ Range(t.defaults \o kept) = Range(t.defaults) \cup Range(kept)
    BY <1>1, <1>2, Joined DEF kept
  <2> DEFINE x == t.defaults \o kept
  <2>2. x \o t.profile \in Seq(Mount) /\ Range(x \o t.profile) = Range(x) \cup Range(t.profile)
    <3> HIDE DEF x
    <3>1. x \in Seq(Mount)
      BY <2>1 DEF x
    <3> QED BY <1>1, <3>1, Joined
  <2>3. layers = x \o t.profile
    BY DEF kept
  <2> QED BY <1>2, <1>3, <2>1, <2>2, <2>3 DEF kept
<1>5. Mounts(t) = Merged(layers)
  BY DEF Mounts
<1> HIDE DEF layers
<1>6. Mounts(t) \in Seq(Mount) /\ Range(Mounts(t)) \subseteq Layered(t) /\ Apart(Mounts(t))
  <2>1. Merged(layers) \in Seq(Range(layers)) /\ Apart(Merged(layers))
    BY <1>4, OwnRange, MergedIs
  <2>2. Range(Merged(layers)) \subseteq Range(layers)
    BY <2>1, OwnRange
  <2>3. Merged(layers) \in Seq(Mount)
    BY <1>4, MergedIs
  <2> QED BY <1>4, <1>5, <2>1, <2>2, <2>3
<1>7. /\ mine \in Seq(Mount) /\ IsInjective(mine)
      /\ \A m \in Range(mine) : t.settings # NoPath /\ m.container = Settings
  <2>1. CASE t.settings = NoPath
    <3>1. mine = <<>>
      BY <2>1 DEF SettingsMount
    <3> QED BY <3>1, EmptySeq DEF Range, IsInjective
  <2>2. CASE t.settings # NoPath
    <3> DEFINE m == [host |-> t.settings, container |-> Settings, mode |-> "rw", seed |-> "yes"]
    <3>1. mine = <<m>>
      BY <2>2 DEF SettingsMount
    <3>2. t.settings \in Path
      BY <2>2, LaunchAssumption
    <3>3. Settings \in Path
      BY PathsOfNames
    <3>4. m \in Mount /\ m.container = Settings
      BY <3>2, <3>3 DEF Mount
    <3> HIDE DEF m
    <3>5. <<m>> \in Seq(Mount) /\ Range(<<m>>) = {m} /\ IsInjective(<<m>>)
      BY <3>4, One
    <3> QED BY <2>2, <3>1, <3>4, <3>5
  <2> QED BY <2>1, <2>2
<1> HIDE DEF mine
<1>8. /\ ms \in Seq(Mount) /\ Range(ms) \subseteq Mounted(t)
      /\ IsInjective(Mounts(t)) /\ Range(Mounts(t)) \cap Range(mine) = {} => IsInjective(ms)
      /\ Range(ms) = Range(Mounts(t)) \cup Range(mine)
  BY <1>6, <1>7, Joined DEF Mounted, mine
<1>9. AllMounts(t) = ByDepth(ms)
  BY DEF AllMounts, mine
<1> HIDE DEF ms
<1>10. /\ AllMounts(t) \in Seq(Mount) /\ Range(AllMounts(t)) = Range(ms)
       /\ IsInjective(ms) => IsInjective(AllMounts(t))
       /\ Measured(Mount) => Ordered(AllMounts(t), Shallower(Mount))
  BY <1>8, <1>9, ByDepthIs
<1>12. Measured(Mount)
  BY LenProperties DEF Measured, Mount, Path
<1>11. ASSUME PlacesDiffer
       PROVE  Apart(AllMounts(t))
  <2>1. t.settings # NoPath => \A m \in Layered(t) : m.container # Settings
    BY <1>11 DEF PlacesDiffer, Layered
  <2>2. \A m \in Range(Mounts(t)), n \in Range(mine) : m.container # n.container
    BY <1>6, <1>7, <2>1
  <2>3. IsInjective(Mounts(t))
    BY <1>6 DEF Apart, IsInjective
  <2>4. IsInjective(AllMounts(t))
    BY <1>8, <1>10, <2>2, <2>3
  <2>5. \A m, n \in Range(Mounts(t)) : m.container = n.container => m = n
    BY <1>6 DEF Apart, Range
  <2>6. \A m, n \in Range(mine) : m = n
    BY DEF mine, SettingsMount, Range
  <2>7. \A m, n \in Range(AllMounts(t)) : m.container = n.container => m = n
    BY <1>8, <1>10, <2>2, <2>5, <2>6
  <2>8. \A i \in DOMAIN AllMounts(t) : AllMounts(t)[i] \in Range(AllMounts(t))
    BY DEF Range
  <2> QED BY <2>4, <2>7, <2>8 DEF Apart, IsInjective
<1> QED BY <1>8, <1>10, <1>11, <1>12

\* What a copy holds.
LEMMA CopyHolds ==
  ASSUME HostOK, NEW m \in Mount, NEW token \in BOOLEAN, Copy(m, token) # Missing
  PROVE  /\ Copy(m, token) \in Contents
         /\ "onboarded" \in Copy(m, token) => token
         /\ token /\ Last(m.container) \in {".claude.json", ".credentials.json"}
              => Copy(m, token) \cap {"oauth", "refresh", "keychain"} = {}
<1> DEFINE config == Last(m.container) = ".claude.json"
           emptied == token /\ Last(m.container) = ".credentials.json"
           isFile == m.host \in HostFile /\ host[m.host] # Missing
           contents == IF isFile /\ ~emptied THEN host[m.host] ELSE {}
<1>1. contents \in Contents /\ "onboarded" \notin contents
  BY HostContents DEF Contents
<1>2. Copy(m, token) = IF ~config THEN contents
                       ELSE IF token THEN Onboarded(contents) ELSE WithKeychain(contents)
  BY DEF Copy
<1>3. /\ Onboarded(contents) \in Contents
      /\ Onboarded(contents) \cap {"oauth", "refresh", "keychain"} = {}
  BY <1>1 DEF Onboarded, Contents, Trace
<1>4. WithKeychain(contents) \in Contents /\ "onboarded" \notin WithKeychain(contents)
  BY <1>1 DEF WithKeychain, Contents, Trace
<1>5. emptied => contents = {}
  OBVIOUS
<1> HIDE DEF contents, isFile
<1> QED BY <1>1, <1>2, <1>3, <1>4, <1>5 DEF Contents

\* The login of a session that is launched now.
LEMMA EnvironmentHolds ==
  ASSUME NEW t \in Profile, hostEnv \in HostEnv, keychain \in BOOLEAN
  PROVE  /\ TokensAreGiven /\ TokenAvailable(t)
              => NonEmpty(Environment(t), "TOKEN") /\ "MARKER" \in DOMAIN Environment(t)
         /\ NonEmpty(Environment(t), "TOKEN") => TokenAvailable(t)
<1> DEFINE passed == {n \in t.passthrough \ DOMAIN t.env : n \in DOMAIN hostEnv}
           added == {n \in {"MARKER", "SCOPES"} :
                       TokenAvailable(t) /\ (Injected(t) \/ ~Given(t, n))}
           token == IF Injected(t) THEN {"TOKEN"} ELSE {}
           names == passed \cup added \cup token \cup DOMAIN t.env
           value(n) == IF n \in passed THEN hostEnv[n] ELSE IF n \in added THEN "added"
                       ELSE IF n \in token THEN "keychain" ELSE t.env[n]
<1>1. Environment(t) = [n \in names |-> value(n)]
  BY Zenon DEF Environment
<1>2. NonEmpty(Environment(t), "TOKEN") <=> "TOKEN" \in names /\ value("TOKEN") # "empty"
  <2> HIDE DEF names, value
  <2> QED BY <1>1 DEF NonEmpty
<1>3. DOMAIN Environment(t) = names
  <2> HIDE DEF names, value
  <2> QED BY <1>1
<1>4. Injected(t) => ~Given(t, "TOKEN")
  BY DEF Injected, Secret
<1>5. "TOKEN" \notin added
  OBVIOUS
<1>6. ASSUME TokensAreGiven, TokenAvailable(t)
      PROVE  "TOKEN" \in names /\ value("TOKEN") # "empty" /\ "MARKER" \in names
  <2>1. "TOKEN" \in t.passthrough /\ "TOKEN" \in DOMAIN hostEnv => hostEnv["TOKEN"] # "empty"
    BY <1>6 DEF TokensAreGiven
  <2>2. "TOKEN" \in t.passthrough /\ "TOKEN" \in DOMAIN t.env => t.env["TOKEN"] # "empty"
    BY <1>6 DEF TokensAreGiven
  <2>3. "MARKER" \in names
    BY <1>6 DEF Given, NonEmpty
  <2>4. "TOKEN" \in names
    BY <1>6 DEF TokenAvailable, Given, NonEmpty
  <2>5. value("TOKEN") # "empty"
    <3>1. CASE "TOKEN" \in passed
      BY <2>1, <3>1
    <3>2. CASE "TOKEN" \notin passed /\ Injected(t)
      BY <1>5, <3>2
    <3>3. CASE "TOKEN" \notin passed /\ ~Injected(t)
      <4>1. value("TOKEN") = t.env["TOKEN"] /\ "TOKEN" \in DOMAIN t.env
        BY <1>5, <2>4, <3>3
      <4>2. Given(t, "TOKEN")
        BY <1>6, <3>3 DEF TokenAvailable
      <4>3. t.env["TOKEN"] # "empty"
        BY <2>2, <4>1, <4>2 DEF Given, NonEmpty
      <4> QED BY <4>1, <4>3
    <3> QED BY <3>1, <3>2, <3>3
  <2> QED BY <2>3, <2>4, <2>5
<1>7. ASSUME "TOKEN" \in names, value("TOKEN") # "empty"
      PROVE  TokenAvailable(t)
  <2>1. CASE "TOKEN" \in passed
    BY <1>7, <2>1 DEF TokenAvailable, Given, NonEmpty
  <2>2. CASE "TOKEN" \notin passed /\ Injected(t)
    BY <2>2 DEF TokenAvailable
  <2>3. CASE "TOKEN" \notin passed /\ ~Injected(t)
    BY <1>5, <1>7, <2>3 DEF TokenAvailable, Given, NonEmpty
  <2> QED BY <2>1, <2>2, <2>3
<1> QED BY <1>2, <1>3, <1>6, <1>7

-----------------------------------------------------------------------------
(* Plans *)

Binding == [source : {"private", "host"} \X Path, target : Path, mode : {"ro", "rw"}]

LEMMA ABind ==
  ASSUME NEW p \in Path, NEW q \in Path, NEW mode \in {"ro", "rw"}
  PROVE  /\ Bind(Private(p), q, mode) \in Binding /\ Bind(OnHost(p), q, mode) \in Binding
         /\ Bind(Private(p), q, mode).target = q /\ Bind(OnHost(p), q, mode).target = q
         /\ Bind(Private(p), q, mode).source[1] = "private"
         /\ Bind(OnHost(p), q, mode).source[1] = "host"
BY DEF Bind, Private, OnHost, Binding

MountPlaces(binds) == {b.target : b \in Range(binds)}

\* Where the mounts of a list are, each in a place of its own.
Placed(binds, places) ==
  /\ binds \in Seq(Binding) /\ IsInjective(binds) /\ MountPlaces(binds) \subseteq places
  /\ \A b, c \in Range(binds) : b.target = c.target => b = c

\* What one mount is bound as: its copy, nothing, or the host's own, which is
\* also shown, read-only, where the host has it.
LEMMA BindsCases ==
  ASSUME HostOK, NEW m \in Mount, NEW token \in BOOLEAN
  PROVE  \/ /\ Copy(m, token) # Missing
            /\ Binds(m, token) = <<Bind(Private(m.container), m.container, m.mode)>>
         \/ Copy(m, token) = Missing /\ Binds(m, token) = <<>>
         \/ /\ Copy(m, token) = Missing /\ Shown(m)
            /\ Binds(m, token) = <<Bind(OnHost(m.host), m.container, m.mode)>>
         \/ /\ Copy(m, token) = Missing /\ Shown(m) /\ m.host # m.container
            /\ Binds(m, token) = <<Bind(OnHost(m.host), m.container, m.mode),
                                   Bind(OnHost(m.host), m.host, "ro")>>
<1> DEFINE first == Bind(OnHost(m.host), m.container, m.mode)
           second == Bind(OnHost(m.host), m.host, "ro")
           own == Bind(Private(m.container), m.container, m.mode)
<1>1. Copy(m, token) = Missing /\ Exists(m.host) => Shown(m)
  <2> SUFFICES ASSUME Copy(m, token) = Missing, m.host \in HostFile, host[m.host] # Missing, IsSeeded(m)
               PROVE  FALSE
    BY DEF Exists, Shown
  <2>1. host[m.host] \in Contents
    BY HostContents
  <2>2. {} \in Contents
    BY DEF Contents
  <2>3. \A c \in Contents : Onboarded(c) \in Contents /\ WithKeychain(c) \in Contents
    BY DEF Onboarded, WithKeychain, Contents, Trace
  <2>4. Copy(m, token) \in Contents
    BY <2>1, <2>2, <2>3 DEF Copy
  <2> QED BY <2>4, LaunchAssumption
<1>2. Binds(m, token) = IF Copy(m, token) # Missing THEN <<own>>
                        ELSE IF ~Exists(m.host) THEN <<>>
                        ELSE IF m.host = m.container THEN <<first>> ELSE <<first, second>>
  BY Zenon DEF Binds, first, second, own
<1> QED BY Zenon, <1>1, <1>2 DEF first, second, own

LEMMA BindsAre ==
  ASSUME HostOK, NEW m \in Mount, NEW token \in BOOLEAN
  PROVE  /\ Placed(Binds(m, token), {m.container} \cup (IF Shown(m) THEN {m.host} ELSE {}))
         /\ \A b \in Range(Binds(m, token)) : b.source[1] = "private" =>
              b.target = m.container /\ Copy(m, token) # Missing
<1> DEFINE first == Bind(OnHost(m.host), m.container, m.mode)
           second == Bind(OnHost(m.host), m.host, "ro")
           own == Bind(Private(m.container), m.container, m.mode)
           binds == Binds(m, token)
<1>1. m.host \in Path /\ m.container \in Path /\ m.mode \in {"ro", "rw"}
  BY DEF Mount
<1>2. /\ first \in Binding /\ first.target = m.container /\ first.source[1] # "private"
      /\ second \in Binding /\ second.target = m.host /\ second.source[1] # "private"
      /\ own \in Binding /\ own.target = m.container
  BY <1>1, ABind
<1> HIDE DEF first, second, own
<1>4. \/ binds = <<own>> /\ Copy(m, token) # Missing
      \/ binds = <<>>
      \/ binds = <<first>>
      \/ binds = <<first, second>> /\ Shown(m) /\ m.host # m.container
  BY Zenon, BindsCases DEF first, second, own
<1> HIDE DEF binds
<1>5. CASE binds = <<own>> /\ Copy(m, token) # Missing
  <2>1. binds \in Seq(Binding) /\ Range(binds) = {own} /\ IsInjective(binds)
    BY <1>2, <1>5, One
  <2> QED BY <1>2, <1>5, <2>1 DEF Placed, MountPlaces, binds
<1>6. CASE binds = <<>>
  <2>1. binds \in Seq(Binding) /\ Range(binds) = {} /\ IsInjective(binds)
    BY <1>6, EmptySeq DEF Range, IsInjective
  <2> QED BY <2>1 DEF Placed, MountPlaces, binds
<1>7. CASE binds = <<first>>
  <2>1. binds \in Seq(Binding) /\ Range(binds) = {first} /\ IsInjective(binds)
    BY <1>2, <1>7, One
  <2> QED BY <1>2, <2>1 DEF Placed, MountPlaces, binds
<1>8. CASE binds = <<first, second>> /\ Shown(m) /\ m.host # m.container
  <2>1. binds \in Seq(Binding) /\ Range(binds) = {first, second}
    BY <1>2, <1>8 DEF Range
  <2>2. first # second
    BY <1>2, <1>8
  <2>3. IsInjective(binds)
    BY <1>8, <2>2 DEF IsInjective
  <2> QED BY <1>2, <1>8, <2>1, <2>3 DEF Placed, MountPlaces, binds
<1> QED BY <1>4, <1>5, <1>6, <1>7, <1>8

LEMMA JoinedPlaces ==
  ASSUME NEW P, NEW Q, NEW x, NEW y, Placed(x, P), Placed(y, Q), P \cap Q = {}
  PROVE  Placed(x \o y, P \cup Q) /\ Range(x \o y) = Range(x) \cup Range(y)
<1>1. x \in Seq(Binding) /\ y \in Seq(Binding) /\ Range(x) \cap Range(y) = {}
  BY DEF Placed, MountPlaces
<1>2. /\ x \o y \in Seq(Binding) /\ Range(x \o y) = Range(x) \cup Range(y)
      /\ IsInjective(x \o y)
  BY <1>1, Joined DEF Placed
<1>3. \A b \in Range(x) : b.target \in P
  BY DEF Placed, MountPlaces
<1>4. \A b \in Range(y) : b.target \in Q
  BY DEF Placed, MountPlaces
<1>5. \A b, c \in Range(x \o y) : b.target = c.target => b = c
  BY <1>2, <1>3, <1>4 DEF Placed
<1> QED BY <1>2, <1>3, <1>4, <1>5 DEF Placed, MountPlaces

\* All mounts of a list.
LEMMA BoundIs ==
  ASSUME HostOK, NEW t \in Profile, NEW token \in BOOLEAN
  PROVE  LET ms == AllMounts(t)
             binds == FlattenSeq([i \in DOMAIN ms |-> Binds(ms[i], token)])
             places == {m.container : m \in Range(ms)}
                         \cup {m.host : m \in {n \in Range(ms) : Shown(n)}}
         IN  /\ binds \in Seq(Binding)
             /\ PlacesDiffer => Placed(binds, places)
             /\ \A b \in Range(binds) : b.source[1] = "private" =>
                  \E i \in DOMAIN ms : b.target = ms[i].container /\ Copy(ms[i], token) # Missing
<1> DEFINE ms == AllMounts(t)
           n == Len(ms)
           lists == [i \in DOMAIN ms |-> Binds(ms[i], token)]
           binds == FlattenSeq(lists)
           places(m) == {m.container} \cup (IF Shown(m) THEN {m.host} ELSE {})
           all == {m.container : m \in Range(ms)} \cup {m.host : m \in {r \in Range(ms) : Shown(r)}}
<1>1. ms \in Seq(Mount) /\ Range(ms) \subseteq Mounted(t) /\ (PlacesDiffer => Apart(ms))
  BY AllMountsIs
<1> HIDE DEF ms
<1>2. n \in Nat /\ DOMAIN ms = 1 .. n /\ \A i \in 1 .. n : ms[i] \in Mount /\ ms[i] \in Range(ms)
  BY <1>1, LenProperties, ElementOfSeq DEF Range
<1> HIDE DEF n
<1>3. ASSUME NEW i \in 1 .. n
      PROVE  /\ Placed(lists[i], places(ms[i]))
             /\ \A b \in Range(lists[i]) : b.source[1] = "private" =>
                  b.target = ms[i].container /\ Copy(ms[i], token) # Missing
  <2>1. lists[i] = Binds(ms[i], token)
    BY <1>2
  <2> DEFINE m == ms[i]
  <2>2. m \in Mount
    BY <1>2
  <2> HIDE DEF m, lists
  <2>3. /\ Placed(Binds(m, token), places(m))
        /\ \A b \in Range(Binds(m, token)) : b.source[1] = "private" =>
             b.target = m.container /\ Copy(m, token) # Missing
    BY <2>2, BindsAre
  <2> QED BY <2>1, <2>3 DEF m
<1>4. lists \in Seq(Seq(Binding)) /\ DOMAIN lists = 1 .. n
  <2>1. lists = [i \in 1 .. n |-> lists[i]]
    BY <1>2
  <2>2. \A i \in 1 .. n : lists[i] \in Seq(Binding)
    BY <1>3 DEF Placed
  <2> HIDE DEF lists
  <2>3. [i \in 1 .. n |-> lists[i]] \in Seq(Seq(Binding))
    BY <1>2, <2>2, IsASeq
  <2> QED BY <2>1, <2>3
<1>5. ASSUME PlacesDiffer, NEW i \in 1 .. n, NEW j \in 1 .. n, i # j
      PROVE  places(ms[i]) \cap places(ms[j]) = {}
  <2>1. ms[i] \in Mounted(t) /\ ms[j] \in Mounted(t) /\ ms[i].container # ms[j].container
    BY <1>1, <1>2, <1>5 DEF Apart
  <2>2. \A a, b \in Mounted(t) : a.container # b.container /\ Shown(a)
          => a.host # b.container /\ (Shown(b) => a.host # b.host)
    BY <1>5 DEF PlacesDiffer, Mounted, Layered
  <2> QED BY <2>1, <2>2
<1> HIDE DEF lists
<1>6. /\ binds \in Seq(Binding)
      /\ Range(binds) = UNION {Range(lists[i]) : i \in 1 .. n}
      /\ (/\ \A i \in 1 .. n : IsInjective(lists[i])
          /\ \A i, j \in 1 .. n : i # j => Range(lists[i]) \cap Range(lists[j]) = {})
         => IsInjective(binds)
  BY <1>4, Flattened
<1>7. \A i \in 1 .. n : \A b \in Range(lists[i]) : b.target \in places(ms[i])
  BY <1>3 DEF Placed, MountPlaces
<1> HIDE DEF places
<1>8. PlacesDiffer => \A i, j \in 1 .. n : i # j => Range(lists[i]) \cap Range(lists[j]) = {}
  BY <1>5, <1>7
<1>9. PlacesDiffer => IsInjective(binds)
  BY <1>3, <1>6, <1>8 DEF Placed
<1>10. PlacesDiffer => \A b, c \in Range(binds) : b.target = c.target => b = c
  <2> SUFFICES ASSUME PlacesDiffer, NEW b \in Range(binds), NEW c \in Range(binds), b.target = c.target
               PROVE  b = c
    OBVIOUS
  <2>1. PICK i \in 1 .. n : b \in Range(lists[i])
    BY <1>6
  <2>2. PICK j \in 1 .. n : c \in Range(lists[j])
    BY <1>6
  <2>3. i = j
    BY <1>5, <1>7, <2>1, <2>2
  <2> QED BY <1>3, <2>1, <2>2, <2>3 DEF Placed
<1>11. \A i \in 1 .. n : places(ms[i]) \subseteq all
  BY <1>2 DEF places
<1>12. PlacesDiffer => Placed(binds, all)
  BY <1>6, <1>7, <1>9, <1>10, <1>11 DEF Placed, MountPlaces
<1>13. \A b \in Range(binds) : b.source[1] = "private" =>
         \E i \in DOMAIN ms : b.target = ms[i].container /\ Copy(ms[i], token) # Missing
  BY <1>2, <1>3, <1>6
<1> QED BY <1>6, <1>12, <1>13 DEF ms, lists

LEMMA OnboardingIs ==
  ASSUME NEW t \in Profile
  PROVE  LET places == IF TokenAvailable(t) /\ \A i \in DOMAIN AllMounts(t) : AllMounts(t)[i].container # Config
                       THEN {Config} ELSE {}
         IN  /\ Placed(Onboarding(t), places) /\ MountPlaces(Onboarding(t)) = places
<1> DEFINE b == Bind(Private(Config), Config, "rw")
           asked == TokenAvailable(t) /\ \A i \in DOMAIN AllMounts(t) : AllMounts(t)[i].container # Config
<1>1. b \in Binding /\ b.target = Config
  BY ABind, PathsOfNames
<1>2. Onboarding(t) = IF asked THEN <<b>> ELSE <<>>
  BY Zenon DEF Onboarding
<1> HIDE DEF b, asked
<1>3. CASE asked
  <2>1. Onboarding(t) \in Seq(Binding) /\ Range(Onboarding(t)) = {b} /\ IsInjective(Onboarding(t))
    BY <1>1, <1>2, <1>3, One
  <2> QED BY <1>1, <1>3, <2>1 DEF Placed, MountPlaces, asked
<1>4. CASE ~asked
  <2>1. Onboarding(t) \in Seq(Binding) /\ Range(Onboarding(t)) = {} /\ IsInjective(Onboarding(t))
    BY <1>2, <1>4, EmptySeq DEF Range, IsInjective
  <2> QED BY <1>4, <2>1 DEF Placed, MountPlaces, asked
<1> QED BY <1>3, <1>4

LEMMA IsToken ==
  ASSUME NEW t \in Profile, keychain \in BOOLEAN
  PROVE  TokenAvailable(t) \in BOOLEAN
BY DEF TokenAvailable, Injected, Given, NonEmpty

LEMMA CopiesAre ==
  ASSUME HostOK, NEW t \in Profile, keychain \in BOOLEAN
  PROVE  /\ Copies(t) \in [DOMAIN Copies(t) -> Contents] /\ DOMAIN Copies(t) \subseteq Path
         /\ \A i \in DOMAIN AllMounts(t) : Copy(AllMounts(t)[i], TokenAvailable(t)) # Missing
              => AllMounts(t)[i].container \in DOMAIN Copies(t)
         /\ MountPlaces(Onboarding(t)) \subseteq DOMAIN Copies(t)
         /\ \A p \in DOMAIN Copies(t) :
              /\ "onboarded" \in Copies(t)[p] => TokenAvailable(t)
              /\ TokenAvailable(t) /\ Last(p) \in {".claude.json", ".credentials.json"}
                   => Copies(t)[p] \cap {"oauth", "refresh", "keychain"} = {}
<1> DEFINE ms == AllMounts(t)
           token == TokenAvailable(t)
           own == {i \in DOMAIN ms : Copy(ms[i], token) # Missing}
           copied == {ms[i].container : i \in own}
           places == MountPlaces(Onboarding(t))
           source(p) == CHOOSE i \in own : ms[i].container = p
           made == [p \in copied \cup places |->
                      IF p \in copied THEN Copy(ms[source(p)], token) ELSE {"onboarded"}]
<1>1. Copies(t) = made
  BY Zenon DEF Copies, MountPlaces
<1>2. \A i \in DOMAIN ms : ms[i] \in Mount /\ ms[i].container \in Path
  <2>1. ms \in Seq(Mount)
    BY AllMountsIs
  <2> HIDE DEF ms
  <2>2. \A i \in DOMAIN ms : ms[i] \in Mount
    BY <2>1, ElementOfSeq, LenProperties
  <2> QED BY <2>2 DEF Mount
<1>3. token \in BOOLEAN
  BY IsToken
<1>4. places \subseteq {Config} /\ (places # {} => token)
  BY OnboardingIs
<1> HIDE DEF ms, token, places
<1>5. ASSUME NEW p \in copied
      PROVE  source(p) \in own /\ ms[source(p)].container = p
  BY <1>5
<1>6. ASSUME NEW p \in copied
      PROVE  /\ Copy(ms[source(p)], token) \in Contents
             /\ "onboarded" \in Copy(ms[source(p)], token) => token
             /\ token /\ Last(p) \in {".claude.json", ".credentials.json"}
                  => Copy(ms[source(p)], token) \cap {"oauth", "refresh", "keychain"} = {}
  <2> DEFINE m == ms[source(p)]
  <2>1. m \in Mount /\ Copy(m, token) # Missing /\ m.container = p
    BY <1>2, <1>5, <1>6
  <2> HIDE DEF m
  <2> QED BY <1>3, <2>1, CopyHolds DEF m
<1> HIDE DEF source
<1>7. {"onboarded"} \in Contents
  BY DEF Contents, Trace
<1>8. copied \cup places \subseteq Path
  BY <1>2, <1>4, PathsOfNames
<1> HIDE DEF copied
<1>9. made \in [copied \cup places -> Contents]
  BY <1>6, <1>7
<1>10. \A p \in copied \cup places : made[p] = IF p \in copied THEN Copy(ms[source(p)], token) ELSE {"onboarded"}
  OBVIOUS
<1>11. DOMAIN made = copied \cup places
  BY <1>9
<1> HIDE DEF made
<1>12. \A p \in DOMAIN made :
         /\ "onboarded" \in made[p] => token
         /\ token /\ Last(p) \in {".claude.json", ".credentials.json"}
              => made[p] \cap {"oauth", "refresh", "keychain"} = {}
  BY <1>4, <1>6, <1>10, <1>11
<1>13. \A i \in DOMAIN ms : Copy(ms[i], token) # Missing => ms[i].container \in copied
  BY DEF copied
<1> QED BY <1>1, <1>8, <1>9, <1>11, <1>12, <1>13 DEF ms, token, places

\* A plan is a list of mounts, what it shows of the session's own is there, and
\* docker takes it.
LEMMA PlanIs ==
  ASSUME HostOK, NEW t \in Profile, NEW w \in Workspace, keychain \in BOOLEAN
  PROVE  /\ Plan(w, t) \in Seq(Binding)
         /\ \A b \in Range(Plan(w, t)) : b.source[1] = "private" =>
              b.target \in DOMAIN Copies(t) \cup {<<"hostdo">>}
         /\ PlacesDiffer => Accepted(Plan(w, t))
<1> DEFINE ms == AllMounts(t)
           token == TokenAvailable(t)
           workspace == Bind(OnHost(w), t.target, "rw")
           hostdo == Bind(Private(<<"hostdo">>), <<"hostdo">>, "ro")
           start == <<workspace, hostdo>>
           bound == FlattenSeq([i \in DOMAIN ms |-> Binds(ms[i], token)])
           last1 == Onboarding(t)
           all == {m.container : m \in Range(ms)} \cup {m.host : m \in {r \in Range(ms) : Shown(r)}}
           places == MountPlaces(last1)
<1>1. Plan(w, t) = (start \o bound) \o last1
  BY Zenon DEF Plan
<1>2. w \in Path /\ t.target \in Path
  BY LaunchAssumption
<1>3. /\ workspace \in Binding /\ workspace.target = t.target /\ workspace.source[1] # "private"
      /\ hostdo \in Binding /\ hostdo.target = <<"hostdo">>
  BY <1>2, ABind, PathsOfNames
<1> HIDE DEF workspace, hostdo
<1>4. start \in Seq(Binding) /\ Range(start) = {workspace, hostdo}
  BY <1>3 DEF Range
<1>5. PlacesDiffer => Placed(start, {t.target, <<"hostdo">>})
  <2> SUFFICES ASSUME PlacesDiffer PROVE Placed(start, {t.target, <<"hostdo">>})
    OBVIOUS
  <2>1. t.target # <<"hostdo">>
    BY DEF PlacesDiffer
  <2>2. IsInjective(start)
    BY <1>3, <2>1 DEF IsInjective
  <2> HIDE DEF start
  <2> QED BY <1>3, <1>4, <2>1, <2>2 DEF Placed, MountPlaces
<1>6. token \in BOOLEAN
  BY IsToken
<1>7. /\ bound \in Seq(Binding)
      /\ PlacesDiffer => Placed(bound, all)
      /\ \A b \in Range(bound) : b.source[1] = "private" =>
           \E i \in DOMAIN ms : b.target = ms[i].container /\ Copy(ms[i], token) # Missing
  BY <1>6, BoundIs
<1>8. /\ Placed(last1, places)
      /\ places \subseteq {Config}
      /\ places # {} => \A i \in DOMAIN ms : ms[i].container # Config
  BY OnboardingIs
<1>9. Range(ms) \subseteq Mounted(t)
  BY AllMountsIs
<1>10. /\ \A i \in DOMAIN ms : Copy(ms[i], token) # Missing => ms[i].container \in DOMAIN Copies(t)
       /\ places \subseteq DOMAIN Copies(t)
  BY CopiesAre
<1> HIDE DEF ms, token, bound, last1, start
<1>11. /\ start \o bound \in Seq(Binding) /\ Range(start \o bound) = Range(start) \cup Range(bound)
  BY <1>4, <1>7, Joined
<1> DEFINE x == start \o bound
<1>12. /\ x \o last1 \in Seq(Binding) /\ Range(x \o last1) = Range(x) \cup Range(last1)
  <2>1. x \in Seq(Binding) /\ last1 \in Seq(Binding)
    BY <1>8, <1>11 DEF Placed
  <2> HIDE DEF x
  <2> QED BY <2>1, Joined
<1>13. \A b \in Range(x \o last1) : b.source[1] = "private" =>
         b.target \in DOMAIN Copies(t) \cup {<<"hostdo">>}
  <2>1. \A b \in Range(last1) : b.target \in DOMAIN Copies(t)
    BY <1>10 DEF MountPlaces
  <2> HIDE DEF x
  <2> QED BY <1>3, <1>4, <1>7, <1>10, <1>11, <1>12, <2>1 DEF x
<1>14. ASSUME PlacesDiffer
       PROVE  Accepted(x \o last1)
  <2>1. \A m \in Range(ms) :
          /\ m.container \notin {t.target, <<"hostdo">>}
          /\ Shown(m) /\ m.host # m.container => m.host \notin {t.target, <<"hostdo">>, Config}
    BY <1>9, <1>14 DEF PlacesDiffer, Mounted, Layered
  <2>2. all \cap {t.target, <<"hostdo">>} = {}
    BY <2>1
  <2>3. Placed(x, {t.target, <<"hostdo">>} \cup all)
    BY <1>5, <1>7, <1>14, <2>2, JoinedPlaces
  <2>4. places \cap ({t.target, <<"hostdo">>} \cup all) = {}
    <3>1. CASE places = {}
      BY <3>1
    <3>2. CASE places # {}
      <4>1. \A m \in Range(ms) : m.container # Config
        BY <1>8, <3>2 DEF Range
      <4>2. Config \notin all
        BY <2>1, <4>1
      <4>3. Config # t.target /\ Config # <<"hostdo">>
        <5>1. Len(Config) = 2 /\ Len(<<"hostdo">>) = 1
          BY DEF Config
        <5> QED BY <1>14, <5>1 DEF PlacesDiffer
      <4> QED BY <1>8, <4>2, <4>3
    <3> QED BY <3>1, <3>2
  <2> HIDE DEF x, all
  <2>5. Placed(x \o last1, ({t.target, <<"hostdo">>} \cup all) \cup places)
    BY <1>8, <2>3, <2>4, JoinedPlaces
  <2>6. \A i \in DOMAIN (x \o last1) : (x \o last1)[i] \in Range(x \o last1)
    BY DEF Range
  <2> QED BY <2>5, <2>6 DEF Accepted, Placed, IsInjective
<1> QED BY <1>1, <1>12, <1>13, <1>14 DEF x

-----------------------------------------------------------------------------
(* Types *)

EnvValue == {"added", "keychain"} \cup UNION {Range(env) : env \in HostEnv \cup {t.env : t \in Profile}}
Launched ==
  [phase : {"none", "starting", "created", "running", "gone"}, workspace : Workspace \cup {Unset},
   dockerfile : Dockerfile \cup {Unset}, built : (Workspace \X Dockerfile) \cup {Unset},
   template : Profile \cup {Unset}, alias : Nat, binds : Seq(Binding),
   copies : UNION {[P -> Contents] : P \in SUBSET Path},
   env : UNION {[N -> EnvValue] : N \in SUBSET EnvName}]

LaunchTypes ==
  /\ HostOK /\ hostEnv \in HostEnv /\ keychain \in BOOLEAN
  /\ image \in [{Tag(w, d) : w \in Workspace, d \in Dockerfile} -> (Workspace \X Dockerfile) \cup {Unset}]
  /\ last \in Nat /\ userEdits \in 0 .. MaxUserEdits
  /\ session \in [Session -> Launched]

\* What becomes of a session in a step that is its own.
Born(s, w, d, t) ==
  [phase |-> "starting", workspace |-> w, dockerfile |-> d, built |-> image[Tag(w, d)],
   template |-> t, alias |-> NextAlias, binds |-> Plan(w, t), copies |-> Copies(t),
   env |-> Environment(t)]
Gone == [NotLaunched EXCEPT !.phase = "gone"]

LEMMA NextAliasIs ==
  ASSUME LaunchTypes, \A s \in Session : session[s].alias <= last
  PROVE  NextAlias = last + 1
<1> DEFINE S == {last} \cup {session[s].alias : s \in Running}
<1>1. last \in S /\ \A x \in S : x \in Nat /\ last >= x
  BY DEF LaunchTypes, Running, Launched
<1>2. Max(S) \in S /\ \A x \in S : Max(S) >= x
  <2>1. \E x \in S : \A y \in S : x >= y
    BY <1>1
  <2> HIDE DEF S
  <2> QED BY <2>1 DEF Max
<1>3. Max(S) = last
  <2> HIDE DEF S
  <2> QED BY <1>1, <1>2
<1> QED BY <1>3 DEF NextAlias

LEMMA EnvironmentType ==
  ASSUME NEW t \in Profile, hostEnv \in HostEnv
  PROVE  Environment(t) \in UNION {[N -> EnvValue] : N \in SUBSET EnvName}
<1> DEFINE passed == {n \in t.passthrough \ DOMAIN t.env : n \in DOMAIN hostEnv}
           added == {n \in {"MARKER", "SCOPES"} :
                       TokenAvailable(t) /\ (Injected(t) \/ ~Given(t, n))}
           token == IF Injected(t) THEN {"TOKEN"} ELSE {}
           names == passed \cup added \cup token \cup DOMAIN t.env
           value(n) == IF n \in passed THEN hostEnv[n] ELSE IF n \in added THEN "added"
                       ELSE IF n \in token THEN "keychain" ELSE t.env[n]
<1>1. Environment(t) = [n \in names |-> value(n)]
  BY Zenon DEF Environment
<1>2. names \subseteq EnvName
  BY LaunchAssumption DEF EnvName, Secret
<1>3. \A n \in DOMAIN hostEnv : hostEnv[n] \in EnvValue
  BY DEF EnvValue, Range
<1>4. \A n \in DOMAIN t.env : t.env[n] \in EnvValue
  BY DEF EnvValue, Range
<1>5. "added" \in EnvValue /\ "keychain" \in EnvValue
  BY DEF EnvValue
<1>6. \A n \in names : value(n) \in EnvValue
  BY <1>3, <1>4, <1>5
<1> HIDE DEF names, value
<1>7. Environment(t) \in [names -> EnvValue]
  BY <1>1, <1>6
<1> QED BY <1>2, <1>7

LEMMA BornType ==
  ASSUME LaunchTypes, NEW s \in Session, NEW w \in Workspace, NEW d \in Dockerfile, NEW t \in Profile,
         image[Tag(w, d)] # Unset, NextAlias \in Nat
  PROVE  Born(s, w, d, t) \in Launched
<1>1. Plan(w, t) \in Seq(Binding)
  BY PlanIs DEF LaunchTypes
<1>2. Copies(t) \in UNION {[P -> Contents] : P \in SUBSET Path}
  BY CopiesAre DEF LaunchTypes
<1>3. Environment(t) \in UNION {[N -> EnvValue] : N \in SUBSET EnvName}
  BY EnvironmentType DEF LaunchTypes
<1>4. image[Tag(w, d)] \in (Workspace \X Dockerfile) \cup {Unset}
  BY DEF LaunchTypes
<1> QED BY <1>1, <1>2, <1>3, <1>4 DEF Born, Launched

LEMMA NobodyType == NotLaunched \in Launched /\ Gone \in Launched
<1>1. <<>> \in Seq(Binding)
  BY EmptySeq
<1>2. <<>> \in [{} -> Contents] /\ <<>> \in [{} -> EnvValue]
  OBVIOUS
<1>3. /\ <<>> \in UNION {[P -> Contents] : P \in SUBSET Path}
      /\ <<>> \in UNION {[N -> EnvValue] : N \in SUBSET EnvName}
  BY <1>2
<1> QED BY <1>1, <1>3 DEF NotLaunched, Gone, Launched

LEMMA LaunchInitTypes == LaunchInit => LaunchTypes
<1> SUFFICES ASSUME LaunchInit PROVE LaunchTypes
  OBVIOUS
<1>1. HostOK
  BY DEF LaunchInit, HostOK, HostHolds
<1> QED BY <1>1, NobodyType, LaunchAssumption DEF LaunchInit, LaunchTypes

LEMMA LaunchNextTypes ==
  ASSUME LaunchTypes, [LaunchNext]_launchVars, \A s \in Session : session[s].alias <= last
  PROVE  LaunchTypes'
<1>1. ASSUME NEW w \in Workspace, NEW d \in Dockerfile, Build(w, d)
      PROVE  LaunchTypes'
  BY <1>1 DEF Build, LaunchTypes, HostOK
<1>2. ASSUME NEW w \in Workspace, NEW d \in Dockerfile, NEW s \in Session, NEW t \in Profile,
             Spawn(s, w, d, t)
      PROVE  LaunchTypes'
  <2>1. NextAlias = last + 1
    BY NextAliasIs
  <2>2. NextAlias \in Nat
    BY <2>1 DEF LaunchTypes
  <2>3. Born(s, w, d, t) \in Launched
    BY <1>2, <2>2, BornType DEF Spawn
  <2>4. session' = [session EXCEPT ![s] = Born(s, w, d, t)]
    BY <1>2, Zenon DEF Spawn, Born
  <2>5. session' \in [Session -> Launched]
    BY <2>3, <2>4 DEF LaunchTypes
  <2> QED BY <1>2, <2>2, <2>5 DEF Spawn, LaunchTypes, HostOK
<1>3. ASSUME NEW s \in Session, Adopt(s) \/ Runs(s)
      PROVE  LaunchTypes'
  <2>1. PICK phase \in {"created", "running"} : session' = [session EXCEPT ![s].phase = phase]
    BY <1>3 DEF Adopt, Runs
  <2> DEFINE r == session[s]
  <2>2. r \in Launched /\ session' = [session EXCEPT ![s] = [r EXCEPT !.phase = phase]]
    BY <2>1 DEF LaunchTypes
  <2>3. [r EXCEPT !.phase = phase] \in Launched
    <3> HIDE DEF r
    <3> QED BY <2>2 DEF Launched
  <2>4. session' \in [Session -> Launched]
    BY <2>2, <2>3 DEF LaunchTypes
  <2> QED BY <1>3, <2>4 DEF Adopt, Runs, LaunchTypes, HostOK
<1>4. ASSUME NEW s \in Session, RollBack(s) \/ Exits(s)
      PROVE  LaunchTypes'
  <2>1. session' = [session EXCEPT ![s] = Gone]
    BY <1>4 DEF RollBack, Exits, Gone
  <2>2. session' \in [Session -> Launched]
    BY <2>1, NobodyType DEF LaunchTypes
  <2> QED BY <1>4, <2>2 DEF RollBack, Exits, LaunchTypes, HostOK
<1>5. ASSUME NEW s \in Session, NEW p \in Probe, Writes(s, p)
      PROVE  LaunchTypes'
  <2>1. CASE UNCHANGED host /\ session' = [session EXCEPT ![s].copies[p] = @ \cup {s}]
    <3> DEFINE r == session[s]
               copies == [r.copies EXCEPT ![p] = @ \cup {s}]
    <3>1. r \in Launched
      BY DEF LaunchTypes
    <3>2. PICK P \in SUBSET Path : r.copies \in [P -> Contents]
      BY <3>1 DEF Launched
    <3>3. copies \in [P -> Contents]
      BY <3>2 DEF Contents
    <3>4. session' = [session EXCEPT ![s] = [r EXCEPT !.copies = copies]]
      BY <2>1
    <3> HIDE DEF copies, r
    <3>5. [r EXCEPT !.copies = copies] \in Launched
      BY <3>1, <3>3 DEF Launched
    <3>6. session' \in [Session -> Launched]
      BY <3>4, <3>5 DEF LaunchTypes
    <3> QED BY <1>5, <2>1, <3>6 DEF Writes, LaunchTypes, HostOK
  <2>2. CASE \E f \in HostFile : UNCHANGED session
               /\ host' = [host EXCEPT ![f] = (IF @ = Missing THEN {} ELSE @) \cup {s}]
    <3>1. PICK f \in HostFile : UNCHANGED session
               /\ host' = [host EXCEPT ![f] = (IF @ = Missing THEN {} ELSE @) \cup {s}]
      BY <2>2
    <3>2. HostOK'
      BY <3>1 DEF LaunchTypes, HostOK, HostHolds
    <3> QED BY <1>5, <3>1, <3>2 DEF Writes, LaunchTypes
  <2> QED BY <1>5, <2>1, <2>2 DEF Writes
<1>6. ASSUME NEW f \in HostFile, HostWrites(f)
      PROVE  LaunchTypes'
  <2>1. HostOK'
    BY <1>6 DEF HostWrites, LaunchTypes, HostOK, HostHolds
  <2> QED BY <1>6, <2>1, LaunchAssumption DEF HostWrites, LaunchTypes
<1>7. CASE UNCHANGED launchVars
  BY <1>7 DEF launchVars, LaunchTypes, HostOK
<1> QED BY <1>1, <1>2, <1>3, <1>4, <1>5, <1>6, <1>7 DEF LaunchNext

-----------------------------------------------------------------------------
(* Numbers and images *)

Taken == {s \in Session : session[s].phase # "none"}
Active == {s \in Session : session[s].phase \in {"starting", "created", "running"}}

NumberInv ==
  /\ last <= Cardinality(Taken)
  /\ \A s \in Session : session[s].alias <= last
  /\ \A s, r \in Active : session[s].alias = session[r].alias => s = r

LEMMA TakenBound ==
  ASSUME NEW S, S \subseteq Session
  PROVE  IsFiniteSet(S) /\ Cardinality(S) \in Nat /\ Cardinality(S) <= Cardinality(Session)
BY LaunchAssumption, FS_Subset, FS_CardinalityType

\* A session that goes on keeps what it was launched with, and its copies grow.
Alike(s, r) ==
  /\ session'[r].alias = session[r].alias /\ session'[r].workspace = session[r].workspace
  /\ session'[r].dockerfile = session[r].dockerfile /\ session'[r].built = session[r].built
  /\ session'[r].template = session[r].template /\ session'[r].binds = session[r].binds
  /\ session'[r].env = session[r].env
  /\ session'[r].phase = "none" <=> session[r].phase = "none"
  /\ r \in Active' <=> r \in Active
  /\ DOMAIN session'[r].copies = DOMAIN session[r].copies
  /\ \A p \in DOMAIN session[r].copies :
       session'[r].copies[p] \in {session[r].copies[p], session[r].copies[p] \cup {s}}

LEMMA GoesOn ==
  ASSUME LaunchTypes, NEW s \in Session, Adopt(s) \/ Runs(s) \/ \E p \in Probe : Writes(s, p),
         NEW r \in Session
  PROVE  Alike(s, r)
<1>1. session[s] \in Launched /\ session[r] \in Launched
  BY DEF LaunchTypes
<1>2. ASSUME NEW phase \in {"created", "running"}, session' = [session EXCEPT ![s].phase = phase],
             s \in Active
      PROVE  Alike(s, r)
  <2>1. session'[s] = [session[s] EXCEPT !.phase = phase] /\ (r # s => session'[r] = session[r])
    BY <1>2 DEF LaunchTypes
  <2>2. CASE r # s
    BY <2>1, <2>2 DEF Alike, Active
  <2>3. CASE r = s
    BY <1>1, <1>2, <2>1, <2>3 DEF Alike, Active, Launched
  <2> QED BY <2>2, <2>3
<1>3. ASSUME UNCHANGED session
      PROVE  Alike(s, r)
  BY <1>3 DEF Alike, Active
<1>4. ASSUME NEW p \in Probe, session' = [session EXCEPT ![s].copies[p] = @ \cup {s}]
      PROVE  Alike(s, r)
  <2> DEFINE old == session[s].copies
             new == [old EXCEPT ![p] = @ \cup {s}]
  <2>1. /\ session'[s] = [session[s] EXCEPT !.copies = new]
        /\ r # s => session'[r] = session[r]
    BY <1>4 DEF LaunchTypes
  <2>2. PICK P \in SUBSET Path : old \in [P -> Contents]
    BY <1>1 DEF Launched
  <2>3. DOMAIN new = DOMAIN old /\ \A q \in DOMAIN old : new[q] \in {old[q], old[q] \cup {s}}
    BY <2>2
  <2> HIDE DEF new
  <2>4. CASE r # s
    BY <2>1, <2>4 DEF Alike, Active
  <2>5. CASE r = s
    BY <1>1, <2>1, <2>3, <2>5 DEF Alike, Active, Launched
  <2> QED BY <2>4, <2>5
<1> QED BY <1>2, <1>3, <1>4 DEF Adopt, Runs, Writes, Active

LEMMA NumberNext ==
  ASSUME LaunchTypes, NumberInv, [LaunchNext]_launchVars
  PROVE  NumberInv'
<1>1. CASE UNCHANGED <<last, session>>
  BY <1>1 DEF NumberInv, Taken, Active
<1>2. ASSUME NEW w \in Workspace, NEW d \in Dockerfile, NEW s \in Session, NEW t \in Profile,
             Spawn(s, w, d, t)
      PROVE  NumberInv'
  <2>1. NextAlias = last + 1 /\ last \in Nat
    BY NextAliasIs DEF NumberInv, LaunchTypes
  <2>2. last' = last + 1 /\ session' = [session EXCEPT ![s] = Born(s, w, d, t)]
    <3>1. last' = NextAlias /\ session' = [session EXCEPT ![s] = Born(s, w, d, t)]
      BY <1>2, Zenon DEF Spawn, Born
    <3> QED BY <2>1, <3>1
  <2>3. /\ session'[s].alias = last + 1 /\ session'[s].phase = "starting"
        /\ \A r \in Session \ {s} : session'[r] = session[r]
    BY <2>1, <2>2 DEF LaunchTypes, Born
  <2>4. \A r \in Session : session[r].alias \in Nat
    BY DEF LaunchTypes, Launched
  <2>5. Taken' = Taken \cup {s} /\ s \notin Taken
    BY <1>2, <2>3 DEF Taken, Spawn
  <2>6. Cardinality(Taken') = Cardinality(Taken) + 1 /\ Cardinality(Taken) \in Nat
    <3>1. IsFiniteSet(Taken) /\ Cardinality(Taken) \in Nat
      BY TakenBound DEF Taken
    <3> HIDE DEF Taken
    <3> QED BY <2>5, <3>1, FS_AddElement
  <2>7. \A r \in Session : session'[r].alias <= last + 1 /\ (r # s => session'[r].alias <= last)
    BY <2>1, <2>3, <2>4 DEF NumberInv
  <2>8. \A r \in Active' : r = s \/ r \in Active
    BY <2>3 DEF Active
  <2>9. \A q, r \in Active' : session'[q].alias = session'[r].alias => q = r
    BY <2>1, <2>3, <2>4, <2>7, <2>8 DEF NumberInv, Active
  <2>10. last' <= Cardinality(Taken')
    BY <2>1, <2>2, <2>6 DEF NumberInv
  <2> QED BY <2>2, <2>7, <2>9, <2>10 DEF NumberInv
<1>3. ASSUME NEW s \in Session, Adopt(s) \/ Runs(s) \/ \E p \in Probe : Writes(s, p)
      PROVE  NumberInv'
  <2>1. last' = last
    BY <1>3 DEF Adopt, Runs, Writes
  <2>2. \A r \in Session : Alike(s, r)
    BY <1>3, GoesOn
  <2>3. Taken' = Taken /\ Active' = Active
    BY <2>2 DEF Taken, Active, Alike
  <2> QED BY <2>1, <2>2, <2>3 DEF NumberInv, Active, Alike
<1>4. ASSUME NEW s \in Session, RollBack(s) \/ Exits(s)
      PROVE  NumberInv'
  <2>1. last' = last /\ last \in Nat /\ session' = [session EXCEPT ![s] = Gone] /\ session[s].phase # "none"
    BY <1>4 DEF RollBack, Exits, Gone, LaunchTypes
  <2>2. /\ session'[s].alias = 0 /\ session'[s].phase = "gone"
        /\ \A r \in Session \ {s} : session'[r] = session[r]
    BY <2>1 DEF LaunchTypes, Gone, NotLaunched
  <2>3. Taken' = Taken /\ \A r \in Active' : r # s /\ r \in Active
    BY <2>1, <2>2 DEF Taken, Active
  <2>4. \A r \in Session : session'[r].alias <= last
    BY <2>1, <2>2 DEF NumberInv
  <2>5. \A q, r \in Active' : session'[q].alias = session'[r].alias => q = r
    BY <2>2, <2>3 DEF NumberInv, Active
  <2> QED BY <2>1, <2>3, <2>4, <2>5 DEF NumberInv
<1> QED BY <1>1, <1>2, <1>3, <1>4 DEF LaunchNext, launchVars, Build, HostWrites

\* What a session was launched with stays what it was, and is its own.
PlanInv ==
  /\ \A w \in Workspace, d \in Dockerfile : image[Tag(w, d)] \in {Unset, <<w, d>>}
  /\ \A s \in Session :
       /\ s \in Active => session[s].built = <<session[s].workspace, session[s].dockerfile>>
       /\ Accepted(session[s].binds)
       /\ \A b \in Range(session[s].binds) : b.source[1] = "private" =>
            b.target \in DOMAIN session[s].copies \cup {<<"hostdo">>}

LEMMA Empty == Accepted(<<>>) /\ Range(<<>>) = {}
BY DEF Accepted, Range

LEMMA PlanNext ==
  ASSUME NamesDiffer, PlacesDiffer, LaunchTypes, PlanInv, NumberInv, [LaunchNext]_launchVars
  PROVE  PlanInv'
<1> DEFINE Images == \A w \in Workspace, d \in Dockerfile : image[Tag(w, d)] \in {Unset, <<w, d>>}
           Fine(s) ==
             /\ s \in Active =>
                  session[s].built = <<session[s].workspace, session[s].dockerfile>>
             /\ Accepted(session[s].binds)
             /\ \A b \in Range(session[s].binds) : b.source[1] = "private" =>
                  b.target \in DOMAIN session[s].copies \cup {<<"hostdo">>}
<1>1. PlanInv <=> Images /\ \A s \in Session : Fine(s)
  BY DEF PlanInv
<1>2. PlanInv' <=> Images' /\ \A s \in Session : Fine(s)'
  BY DEF PlanInv
<1>3. Images'
  <2>1. CASE UNCHANGED image
    BY <1>1, <2>1
  <2>2. ASSUME NEW w \in Workspace, NEW d \in Dockerfile, Build(w, d)
        PROVE  Images'
    <3> SUFFICES ASSUME NEW v \in Workspace, NEW e \in Dockerfile
                 PROVE  image'[Tag(v, e)] \in {Unset, <<v, e>>}
      OBVIOUS
    <3>1. image' = [image EXCEPT ![Tag(w, d)] = <<w, d>>] /\ Tag(w, d) \in DOMAIN image
      BY <2>2 DEF Build, LaunchTypes
    <3>2. Tag(v, e) = Tag(w, d) => v = w /\ e = d
      BY DEF Tag, NamesDiffer
    <3>3. image[Tag(v, e)] \in {Unset, <<v, e>>}
      BY <1>1
    <3> QED BY <3>1, <3>2, <3>3
  <2> QED BY <2>1, <2>2 DEF LaunchNext, launchVars, Spawn, Adopt, RollBack, Runs, Writes, HostWrites, Exits
<1>4. ASSUME NEW r \in Session, session'[r].built = session[r].built,
             session'[r].workspace = session[r].workspace,
             session'[r].dockerfile = session[r].dockerfile, session'[r].binds = session[r].binds,
             DOMAIN session'[r].copies = DOMAIN session[r].copies, r \in Active' => r \in Active
      PROVE  Fine(r)'
  BY <1>1, <1>4
<1>5. ASSUME UNCHANGED session, NEW r \in Session
      PROVE  Fine(r)'
  BY <1>4, <1>5 DEF Active
<1>6. ASSUME NEW w \in Workspace, NEW d \in Dockerfile, NEW s \in Session, NEW t \in Profile,
             Spawn(s, w, d, t), NEW r \in Session
      PROVE  Fine(r)'
  <2>1. session' = [session EXCEPT ![s] = Born(s, w, d, t)] /\ image[Tag(w, d)] # Unset
    BY <1>6, Zenon DEF Spawn, Born
  <2>2. CASE r # s
    BY <1>4, <2>1, <2>2 DEF LaunchTypes, Active
  <2>3. CASE r = s
    <3>1. session'[r] = Born(s, w, d, t)
      BY <2>1, <2>3 DEF LaunchTypes
    <3>2. /\ session'[r].built = image[Tag(w, d)] /\ session'[r].workspace = w
          /\ session'[r].dockerfile = d /\ session'[r].binds = Plan(w, t)
          /\ session'[r].copies = Copies(t)
      BY <3>1 DEF Born
    <3>3. image[Tag(w, d)] = <<w, d>>
      BY <1>1, <2>1
    <3>4. /\ \A b \in Range(Plan(w, t)) : b.source[1] = "private" =>
               b.target \in DOMAIN Copies(t) \cup {<<"hostdo">>}
          /\ Accepted(Plan(w, t))
      BY PlanIs DEF LaunchTypes
    <3> QED BY <3>2, <3>3, <3>4
  <2> QED BY <2>2, <2>3
<1>7. ASSUME NEW s \in Session, Adopt(s) \/ Runs(s) \/ \E p \in Probe : Writes(s, p), NEW r \in Session
      PROVE  Fine(r)'
  BY <1>4, <1>7, GoesOn DEF Alike
<1>8. ASSUME NEW s \in Session, RollBack(s) \/ Exits(s), NEW r \in Session
      PROVE  Fine(r)'
  <2>1. session' = [session EXCEPT ![s] = Gone]
    BY <1>8 DEF RollBack, Exits, Gone
  <2>2. CASE r # s
    BY <1>4, <2>1, <2>2 DEF LaunchTypes, Active
  <2>3. CASE r = s
    <3>1. session'[r].phase = "gone" /\ session'[r].binds = <<>>
      BY <2>1, <2>3 DEF LaunchTypes, Gone, NotLaunched
    <3> QED BY <3>1, Empty DEF Active
  <2> QED BY <2>2, <2>3
<1>9. ASSUME NEW r \in Session
      PROVE  Fine(r)'
  <2> HIDE DEF Fine
  <2>1. CASE UNCHANGED session
    BY <1>5, <2>1
  <2>2. CASE \E w \in Workspace, d \in Dockerfile, s \in Session, t \in Profile : Spawn(s, w, d, t)
    BY <1>6, <2>2
  <2>3. CASE \E s \in Session : Adopt(s) \/ Runs(s) \/ \E p \in Probe : Writes(s, p)
    BY <1>7, <2>3
  <2>4. CASE \E s \in Session : RollBack(s) \/ Exits(s)
    BY <1>8, <2>4
  <2> QED BY <2>1, <2>2, <2>3, <2>4 DEF LaunchNext, launchVars, Build, HostWrites
<1> QED BY <1>2, <1>3, <1>9

LEMMA PlanInit ==
  ASSUME LaunchInit
  PROVE  LaunchTypes /\ NumberInv /\ PlanInv
<1>1. LaunchTypes
  BY LaunchInitTypes
<1>2. \A s \in Session : session[s] = NotLaunched
  BY DEF LaunchInit
<1>3. NotLaunched.phase = "none" /\ NotLaunched.alias = 0 /\ NotLaunched.binds = <<>>
  BY DEF NotLaunched
<1>4. NumberInv
  <2>1. last = 0 /\ Taken = {} /\ Active = {}
    BY <1>2, <1>3 DEF LaunchInit, Taken, Active
  <2> QED BY <1>2, <1>3, <2>1, FS_EmptySet DEF NumberInv
<1>5. PlanInv
  <2>1. \A w \in Workspace, d \in Dockerfile : image[Tag(w, d)] = Unset
    BY DEF LaunchInit
  <2> QED BY <1>2, <1>3, <2>1, Empty DEF PlanInv, Active
<1> QED BY <1>1, <1>4, <1>5

\* Every session runs the image built from its own dockerfile, its number is that
\* of no other, and docker accepts its mounts: where the last names of the
\* workspaces differ (the tag of an image has no more of the path) and templates
\* do not mount two things in one place (spawn.rs, allocate_session_alias;
\* load.rs, local_image_stem and merge_mounts).
THEOREM OwnImageAndNumberHolds ==
  ASSUME NamesDiffer, PlacesDiffer
  PROVE  LaunchSpec => []OwnImageAndNumber
<1> DEFINE LaunchInv == LaunchTypes /\ NumberInv /\ PlanInv
<1>1. LaunchInit => LaunchInv
  BY PlanInit
<1>2. LaunchInv /\ [LaunchNext]_launchVars => LaunchInv'
  <2> SUFFICES ASSUME LaunchInv, [LaunchNext]_launchVars PROVE LaunchInv'
    OBVIOUS
  <2>1. LaunchTypes'
    BY LaunchNextTypes DEF NumberInv
  <2> QED BY <2>1, NumberNext, PlanNext
<1>3. LaunchInv => OwnImageAndNumber
  <2> SUFFICES ASSUME LaunchInv PROVE OwnImageAndNumber
    OBVIOUS
  <2>1. \A s \in Session : session[s] \in Launched
    BY DEF LaunchTypes
  <2>2. host \in [HostFile -> {Missing} \cup Contents]
    BY DEF LaunchTypes, HostOK, HostHolds, Contents, Trace
  <2>3. last \in 0 .. Cardinality(Session)
    <3>1. Cardinality(Taken) <= Cardinality(Session) /\ Cardinality(Taken) \in Nat
      BY TakenBound DEF Taken
    <3>2. Cardinality(Session) \in Nat
      BY TakenBound
    <3> QED BY <3>1, <3>2 DEF LaunchTypes, NumberInv
  <2>4. ASSUME NEW s \in Session
        PROVE  /\ session[s].phase \in {"none", "starting", "created", "running", "gone"}
               /\ session[s].alias \in 0 .. last
               /\ Accepted(session[s].binds)
               /\ \A i \in DOMAIN session[s].binds :
                    LET b == session[s].binds[i]
                    IN  b.source[1] = "private" => b.target \in DOMAIN session[s].copies \cup {<<"hostdo">>}
    <3>1. session[s].alias \in Nat /\ last \in Nat /\ session[s].alias <= last
      BY <2>1 DEF Launched, LaunchTypes, NumberInv
    <3>2. \A i \in DOMAIN session[s].binds : session[s].binds[i] \in Range(session[s].binds)
      BY DEF Range
    <3> QED BY <2>1, <3>1, <3>2 DEF Launched, PlanInv
  <2>5. LaunchTypeOK
    BY <2>2, <2>3, <2>4 DEF LaunchTypeOK, LaunchTypes
  <2>6. Existing \subseteq Active
    BY DEF Existing, Active
  <2> QED BY <2>5, <2>6 DEF OwnImageAndNumber, NumberInv, PlanInv, Existing
<1> HIDE DEF LaunchInv
<1> QED BY <1>1, <1>2, <1>3, PTL DEF LaunchSpec

-----------------------------------------------------------------------------
(* Logins *)

\* A session whose configuration was made for the token has it, and no other login.
WholeLogin(r) ==
  LET token == NonEmpty(r.env, "TOKEN")
  IN  /\ (\E p \in DOMAIN r.copies : "onboarded" \in r.copies[p]) => token /\ "MARKER" \in DOMAIN r.env
      /\ token => \A p \in DOMAIN r.copies :
                    Last(p) \in {".claude.json", ".credentials.json"}
                      => r.copies[p] \cap {"oauth", "refresh", "keychain"} = {}

LoginInv == \A s \in Session : session[s].alias <= last /\ WholeLogin(session[s])

LEMMA BornWhole ==
  ASSUME TokensAreGiven, LaunchTypes, NEW s \in Session, NEW w \in Workspace, NEW d \in Dockerfile,
         NEW t \in Profile
  PROVE  WholeLogin(Born(s, w, d, t))
<1> DEFINE r == Born(s, w, d, t)
<1>1. r.env = Environment(t) /\ r.copies = Copies(t)
  BY DEF Born
<1> HIDE DEF r
<1>2. /\ TokenAvailable(t) => NonEmpty(Environment(t), "TOKEN") /\ "MARKER" \in DOMAIN Environment(t)
      /\ NonEmpty(Environment(t), "TOKEN") => TokenAvailable(t)
  BY EnvironmentHolds DEF LaunchTypes
<1>3. \A p \in DOMAIN Copies(t) :
        /\ "onboarded" \in Copies(t)[p] => TokenAvailable(t)
        /\ TokenAvailable(t) /\ Last(p) \in {".claude.json", ".credentials.json"}
             => Copies(t)[p] \cap {"oauth", "refresh", "keychain"} = {}
  BY CopiesAre DEF LaunchTypes
<1> QED BY <1>1, <1>2, <1>3 DEF WholeLogin, r

LEMMA NobodyWhole == WholeLogin(NotLaunched) /\ WholeLogin(Gone)
BY DEF WholeLogin, NotLaunched, Gone, NonEmpty

LEMMA LoginNext ==
  ASSUME TokensAreGiven, LaunchTypes, LoginInv, [LaunchNext]_launchVars
  PROVE  LoginInv'
<1> DEFINE Fine(r) == session[r].alias <= last /\ WholeLogin(session[r])
<1>1. CASE UNCHANGED <<last, session>>
  BY <1>1 DEF LoginInv
<1>2. ASSUME NEW w \in Workspace, NEW d \in Dockerfile, NEW s \in Session, NEW t \in Profile,
             Spawn(s, w, d, t), NEW r \in Session
      PROVE  Fine(r)'
  <2>1. NextAlias = last + 1 /\ last \in Nat
    BY NextAliasIs DEF LoginInv, LaunchTypes
  <2>2. last' = last + 1 /\ session' = [session EXCEPT ![s] = Born(s, w, d, t)]
    <3>1. last' = NextAlias /\ session' = [session EXCEPT ![s] = Born(s, w, d, t)]
      BY <1>2, Zenon DEF Spawn, Born
    <3> QED BY <2>1, <3>1
  <2>3. CASE r # s
    <3>1. session'[r] = session[r] /\ session[r].alias \in Nat
      BY <2>2, <2>3 DEF LaunchTypes, Launched
    <3>2. session[r].alias <= last /\ WholeLogin(session[r])
      BY DEF LoginInv
    <3> QED BY <2>1, <2>2, <3>1, <3>2
  <2>4. CASE r = s
    <3>1. session'[r] = Born(s, w, d, t)
      BY <2>2, <2>4 DEF LaunchTypes
    <3>2. session'[r].alias = last + 1
      BY <2>1, <3>1 DEF Born
    <3>3. WholeLogin(session'[r])
      BY <3>1, BornWhole
    <3> QED BY <2>1, <2>2, <3>2, <3>3
  <2> QED BY <2>3, <2>4
<1>3. ASSUME NEW s \in Session, Adopt(s) \/ Runs(s) \/ \E p \in Probe : Writes(s, p), NEW r \in Session
      PROVE  Fine(r)'
  <2>1. Alike(s, r) /\ session[r].alias <= last /\ WholeLogin(session[r])
    BY <1>3, GoesOn DEF LoginInv
  <2>2. last' = last
    BY <1>3 DEF Adopt, Runs, Writes
  <2>3. s \notin Trace
    BY LaunchAssumption
  <2>4. \A p \in DOMAIN session[r].copies, x \in Trace :
          x \in session'[r].copies[p] => x \in session[r].copies[p]
    BY <2>1, <2>3 DEF Alike
  <2>5. WholeLogin(session'[r])
    <3>1. DOMAIN session'[r].copies = DOMAIN session[r].copies /\ session'[r].env = session[r].env
      BY <2>1 DEF Alike
    <3>2. {"onboarded", "oauth", "refresh", "keychain"} \subseteq Trace
      BY DEF Trace
    <3> QED BY <2>1, <2>4, <3>1, <3>2 DEF WholeLogin
  <2> QED BY <2>1, <2>2, <2>5 DEF Alike
<1>4. ASSUME NEW s \in Session, RollBack(s) \/ Exits(s), NEW r \in Session
      PROVE  Fine(r)'
  <2>1. session' = [session EXCEPT ![s] = Gone] /\ last' = last /\ last \in Nat
    BY <1>4 DEF RollBack, Exits, Gone, LaunchTypes
  <2>2. Gone.alias = 0
    BY DEF Gone, NotLaunched
  <2>3. session'[r] = IF r = s THEN Gone ELSE session[r]
    BY <2>1 DEF LaunchTypes
  <2> QED BY <2>1, <2>2, <2>3, NobodyWhole DEF LoginInv
<1>5. CASE \E r \in Session : TRUE
  <2> SUFFICES ASSUME NEW r \in Session, ~UNCHANGED <<last, session>> PROVE Fine(r)'
    BY <1>1 DEF LoginInv
  <2> HIDE DEF Fine
  <2>1. CASE \E w \in Workspace, d \in Dockerfile, s \in Session, t \in Profile : Spawn(s, w, d, t)
    BY <1>2, <2>1
  <2>2. CASE \E s \in Session : Adopt(s) \/ Runs(s) \/ \E p \in Probe : Writes(s, p)
    BY <1>3, <2>2
  <2>3. CASE \E s \in Session : RollBack(s) \/ Exits(s)
    BY <1>4, <2>3
  <2> QED BY <2>1, <2>2, <2>3 DEF LaunchNext, launchVars, Build, HostWrites
<1> QED BY <1>5 DEF LoginInv

\* A session whose copy was prepared for the login by token has the token, and
\* beside a token no copy holds another login, however often the session and the
\* user write meanwhile: where a token that is passed on is not empty (spawn.rs,
\* has_nonempty_env_source, seed_private_mount).
THEOREM LoginIsWholeHolds ==
  ASSUME TokensAreGiven
  PROVE  LaunchSpec => []LoginIsWhole
<1> DEFINE LaunchInv == LaunchTypes /\ LoginInv
<1>1. LaunchInit => LaunchInv
  <2> SUFFICES ASSUME LaunchInit PROVE LoginInv
    BY LaunchInitTypes
  <2>1. last = 0 /\ \A s \in Session : session[s] = NotLaunched
    BY DEF LaunchInit
  <2>2. NotLaunched.alias = 0
    BY DEF NotLaunched
  <2> QED BY <2>1, <2>2, NobodyWhole DEF LoginInv
<1>2. LaunchInv /\ [LaunchNext]_launchVars => LaunchInv'
  <2> SUFFICES ASSUME LaunchInv, [LaunchNext]_launchVars PROVE LaunchInv'
    OBVIOUS
  <2>1. LaunchTypes'
    BY LaunchNextTypes DEF LoginInv
  <2> QED BY <2>1, LoginNext
<1>3. LaunchInv => LoginIsWhole
  BY Zenon DEF LoginInv, WholeLogin, LoginIsWhole, Existing
<1> HIDE DEF LaunchInv
<1> QED BY <1>1, <1>2, <1>3, PTL DEF LaunchSpec

-----------------------------------------------------------------------------
(* Which mount is over a path *)

\* A mount through which the session writes the host's own, and one of its own
\* that comes before it: what comes later is not over what is deeper.
Writable(b) == b.source[1] = "host" /\ b.mode = "rw"
Own(b) == b.source[1] = "private"
Later ==
  {p \in Binding \X Binding : Own(p[1]) /\ Writable(p[2]) => Len(p[1].target) <= Len(p[2].target)}

LEMMA BindsOrder ==
  ASSUME HostOK, NEW m \in Mount, NEW token \in BOOLEAN
  PROVE  /\ Binds(m, token) \in Seq(Binding) /\ Range(Binds(m, token)) \subseteq Binding
         /\ \A b \in Range(Binds(m, token)) :
              /\ Own(b) => b.target = m.container
              /\ Writable(b) => /\ Shown(m) /\ m.mode = "rw"
                                /\ b.source = OnHost(m.host) /\ b.target = m.container
         /\ Copy(m, token) # Missing =>
              \E b \in Range(Binds(m, token)) : Own(b) /\ b.target = m.container
<1> DEFINE first == Bind(OnHost(m.host), m.container, m.mode)
           second == Bind(OnHost(m.host), m.host, "ro")
           own == Bind(Private(m.container), m.container, m.mode)
           binds == Binds(m, token)
<1>1. m.host \in Path /\ m.container \in Path /\ m.mode \in {"ro", "rw"}
  BY DEF Mount
<1>2. /\ first \in Binding /\ first.target = m.container /\ first.mode = m.mode
      /\ first.source = OnHost(m.host) /\ first.source[1] = "host"
      /\ second \in Binding /\ second.source[1] = "host" /\ second.mode = "ro"
      /\ own \in Binding /\ own.target = m.container /\ own.source[1] = "private"
  BY <1>1, ABind DEF Bind, OnHost
<1> HIDE DEF first, second, own
<1>3. \/ Copy(m, token) # Missing /\ binds = <<own>>
      \/ Copy(m, token) = Missing /\ binds = <<>>
      \/ Copy(m, token) = Missing /\ Shown(m) /\ binds = <<first>>
      \/ Copy(m, token) = Missing /\ Shown(m) /\ binds = <<first, second>>
  BY Zenon, BindsCases DEF first, second, own
<1> HIDE DEF binds
<1>4. CASE Copy(m, token) # Missing /\ binds = <<own>>
  <2>1. binds \in Seq(Binding) /\ Range(binds) = {own}
    BY <1>2, <1>4, One
  <2> QED BY <1>2, <1>4, <2>1 DEF Own, Writable, binds
<1>5. CASE Copy(m, token) = Missing /\ binds = <<>>
  <2>1. binds \in Seq(Binding) /\ Range(binds) = {}
    BY <1>5, EmptySeq DEF Range
  <2> QED BY <1>5, <2>1 DEF binds
<1>6. CASE Copy(m, token) = Missing /\ Shown(m) /\ binds = <<first>>
  <2>1. binds \in Seq(Binding) /\ Range(binds) = {first}
    BY <1>2, <1>6, One
  <2> QED BY <1>2, <1>6, <2>1 DEF Own, Writable, binds
<1>7. CASE Copy(m, token) = Missing /\ Shown(m) /\ binds = <<first, second>>
  <2>1. binds \in Seq(Binding) /\ Range(binds) = {first, second}
    BY <1>2, <1>7 DEF Range
  <2> QED BY <1>2, <1>7, <2>1 DEF Own, Writable, binds
<1> QED BY <1>3, <1>4, <1>5, <1>6, <1>7

\* The mounts of a template, in their order.
LEMMA BoundOrder ==
  ASSUME HostOK, NEW t \in Profile, NEW token \in BOOLEAN
  PROVE  LET ms == AllMounts(t)
             binds == FlattenSeq([i \in DOMAIN ms |-> Binds(ms[i], token)])
         IN  /\ Ordered(binds, Later)
             /\ \A i \in DOMAIN ms : Copy(ms[i], token) # Missing =>
                  \E b \in Range(binds) : Own(b) /\ b.target = ms[i].container
             /\ \A b \in Range(binds) : Writable(b) =>
                  \E m \in Mounted(t) : /\ Shown(m) /\ m.mode = "rw"
                                        /\ b.source = OnHost(m.host) /\ b.target = m.container
<1> DEFINE ms == AllMounts(t)
           n == Len(ms)
           lists == [i \in DOMAIN ms |-> Binds(ms[i], token)]
           binds == FlattenSeq(lists)
<1>1. ms \in Seq(Mount) /\ Range(ms) \subseteq Mounted(t) /\ Ordered(ms, Shallower(Mount))
  BY AllMountsIs
<1> HIDE DEF ms
<1>2. n \in Nat /\ DOMAIN ms = 1 .. n /\ \A i \in 1 .. n : ms[i] \in Mount /\ ms[i] \in Range(ms)
  BY <1>1, LenProperties, ElementOfSeq DEF Range
<1> HIDE DEF n
<1>3. ASSUME NEW i \in 1 .. n
      PROVE  /\ lists[i] \in Seq(Binding) /\ Range(lists[i]) \subseteq Binding
             /\ \A b \in Range(lists[i]) :
                  /\ Own(b) => b.target = ms[i].container
                  /\ Writable(b) => /\ Shown(ms[i]) /\ ms[i].mode = "rw"
                                    /\ b.source = OnHost(ms[i].host) /\ b.target = ms[i].container
             /\ Copy(ms[i], token) # Missing =>
                  \E b \in Range(lists[i]) : Own(b) /\ b.target = ms[i].container
  <2>1. lists[i] = Binds(ms[i], token)
    BY <1>2
  <2> DEFINE m == ms[i]
  <2>2. m \in Mount
    BY <1>2
  <2> HIDE DEF m, lists
  <2>3. /\ Binds(m, token) \in Seq(Binding) /\ Range(Binds(m, token)) \subseteq Binding
        /\ \A b \in Range(Binds(m, token)) :
             /\ Own(b) => b.target = m.container
             /\ Writable(b) => /\ Shown(m) /\ m.mode = "rw"
                               /\ b.source = OnHost(m.host) /\ b.target = m.container
        /\ Copy(m, token) # Missing =>
             \E b \in Range(Binds(m, token)) : Own(b) /\ b.target = m.container
    BY <2>2, BindsOrder
  <2> QED BY <2>1, <2>3 DEF m
<1>4. lists \in Seq(Seq(Binding)) /\ DOMAIN lists = 1 .. n
  <2>1. lists = [i \in 1 .. n |-> lists[i]]
    BY <1>2
  <2>2. \A i \in 1 .. n : lists[i] \in Seq(Binding)
    BY <1>3
  <2> HIDE DEF lists
  <2>3. [i \in 1 .. n |-> lists[i]] \in Seq(Seq(Binding))
    BY <1>2, <2>2, IsASeq
  <2> QED BY <2>1, <2>3
<1> HIDE DEF lists
<1>5. \A i \in 1 .. n : Len(ms[i].container) \in Nat
  BY <1>2, LenProperties DEF Mount, Path
<1>6. ASSUME NEW i \in 1 .. n, NEW j \in 1 .. n, Len(ms[i].container) <= Len(ms[j].container),
             NEW a \in Range(lists[i]), NEW b \in Range(lists[j])
      PROVE  <<a, b>> \in Later
  <2>1. a \in Binding /\ b \in Binding
    BY <1>3
  <2>2. Own(a) /\ Writable(b) => Len(a.target) <= Len(b.target)
    BY <1>3, <1>6
  <2> QED BY <2>1, <2>2 DEF Later
<1>7. \A i \in DOMAIN lists : Ordered(lists[i], Later)
  <2> TAKE i \in DOMAIN lists
  <2>1. i \in 1 .. n /\ Len(ms[i].container) <= Len(ms[i].container)
    BY <1>4, <1>5
  <2>2. \A a, b \in Range(lists[i]) : <<a, b>> \in Later
    BY <1>6, <2>1
  <2> QED BY <2>2, OfPairs
<1>8. ASSUME NEW i \in DOMAIN lists, NEW j \in DOMAIN lists, i < j,
             NEW a \in Range(lists[i]), NEW b \in Range(lists[j])
      PROVE  <<a, b>> \in Later
  <2>1. <<ms[i], ms[j]>> \in Shallower(Mount)
    BY <1>1, <1>2, <1>4, <1>8 DEF Ordered
  <2>2. Len(ms[i].container) <= Len(ms[j].container)
    BY <2>1 DEF Shallower
  <2> QED BY <1>4, <1>6, <2>2
<1>9. Ordered(binds, Later)
  BY <1>4, <1>7, <1>8, FlattenedOrder
<1>10. Range(binds) = UNION {Range(lists[i]) : i \in 1 .. n}
  BY <1>4, Flattened
<1> HIDE DEF binds
<1>11. \A i \in DOMAIN ms : Copy(ms[i], token) # Missing =>
         \E b \in Range(binds) : Own(b) /\ b.target = ms[i].container
  BY <1>2, <1>3, <1>10
<1>12. ASSUME NEW b \in Range(binds), Writable(b)
       PROVE  \E m \in Mounted(t) : /\ Shown(m) /\ m.mode = "rw"
                                    /\ b.source = OnHost(m.host) /\ b.target = m.container
  <2>1. PICK i \in 1 .. n : b \in Range(lists[i])
    BY <1>10
  <2>2. ms[i] \in Mounted(t)
    BY <1>1, <1>2
  <2> QED BY <1>3, <1>12, <2>1, <2>2
<1> QED BY <1>9, <1>11, <1>12 DEF ms, lists, binds

LEMMA PathLength ==
  ASSUME NEW p \in Path
  PROVE  p \in Seq(Label) /\ Len(p) \in Nat /\ Len(p) >= 1
<1>1. p \in Seq(Label) /\ p # <<>>
  BY DEF Path
<1> QED BY <1>1, LenProperties, EmptySeq

\* What lies in a directory lies in another one as it does in the first.
LEMMA Moved ==
  ASSUME NEW a \in Path, NEW h \in Path, NEW q \in Path, IsPrefix(a, q)
  PROVE  /\ Len(a) <= Len(q) /\ (Len(q) <= Len(a) => a = q)
         /\ a \o Rest(a, q) = q
         /\ IsPrefix(h, h \o Rest(a, q)) /\ Rest(h, h \o Rest(a, q)) = Rest(a, q)
<1> DEFINE x == Len(a)
           y == Len(q)
           z == Len(h)
           rest == Rest(a, q)
           moved == h \o rest
<1>1. /\ a \in Seq(Label) /\ q \in Seq(Label) /\ h \in Seq(Label)
      /\ x \in Nat /\ y \in Nat /\ z \in Nat /\ x >= 1 /\ x <= y /\ z >= 1
      /\ DOMAIN a = 1 .. x /\ DOMAIN q = 1 .. y /\ DOMAIN h = 1 .. z
  BY PathLength, LenProperties DEF IsPrefix
<1>2. \A i \in 1 .. x : a[i] = q[i]
  <2>1. x \in 0 .. Len(a) /\ x \in 0 .. Len(q)
    BY <1>1
  <2>2. SubSeq(a, 1, x) = SubSeq(q, 1, x)
    BY DEF IsPrefix
  <2> HIDE DEF x
  <2>3. \A i \in 1 .. x : SubSeq(a, 1, x)[i] = a[i]
    BY <1>1, <2>1, TwoParts
  <2>4. \A i \in 1 .. x : SubSeq(q, 1, x)[i] = q[i]
    BY <1>1, <2>1, TwoParts
  <2> QED BY <2>2, <2>3, <2>4
<1>3. /\ rest \in Seq(Label) /\ Len(rest) = y - x
      /\ \A i \in 1 .. y - x : rest[i] = q[x + i]
  <2>1. rest = SubSeq(q, x + 1, y) /\ x \in 0 .. Len(q) /\ y = Len(q)
    BY <1>1 DEF Rest
  <2> HIDE DEF rest, x, y
  <2> QED BY <1>1, <2>1, TwoParts
<1> HIDE DEF rest
<1>4. /\ moved \in Seq(Label) /\ Len(moved) = z + (y - x)
      /\ \A i \in 1 .. z : moved[i] = h[i]
      /\ \A i \in 1 .. y - x : moved[z + i] = rest[i]
  <2>1. /\ moved \in Seq(Label) /\ Len(moved) = Len(h) + Len(rest)
        /\ \A i \in 1 .. Len(h) + Len(rest) : moved[i] = IF i <= Len(h) THEN h[i] ELSE rest[i - Len(h)]
    BY <1>1, <1>3, ConcatProperties
  <2>2. z = Len(h)
    OBVIOUS
  <2> HIDE DEF moved, x, y, z
  <2>3. \A i \in 1 .. z : i \in 1 .. z + (y - x) /\ i <= z
    BY <1>1
  <2>4. \A i \in 1 .. y - x : z + i \in 1 .. z + (y - x) /\ ~(z + i <= z) /\ (z + i) - z = i
    BY <1>1
  <2> QED BY <1>3, <2>1, <2>2, <2>3, <2>4
<1>5. Len(a) <= Len(q) /\ (Len(q) <= Len(a) => a = q)
  <2>1. x = Len(a) /\ y = Len(q)
    OBVIOUS
  <2> HIDE DEF x, y
  <2>2. y <= x => x = y
    BY <1>1
  <2>3. x = y => a = q
    BY <1>1, <1>2, <2>1, SeqEqual
  <2> QED BY <1>1, <2>1, <2>2, <2>3
<1>6. a \o rest = q
  <2> DEFINE all == a \o rest
  <2>1. /\ all \in Seq(Label) /\ Len(all) = y
        /\ \A i \in 1 .. y : all[i] = IF i <= x THEN a[i] ELSE rest[i - x]
    <3>1. /\ all \in Seq(Label) /\ Len(all) = Len(a) + Len(rest)
          /\ \A i \in 1 .. Len(a) + Len(rest) : all[i] = IF i <= Len(a) THEN a[i] ELSE rest[i - Len(a)]
      BY <1>1, <1>3, ConcatProperties
    <3>2. x = Len(a)
      OBVIOUS
    <3> HIDE DEF all, x, y
    <3>3. x + (y - x) = y
      BY <1>1
    <3> QED BY <1>3, <3>1, <3>2, <3>3
  <2>2. \A i \in 1 .. y : ~(i <= x) => i - x \in 1 .. y - x /\ x + (i - x) = i
    BY <1>1
  <2>3. \A i \in 1 .. y : i <= x => i \in 1 .. x
    BY <1>1
  <2> HIDE DEF all, x, y
  <2>4. \A i \in 1 .. y : all[i] = q[i]
    BY <1>2, <1>3, <2>1, <2>2, <2>3
  <2>5. Len(q) = y
    BY DEF y
  <2>6. all = q
    BY <1>1, <2>1, <2>4, <2>5, SeqEqual
  <2> QED BY <2>6 DEF all
<1> HIDE DEF moved
<1>7. IsPrefix(h, moved)
  <2>1. z <= Len(moved)
    BY <1>1, <1>4
  <2>2. z \in 0 .. Len(h) /\ z \in 0 .. Len(moved)
    BY <1>1, <1>4
  <2> HIDE DEF z
  <2>3. /\ SubSeq(h, 1, z) \in Seq(Label) /\ Len(SubSeq(h, 1, z)) = z
        /\ \A i \in 1 .. z : SubSeq(h, 1, z)[i] = h[i]
    BY <1>1, <2>2, TwoParts
  <2>4. /\ SubSeq(moved, 1, z) \in Seq(Label) /\ Len(SubSeq(moved, 1, z)) = z
        /\ \A i \in 1 .. z : SubSeq(moved, 1, z)[i] = moved[i]
    BY <1>4, <2>2, TwoParts
  <2>5. SubSeq(h, 1, z) = SubSeq(moved, 1, z)
    BY <1>4, <2>3, <2>4, SeqEqual
  <2> QED BY <2>1, <2>5 DEF IsPrefix, z
<1>8. Rest(h, moved) = rest
  <2> DEFINE back == Rest(h, moved)
  <2>1. /\ back \in Seq(Label) /\ Len(back) = y - x
        /\ \A i \in 1 .. y - x : back[i] = moved[z + i]
    <3>1. /\ back = SubSeq(moved, z + 1, Len(moved)) /\ z \in 0 .. Len(moved)
          /\ Len(moved) - z = y - x
      BY <1>1, <1>4 DEF Rest
    <3> HIDE DEF back, x, y, z
    <3> QED BY <1>4, <3>1, TwoParts
  <2> HIDE DEF back, x, y, z
  <2>2. \A i \in 1 .. y - x : back[i] = rest[i]
    BY <1>4, <2>1
  <2>3. back = rest
    BY <1>3, <2>1, <2>2, SeqEqual
  <2> QED BY <2>3 DEF back
<1> QED BY <1>5, <1>6, <1>7, <1>8 DEF moved, rest

\* In a plan no writable mount of the host is over the place of a copy, every
\* copy has its mount, and where the host's file could be reached through a
\* writable mount its copy is in the way.
Sheltered(r) ==
  /\ r.template \in Profile /\ r.binds \in Seq(Binding) /\ Ordered(r.binds, Later)
  /\ \A p \in DOMAIN r.copies : \E b \in Range(r.binds) : Own(b) /\ b.target = p
  /\ \A b \in Range(r.binds) : Writable(b) =>
       \A m \in Mounted(r.template) :
         m.container \in DOMAIN r.copies /\ IsPrefix(b.source[2], m.host)
           => m.container = b.target \o Rest(b.source[2], m.host)

LEMMA PlanOrder ==
  ASSUME HostOK, NEW t \in Profile, NEW w \in Workspace, keychain \in BOOLEAN
  PROVE  /\ Plan(w, t) \in Seq(Binding) /\ Ordered(Plan(w, t), Later)
         /\ \A p \in DOMAIN Copies(t) :
              /\ \E b \in Range(Plan(w, t)) : Own(b) /\ b.target = p
              /\ p = Config \/ \E m \in Mounted(t) : MayBeCopied(m) /\ m.container = p
         /\ \A b \in Range(Plan(w, t)) : Writable(b) =>
              \/ b.source = OnHost(w) /\ b.target = t.target
              \/ \E m \in Mounted(t) : /\ Shown(m) /\ m.mode = "rw"
                                       /\ b.source = OnHost(m.host) /\ b.target = m.container
<1> DEFINE ms == AllMounts(t)
           token == TokenAvailable(t)
           workspace == Bind(OnHost(w), t.target, "rw")
           hostdo == Bind(Private(<<"hostdo">>), <<"hostdo">>, "ro")
           start == <<workspace, hostdo>>
           bound == FlattenSeq([i \in DOMAIN ms |-> Binds(ms[i], token)])
           config == Bind(Private(Config), Config, "rw")
           last1 == Onboarding(t)
           x == start \o bound
<1>1. Plan(w, t) = x \o last1
  BY Zenon DEF Plan
<1>2. w \in Path /\ t.target \in Path /\ <<"hostdo">> \in Path /\ Config \in Path
  BY LaunchAssumption, PathsOfNames
<1>3. /\ workspace \in Binding /\ workspace.target = t.target /\ workspace.source = OnHost(w)
      /\ ~Own(workspace)
      /\ hostdo \in Binding /\ hostdo.target = <<"hostdo">> /\ Own(hostdo)
      /\ config \in Binding /\ config.target = Config /\ Own(config)
  BY <1>2, ABind DEF Own, Bind
<1>4. token \in BOOLEAN
  BY IsToken
<1>5. \A b \in Binding : Len(<<"hostdo">>) <= Len(b.target)
  <2>1. \A b \in Binding : b.target \in Path
    BY DEF Binding
  <2> QED BY <2>1, PathLength
<1>6. /\ bound \in Seq(Binding) /\ Ordered(bound, Later)
      /\ \A i \in DOMAIN ms : Copy(ms[i], token) # Missing =>
           \E b \in Range(bound) : Own(b) /\ b.target = ms[i].container
      /\ \A b \in Range(bound) : Writable(b) =>
           \E m \in Mounted(t) : /\ Shown(m) /\ m.mode = "rw"
                                 /\ b.source = OnHost(m.host) /\ b.target = m.container
  BY <1>4, BoundIs, BoundOrder
<1>7. last1 = <<config>> \/ last1 = <<>>
  BY Zenon DEF Onboarding
<1>8. last1 \in Seq(Binding) /\ Range(last1) \in {{config}, {}}
  <2> HIDE DEF last1, config
  <2>1. CASE last1 = <<config>>
    BY <1>3, <2>1, One
  <2>2. CASE last1 = <<>>
    BY <2>2, EmptySeq, Empty
  <2> QED BY <1>7, <2>1, <2>2
<1>9. \A i \in DOMAIN ms : ms[i] \in Mounted(t)
  BY AllMountsIs DEF Range
<1>10. \A p \in DOMAIN Copies(t) :
         \/ \E i \in DOMAIN ms : Copy(ms[i], token) # Missing /\ p = ms[i].container
         \/ \E b \in Range(last1) : p = b.target
  <2> DEFINE own == {i \in DOMAIN ms : Copy(ms[i], token) # Missing}
             copied == {ms[i].container : i \in own}
             onboarded == {b.target : b \in Range(last1)}
  <2>1. DOMAIN Copies(t) = copied \cup onboarded
    BY Zenon DEF Copies
  <2> QED BY <2>1
<1> HIDE DEF ms, token, workspace, hostdo, bound, config, last1
<1>11. start \in Seq(Binding) /\ Range(start) = {workspace, hostdo}
  BY <1>3 DEF Range
<1>12. Ordered(start, Later)
  <2>1. <<workspace, hostdo>> \in Later
    BY <1>3 DEF Later
  <2>2. DOMAIN start = 1 .. 2 /\ start[1] = workspace /\ start[2] = hostdo
    OBVIOUS
  <2> HIDE DEF start
  <2>3. \A i, j \in DOMAIN start : i < j => i = 1 /\ j = 2
    BY <2>2
  <2> QED BY <2>1, <2>2, <2>3 DEF Ordered
<1> HIDE DEF start
<1>13. Range(bound) \subseteq Binding
  BY <1>6, OwnRange
<1>14. Ordered(x, Later)
  <2>1. \A a \in Range(start), b \in Range(bound) : <<a, b>> \in Later
    BY <1>3, <1>5, <1>11, <1>13 DEF Later
  <2> QED BY <1>6, <1>11, <1>12, <2>1, JoinedOrder
<1>15. x \in Seq(Binding) /\ Range(x) = Range(start) \cup Range(bound)
  BY <1>6, <1>11, Joined
<1> HIDE DEF x
<1>16. Range(x) \subseteq Binding /\ ~Writable(config)
  BY <1>3, <1>15, OwnRange DEF Own, Writable
<1>17. Ordered(x \o last1, Later)
  <2>1. Ordered(last1, Later)
    <3>1. \A a, b \in Range(last1) : <<a, b>> \in Later
      BY <1>3, <1>8, <1>16 DEF Later
    <3> QED BY <3>1, OfPairs
  <2>2. \A a \in Range(x), b \in Range(last1) : <<a, b>> \in Later
    BY <1>3, <1>8, <1>16 DEF Later
  <2> QED BY <1>8, <1>14, <1>15, <2>1, <2>2, JoinedOrder
<1>18. x \o last1 \in Seq(Binding) /\ Range(x \o last1) = Range(x) \cup Range(last1)
  BY <1>8, <1>15, Joined
<1>19. \A b \in Range(bound) \cup Range(last1) : b \in Range(Plan(w, t))
  BY <1>1, <1>15, <1>18
<1>20. ASSUME NEW p \in DOMAIN Copies(t)
       PROVE  /\ \E b \in Range(Plan(w, t)) : Own(b) /\ b.target = p
              /\ p = Config \/ \E m \in Mounted(t) : MayBeCopied(m) /\ m.container = p
  <2>1. CASE \E i \in DOMAIN ms : Copy(ms[i], token) # Missing /\ p = ms[i].container
    <3>1. PICK i \in DOMAIN ms : Copy(ms[i], token) # Missing /\ p = ms[i].container
      BY <2>1
    <3>2. MayBeCopied(ms[i])
      BY <3>1, Zenon DEF Copy, MayBeCopied
    <3>3. \E b \in Range(bound) : Own(b) /\ b.target = p
      BY <1>6, <3>1
    <3> QED BY <1>9, <1>19, <3>1, <3>2, <3>3
  <2>2. CASE \E b \in Range(last1) : p = b.target
    <3>1. config \in Range(last1) /\ p = Config
      BY <1>3, <1>8, <2>2
    <3> QED BY <1>3, <1>19, <3>1
  <2> QED BY <1>10, <2>1, <2>2
<1>21. ASSUME NEW b \in Range(Plan(w, t)), Writable(b)
       PROVE  \/ b.source = OnHost(w) /\ b.target = t.target
              \/ \E m \in Mounted(t) : /\ Shown(m) /\ m.mode = "rw"
                                       /\ b.source = OnHost(m.host) /\ b.target = m.container
  <2>1. b \in {workspace, hostdo} \cup Range(bound) \cup Range(last1)
    BY <1>1, <1>11, <1>15, <1>18, <1>21
  <2>2. ~Writable(hostdo)
    BY <1>3 DEF Own, Writable
  <2>3. b = workspace \/ b \in Range(bound)
    BY <1>8, <1>16, <1>21, <2>1, <2>2
  <2> QED BY <1>3, <1>6, <1>21, <2>3
<1> QED BY <1>1, <1>17, <1>18, <1>20, <1>21

LEMMA BornSheltered ==
  ASSUME CopiesMirror, LaunchTypes, NEW s \in Session, NEW w \in Workspace, NEW d \in Dockerfile,
         NEW t \in Profile
  PROVE  Sheltered(Born(s, w, d, t))
<1> DEFINE r == Born(s, w, d, t)
           binds == Plan(w, t)
           copies == Copies(t)
<1>1. r.template = t /\ r.binds = binds /\ r.copies = copies
  BY DEF Born
<1>2. /\ binds \in Seq(Binding) /\ Ordered(binds, Later)
      /\ \A p \in DOMAIN copies :
           /\ \E b \in Range(binds) : Own(b) /\ b.target = p
           /\ p = Config \/ \E m \in Mounted(t) : MayBeCopied(m) /\ m.container = p
      /\ \A b \in Range(binds) : Writable(b) =>
           \/ b.source = OnHost(w) /\ b.target = t.target
           \/ \E m \in Mounted(t) : /\ Shown(m) /\ m.mode = "rw"
                                    /\ b.source = OnHost(m.host) /\ b.target = m.container
  BY PlanOrder DEF LaunchTypes
<1> HIDE DEF r, binds, copies
<1>3. ASSUME NEW m \in Mounted(t), m.container \in DOMAIN copies
      PROVE  /\ IsPrefix(w, m.host) => m.container = t.target \o Rest(w, m.host)
             /\ \A n \in Mounted(t) : Shown(n) /\ n.mode = "rw" /\ IsPrefix(n.host, m.host)
                  => m.container = n.container \o Rest(n.host, m.host)
  <2>1. Config[Len(Config)] = ".claude.json"
    BY DEF Config
  <2>2. m.container = Config => MayBeCopied(m)
    BY <2>1 DEF MayBeCopied, Last
  <2>3. PICK copied \in Mounted(t) : MayBeCopied(copied) /\ m.container = copied.container
    BY <1>2, <1>3, <2>2
  <2> QED BY <1>3, <2>3 DEF CopiesMirror, Mounted, Layered
<1>4. ASSUME NEW b \in Range(binds), Writable(b), NEW m \in Mounted(t),
             m.container \in DOMAIN copies, IsPrefix(b.source[2], m.host)
      PROVE  m.container = b.target \o Rest(b.source[2], m.host)
  <2>1. CASE b.source = OnHost(w) /\ b.target = t.target
    <3>1. b.source[2] = w
      BY <2>1 DEF OnHost
    <3> QED BY <1>3, <1>4, <2>1, <3>1
  <2>2. CASE \E n \in Mounted(t) : /\ Shown(n) /\ n.mode = "rw"
                                   /\ b.source = OnHost(n.host) /\ b.target = n.container
    <3>1. PICK n \in Mounted(t) : /\ Shown(n) /\ n.mode = "rw"
                                  /\ b.source = OnHost(n.host) /\ b.target = n.container
      BY <2>2
    <3>2. b.source[2] = n.host
      BY <3>1 DEF OnHost
    <3> QED BY <1>3, <1>4, <3>1, <3>2
  <2> QED BY <1>2, <1>4, <2>1, <2>2
<1> QED BY <1>1, <1>2, <1>4 DEF Sheltered, r

\* No file of the host holds what a session has not written yet, a session is
\* sheltered as long as it is there, and what it has a copy of it has not written.
Untouched(s) == \A f \in HostFile : host[f] = Missing \/ s \notin host[f]
Spared(s, r) ==
  \A m \in Mounted(r.template) :
    m.container \in DOMAIN r.copies /\ m.host \in HostFile => host[m.host] = Missing \/ s \notin host[m.host]
Seeded(s) ==
  /\ session[s].phase \in {"none", "starting", "created"} => Untouched(s)
  /\ session[s].phase \in {"starting", "created", "running"} => Sheltered(session[s])
  /\ session[s].phase \in {"created", "running"} => Accepted(session[s].binds)
  /\ session[s].phase = "running" => Spared(s, session[s])
SeedInv == \A s \in Session : Seeded(s)

\* A write that reaches the host misses every file the session has a copy of.
LEMMA WriteMisses ==
  ASSUME NEW r, Sheltered(r), Accepted(r.binds), NEW p \in Path, Over(r.binds, p) # {},
         LET b == Resolved(r.binds, p) IN Writable(b),
         NEW m \in Mounted(r.template), m.container \in DOMAIN r.copies,
         Inside(Resolved(r.binds, p), p) = m.host
  PROVE  FALSE
<1> DEFINE binds == r.binds
           over == Over(binds, p)
           k == Max(over)
           b == binds[k]
           n == Len(binds)
<1>1. binds \in Seq(Binding) /\ n \in Nat /\ DOMAIN binds = 1 .. n
  BY LenProperties DEF Sheltered
<1>2. over \subseteq 1 .. n /\ over # {}
  BY <1>1 DEF Over
<1>3. k \in over /\ \A i \in over : i <= k
  <2> HIDE DEF over, n
  <2>1. \E x \in over : \A y \in over : y <= x
    <3>1. over \in SUBSET (0 .. n)
      BY <1>1, <1>2
    <3> QED BY <1>1, <1>2, <3>1, GreatestNumber
  <2>2. \E x \in over : \A y \in over : x >= y
    BY <1>1, <1>2, <2>1
  <2>3. k \in over /\ \A y \in over : k >= y
    BY <2>2 DEF Max
  <2> QED BY <1>1, <1>2, <2>3
<1>4. Resolved(binds, p) = b
  BY DEF Resolved
<1> HIDE DEF k, over, n
<1>5. k \in DOMAIN binds /\ b \in Binding /\ b \in Range(binds) /\ IsPrefix(b.target, p)
  <2>1. k \in 1 .. n
    BY <1>2, <1>3
  <2>2. b \in Binding
    BY <1>1, <2>1, ElementOfSeq DEF n
  <2>3. IsPrefix(binds[k].target, p)
    BY <1>3 DEF over, Over
  <2> QED BY <1>1, <2>1, <2>2, <2>3 DEF Range
<1>6. Writable(b) /\ b.source[2] \o Rest(b.target, p) = m.host
  BY <1>4 DEF Inside
<1>7. b.source[2] \in Path /\ b.target \in Path
  BY <1>5 DEF Binding
<1> DEFINE h == b.source[2]
           a == b.target
<1>8. /\ Len(a) <= Len(p) /\ (Len(p) <= Len(a) => a = p) /\ a \o Rest(a, p) = p
      /\ IsPrefix(h, h \o Rest(a, p)) /\ Rest(h, h \o Rest(a, p)) = Rest(a, p)
  <2>1. a \in Path /\ h \in Path /\ IsPrefix(a, p)
    BY <1>5, <1>7
  <2> HIDE DEF a, h
  <2> QED BY <2>1, Moved
<1>9. m.container = p
  <2>1. IsPrefix(b.source[2], m.host)
    BY <1>6, <1>8
  <2>2. m.container = b.target \o Rest(b.source[2], m.host)
    BY <1>5, <1>6, <2>1 DEF Sheltered
  <2> QED BY <1>6, <1>8, <2>2
<1>10. PICK j \in DOMAIN binds : Own(binds[j]) /\ binds[j].target = p
  <2>1. PICK o \in Range(binds) : Own(o) /\ o.target = p
    BY <1>9 DEF Sheltered
  <2> QED BY <2>1 DEF Range
<1>11. IsPrefix(p, p)
  BY PathLength DEF IsPrefix
<1>12. j <= k /\ j # k
  <2>1. j \in over
    BY <1>10, <1>11 DEF over, Over
  <2>2. binds[j] # b
    BY <1>6, <1>10 DEF Own, Writable
  <2> QED BY <1>3, <2>1, <2>2
<1>13. Len(p) <= Len(b.target)
  <2>1. j < k
    BY <1>1, <1>5, <1>10, <1>12
  <2>2. <<binds[j], b>> \in Later
    BY <1>5, <1>10, <2>1 DEF Sheltered, Ordered
  <2> QED BY <1>6, <1>10, <2>2 DEF Later
<1>14. b.target = binds[j].target
  BY <1>8, <1>10, <1>13
<1> QED BY <1>5, <1>10, <1>12, <1>14 DEF Accepted

LEMMA SeedInit ==
  ASSUME LaunchInit
  PROVE  SeedInv
<1>1. \A s \in Session : session[s].phase = "none"
  BY DEF LaunchInit, NotLaunched
<1>2. \A s \in Session : s \notin Trace
  BY LaunchAssumption
<1>3. \A s \in Session : Untouched(s)
  BY <1>2 DEF Untouched, LaunchInit, Trace
<1> QED BY <1>1, <1>3 DEF SeedInv, Seeded

\* What a session goes on with.
LEMMA SeededStays ==
  ASSUME NEW s \in Session, Seeded(s), UNCHANGED host,
         session'[s].template = session[s].template, session'[s].binds = session[s].binds,
         DOMAIN session'[s].copies = DOMAIN session[s].copies,
         \/ session'[s].phase = session[s].phase
         \/ /\ session[s].phase = "starting" /\ session'[s].phase = "created"
            /\ Accepted(session[s].binds)
         \/ session[s].phase = "created" /\ session'[s].phase = "running"
  PROVE  Seeded(s)'
<1>1. Sheltered(session'[s]) <=> Sheltered(session[s])
  BY Zenon DEF Sheltered
<1>2. (Untouched(s)' <=> Untouched(s)) /\ (Spared(s, session[s])' <=> Spared(s, session[s]))
  BY Zenon DEF Untouched, Spared
<1>3. Untouched(s) => Spared(s, session[s])
  BY DEF Untouched, Spared
<1> QED BY <1>1, <1>2, <1>3 DEF Seeded

LEMMA SeedNext ==
  ASSUME CopiesMirror, LaunchTypes, SeedInv, [LaunchNext]_launchVars
  PROVE  SeedInv'
<1>1. ASSUME UNCHANGED <<host, session>>, NEW r \in Session
      PROVE  Seeded(r)'
  BY <1>1, SeededStays DEF SeedInv
<1>2. ASSUME NEW w \in Workspace, NEW d \in Dockerfile, NEW s \in Session, NEW t \in Profile,
             Spawn(s, w, d, t), NEW r \in Session
      PROVE  Seeded(r)'
  <2>1. session' = [session EXCEPT ![s] = Born(s, w, d, t)] /\ UNCHANGED host /\ session[s].phase = "none"
    BY <1>2, Zenon DEF Spawn, Born
  <2>2. CASE r # s
    BY <2>1, <2>2, SeededStays DEF LaunchTypes, SeedInv
  <2>3. CASE r = s
    <3>1. session'[s] = Born(s, w, d, t)
      BY <2>1 DEF LaunchTypes
    <3>2. session'[s].phase = "starting"
      BY <3>1 DEF Born
    <3>3. Sheltered(session'[s])
      BY <3>1, BornSheltered
    <3>4. Untouched(s)'
      BY <2>1 DEF SeedInv, Seeded, Untouched
    <3> QED BY <2>3, <3>2, <3>3, <3>4 DEF Seeded
  <2> QED BY <2>2, <2>3
<1>3. ASSUME NEW s \in Session, Adopt(s) \/ Runs(s), NEW r \in Session
      PROVE  Seeded(r)'
  <2>1. UNCHANGED host /\ Seeded(r)
    BY <1>3 DEF Adopt, Runs, SeedInv
  <2>2. PICK phase \in {"created", "running"} :
          /\ session' = [session EXCEPT ![s].phase = phase]
          /\ \/ /\ phase = "created" /\ session[s].phase = "starting"
                /\ Accepted(session[s].binds)
             \/ phase = "running" /\ session[s].phase = "created"
    BY <1>3 DEF Adopt, Runs
  <2>3. session'[s] = [session[s] EXCEPT !.phase = phase] /\ (r # s => session'[r] = session[r])
    BY <2>2 DEF LaunchTypes
  <2>4. CASE r # s
    BY <2>1, <2>3, <2>4, SeededStays
  <2>5. CASE r = s
    <3> DEFINE old == session[s]
               new == session'[s]
    <3>1. old \in Launched /\ new = [old EXCEPT !.phase = phase]
      BY <2>3 DEF LaunchTypes
    <3> HIDE DEF old, new
    <3>2. /\ new.template = old.template /\ new.binds = old.binds /\ new.copies = old.copies
          /\ new.phase = phase
      BY <3>1 DEF Launched
    <3> QED BY <2>1, <2>2, <2>5, <3>2, SeededStays DEF old, new
  <2> QED BY <2>4, <2>5
<1>4. ASSUME NEW s \in Session, RollBack(s) \/ Exits(s), NEW r \in Session
      PROVE  Seeded(r)'
  <2>1. session' = [session EXCEPT ![s] = Gone] /\ UNCHANGED host
    BY <1>4 DEF RollBack, Exits, Gone
  <2>2. CASE r # s
    BY <2>1, <2>2, SeededStays DEF LaunchTypes, SeedInv
  <2>3. CASE r = s
    <3>1. session'[s].phase = "gone"
      BY <2>1 DEF LaunchTypes, Gone, NotLaunched
    <3> QED BY <2>3, <3>1 DEF Seeded
  <2> QED BY <2>2, <2>3
\* What is written to a file of the host.
<1>5. ASSUME NEW f \in HostFile, NEW c, NEW r \in Session, host' = [host EXCEPT ![f] = c],
             UNCHANGED session,
             \/ c = Missing \/ r \notin c
             \/ host[f] # Missing /\ r \in host[f]
             \/ session[r].phase = "running" /\
                \A m \in Mounted(session[r].template) :
                  m.container \in DOMAIN session[r].copies => m.host # f
      PROVE  Seeded(r)'
  <2>1. \A g \in HostFile : host'[g] = IF g = f THEN c ELSE host[g]
    BY <1>5 DEF LaunchTypes, HostOK
  <2>2. Seeded(r)
    BY DEF SeedInv
  <2>3. Untouched(r) /\ session[r].phase # "running" => Untouched(r)'
    BY <1>5, <2>1 DEF Untouched
  <2>4. session[r].phase = "running" /\ Spared(r, session[r]) => Spared(r, session[r])'
    BY <1>5, <2>1 DEF Spared
  <2> QED BY <1>5, <2>2, <2>3, <2>4 DEF Seeded
<1>6. ASSUME NEW s \in Session, NEW p \in Probe, Writes(s, p), NEW r \in Session
      PROVE  Seeded(r)'
  <2> DEFINE b == Resolved(session[s].binds, p)
             dest == Inside(b, p)
  <2>1. CASE UNCHANGED host /\ session' = [session EXCEPT ![s].copies[p] = @ \cup {s}]
    <3>1. Alike(s, r)
      BY <1>6, GoesOn
    <3>2. session'[r].phase = session[r].phase
      <4>1. session[s] \in Launched
        BY DEF LaunchTypes
      <4> QED BY <2>1, <4>1 DEF LaunchTypes, Launched
    <3> QED BY <2>1, <3>1, <3>2, SeededStays DEF Alike, SeedInv
  <2>2. CASE /\ b.source[1] = "host" /\ dest \in HostFile /\ UNCHANGED session
             /\ host' = [host EXCEPT ![dest] = (IF @ = Missing THEN {} ELSE @) \cup {s}]
    <3> DEFINE c == (IF host[dest] = Missing THEN {} ELSE host[dest]) \cup {s}
    <3>1. session[s].phase = "running" /\ Over(session[s].binds, p) # {} /\ Writable(b)
      BY <1>6, <2>2 DEF Writes, Writable
    <3>2. CASE r # s
      <4>1. r \notin c \/ (host[dest] # Missing /\ r \in host[dest])
        BY <3>2
      <4> QED BY <1>5, <2>2, <4>1
    <3>3. CASE r = s
      <4>1. Sheltered(session[s]) /\ Accepted(session[s].binds) /\ p \in Path
        BY <3>1, LaunchAssumption DEF SeedInv, Seeded
      <4>2. ASSUME NEW m \in Mounted(session[s].template), m.container \in DOMAIN session[s].copies,
                   m.host = dest
            PROVE  FALSE
        BY <3>1, <4>1, <4>2, WriteMisses
      <4> HIDE DEF dest
      <4> QED BY <1>5, <2>2, <3>1, <3>3, <4>2
    <3> QED BY <3>2, <3>3
  <2> QED BY <1>6, <2>1, <2>2 DEF Writes
<1>7. ASSUME NEW f \in HostFile, HostWrites(f), NEW r \in Session
      PROVE  Seeded(r)'
  <2>1. PICK c \in {Missing, {"host"}, {"host", "oauth", "refresh"}} : host' = [host EXCEPT ![f] = c]
    BY <1>7 DEF HostWrites
  <2>2. r \notin {"host", "oauth", "refresh"}
    BY LaunchAssumption DEF Trace
  <2>3. c = Missing \/ r \notin c
    BY <2>2
  <2> QED BY <1>5, <1>7, <2>1, <2>3 DEF HostWrites
<1>8. ASSUME NEW r \in Session
      PROVE  Seeded(r)'
  <2>1. CASE UNCHANGED <<host, session>>
    BY <1>1, <2>1
  <2>2. CASE \E w \in Workspace, d \in Dockerfile, s \in Session, t \in Profile : Spawn(s, w, d, t)
    BY <1>2, <2>2
  <2>3. CASE \E s \in Session : Adopt(s) \/ Runs(s)
    BY <1>3, <2>3
  <2>4. CASE \E s \in Session : RollBack(s) \/ Exits(s)
    BY <1>4, <2>4
  <2>5. CASE \E s \in Session, p \in Probe : Writes(s, p)
    BY <1>6, <2>5
  <2>6. CASE \E f \in HostFile : HostWrites(f)
    BY <1>7, <2>6
  <2> QED BY <2>1, <2>2, <2>3, <2>4, <2>5, <2>6 DEF LaunchNext, launchVars, Build
<1> QED BY <1>8 DEF SeedInv

\* A session that was given a copy of a file never writes the host's own, by
\* whatever path it comes and whatever the user does to the file meanwhile: where
\* what has a copy and also lies in a directory that is mounted writable is mounted
\* in the place in which that directory shows it (spawn.rs, seed_private_mount,
\* mount_bind_args and the order of the mounts).
THEOREM SeededStaysPrivateHolds ==
  ASSUME CopiesMirror
  PROVE  LaunchSpec => []SeededStaysPrivate
<1> DEFINE LaunchInv == LaunchTypes /\ NumberInv /\ SeedInv
<1>1. LaunchInit => LaunchInv
  BY PlanInit, SeedInit
<1>2. LaunchInv /\ [LaunchNext]_launchVars => LaunchInv'
  <2> SUFFICES ASSUME LaunchInv, [LaunchNext]_launchVars PROVE LaunchInv'
    OBVIOUS
  <2>1. LaunchTypes'
    BY LaunchNextTypes DEF NumberInv
  <2> QED BY <2>1, NumberNext, SeedNext
<1>3. LaunchInv => SeededStaysPrivate
  <2> SUFFICES ASSUME LaunchInv, NEW s \in Existing,
                      NEW m \in Range(AllMounts(session[s].template)),
                      m.container \in DOMAIN session[s].copies, m.host \in HostFile
               PROVE  host[m.host] = Missing \/ s \notin host[m.host]
    BY DEF SeededStaysPrivate
  <2>1. s \in Session /\ session[s].phase \in {"created", "running"} /\ Seeded(s)
    BY DEF Existing, SeedInv
  <2>2. session[s].template \in Profile
    BY <2>1 DEF Seeded, Sheltered
  <2>3. m \in Mounted(session[s].template)
    BY <2>2, AllMountsIs
  <2> QED BY <2>1, <2>3 DEF Seeded, Untouched, Spared
<1> HIDE DEF LaunchInv
<1> QED BY <1>1, <1>2, <1>3, PTL DEF LaunchSpec

=============================================================================
