---------------------------- MODULE CatalogProofs ----------------------------
(***************************************************************************)
(* Proofs about what the platform offers, for any namespaces, packages,    *)
(* servers, sites, models and any number of requests at once.  Skills: the *)
(* history contradicts neither itself nor the documents, a scope whose     *)
(* uploads do not overlap keeps to its quota, and a pool has every skill   *)
(* that operators require.  MCP servers: a grant resolves to what was      *)
(* granted.  Secrets: a value is for the namespace that stored it.  Sites: *)
(* what is deleted stays as it is.  Models: what is hidden is not served.  *)
(***************************************************************************)
EXTENDS Catalog, Sequences, LedgerArithmetic

-----------------------------------------------------------------------------
(* Skills.                                                                 *)

Publishing == {"put", "read", "write", "row"}
Held(p) == [scope |-> task[p].scope, name |-> task[p].name, content |-> task[p].content]

(* A request names what it works on: what is published is a skill of some content, and
   a revision is one more than the one it replaces; a switch is of a namespace. *)
TasksNamed ==
  \A p \in Workers :
    /\ task[p].at \in Publishing => task[p].name \in Names /\ task[p].content \in Contents
    /\ task[p].at = "write" => /\ task[p].revision >= 1
                               /\ task[p].base # None => task[p].revision = task[p].base + 1
    /\ task[p].at = "switch" => task[p].scope \in Namespaces /\ task[p].name \in Names

(* A skill there never was has no revision; one there is, or was, has a content. *)
RowsWhole ==
  \A scope \in Scopes, n \in Names :
    IF skill[scope][n].status = "none" THEN skill[scope][n].revision = 0
    ELSE skill[scope][n].content \in Contents

(* A package is stored from before its document is written, and for good.  *)
PackagesKept ==
  /\ \A p \in Workers : task[p].at \in {"read", "write", "row"} => Held(p) \in stored
  /\ \A r \in revisions :
       [scope |-> r.scope, name |-> r.name, content |-> r.content] \in stored
  /\ \A scope \in Scopes, n \in Names :
       skill[scope][n].status # "none" =>
         [scope |-> scope, name |-> n, content |-> skill[scope][n].content] \in stored

(* The history as it will be when uploads that wrote their document have appended
   their row: it is this one that a write of another document may not contradict. *)
RowOf(p) == [scope |-> task[p].scope, name |-> task[p].name,
             revision |-> task[p].revision, content |-> task[p].content]
Told == revisions \cup {RowOf(p) : p \in {q \in Workers : task[q].at = "row"}}
ToldOnce ==
  \A r \in Told :
    <<r.scope, r.name>> \notin clobbered =>
      /\ \A s \in Told : s.scope = r.scope /\ s.name = r.name
                           /\ s.revision = r.revision => s = r
      /\ skill[r.scope][r.name].revision = r.revision =>
           skill[r.scope][r.name].content = r.content
      /\ skill[r.scope][r.name].revision >= r.revision

(* An upload to a scope that is not crowded is alone in it.                *)
AloneUnlessCrowded ==
  \A scope \in Scopes \ crowded : \A p, q \in Uploading(scope) : p = q

(* What an upload that is alone has counted is no less than what there is: what there
   was when it began and what it published, of which others may have deleted some.
   Between an item's test and its write that includes the item.            *)
Others(scope, n) == Total([m \in Live(scope) \ {n} |-> Size[skill[scope][m].content]])
Counting(p) ==
  LET scope == task[p].scope
      n == task[p].name
  IN  /\ task[p].at # "row" => /\ Cardinality(Live(scope)) <= task[p].count
                               /\ Bytes(scope) <= task[p].bytes
      /\ task[p].at \in Publishing =>
           task[p].nextCount <= MaxPackages /\ task[p].nextBytes <= MaxBytes
      /\ task[p].at \in Publishing \ {"row"} =>
           /\ Cardinality(Live(scope) \cup {n}) <= task[p].nextCount
           /\ Others(scope, n) + Size[task[p].content] <= task[p].nextBytes
      /\ task[p].at = "row" => /\ Cardinality(Live(scope)) <= task[p].nextCount
                               /\ Bytes(scope) <= task[p].nextBytes
CountsCover ==
  \A scope \in Scopes \ crowded : \A p \in Uploading(scope) : Counting(p)

IInv ==
  /\ TypeOK /\ TasksNamed /\ RowsWhole
  /\ PackagesKept /\ ToldOnce
  /\ AloneUnlessCrowded /\ CountsCover /\ QuotaHolds

-----------------------------------------------------------------------------
(* What a scope has.                                                       *)

(* A sum over fewer rows is no more.                                       *)
LEMMA TotalOfFewer ==
  ASSUME NEW X, IsFiniteSet(X), NEW f \in [X -> Nat], NEW Y \in SUBSET X
  PROVE  Total([x \in Y |-> f[x]]) <= Total(f)
<1> DEFINE g == [x \in Y |-> f[x]]
<1>1. IsFiniteSet(Markers(f))
  BY MarkersFinite
<1>2. Markers(g) \subseteq Markers(f)
  BY DEF Markers
<1>3. /\ Cardinality(Markers(g)) <= Cardinality(Markers(f))
  BY <1>1, <1>2, FS_Subset
<1>4. QED
  BY <1>3 DEF Total

(* What is live of some rows, its bytes, and the bytes of all but one skill. *)
LiveOf(rows) == {n \in Names : rows[n].status = "live"}
SizesOf(rows, L) == [n \in L |-> Size[rows[n].content]]
BytesOf(rows) == Total(SizesOf(rows, LiveOf(rows)))
OthersOf(rows, n) == Total(SizesOf(rows, LiveOf(rows) \ {n}))
Sound(rows) == \A n \in Names : rows[n].status = "live" => rows[n].content \in Contents

(* The quota of a scope is counted from the rows of its documents.         *)
LEMMA UsageIsOfRows ==
  ASSUME NEW scope \in Scopes
  PROVE  /\ Live(scope) = LiveOf(skill[scope]) /\ Bytes(scope) = BytesOf(skill[scope])
         /\ \A n \in Names : Others(scope, n) = OthersOf(skill[scope], n)
         /\ Live(scope)' = LiveOf(skill'[scope]) /\ Bytes(scope)' = BytesOf(skill'[scope])
         /\ \A n \in Names : Others(scope, n)' = OthersOf(skill'[scope], n)
BY DEF Live, Bytes, Others, LiveOf, BytesOf, OthersOf, SizesOf

(* Live skills are finitely many, and what any of them add up to is a natural. *)
LEMMA UsageIsNat ==
  ASSUME NEW rows, Sound(rows)
  PROVE  /\ IsFiniteSet(LiveOf(rows)) /\ Cardinality(LiveOf(rows)) \in Nat
         /\ SizesOf(rows, LiveOf(rows)) \in [LiveOf(rows) -> Nat]
         /\ BytesOf(rows) \in Nat
         /\ \A n \in Names : /\ OthersOf(rows, n) \in Nat
                             /\ IsFiniteSet(LiveOf(rows) \cup {n})
                             /\ Cardinality(LiveOf(rows) \cup {n}) \in Nat
<1> USE SkillHubAssumption
<1> DEFINE L == LiveOf(rows)
<1>1. IsFiniteSet(L) /\ L \subseteq Names
  BY FS_Subset DEF LiveOf
<1>2. \A n \in L : rows[n].content \in Contents
  BY DEF Sound, LiveOf
<1>3. \A E \in SUBSET L : SizesOf(rows, E) \in [E -> Nat]
  BY <1>2 DEF SizesOf
<1>4. ASSUME NEW n \in Names
      PROVE  /\ OthersOf(rows, n) \in Nat
             /\ IsFiniteSet(L \cup {n}) /\ Cardinality(L \cup {n}) \in Nat
  <2> DEFINE E == L \ {n}
  <2>1. IsFiniteSet(E) /\ IsFiniteSet(L \cup {n})
    BY <1>1, FS_RemoveElement, FS_AddElement
  <2>2. SizesOf(rows, E) \in [E -> Nat]
    BY <1>3
  <2>3. OthersOf(rows, n) = Total(SizesOf(rows, E))
    BY DEF OthersOf
  <2> HIDE DEF E, L
  <2>4. QED
    BY <2>1, <2>2, <2>3, TotalIsNat, FS_CardinalityType
<1>5. BytesOf(rows) = Total(SizesOf(rows, L)) /\ SizesOf(rows, L) \in [L -> Nat]
  BY <1>3 DEF BytesOf
<1> HIDE DEF L
<1>6. Cardinality(L) \in Nat /\ Total(SizesOf(rows, L)) \in Nat
  BY <1>1, <1>5, TotalIsNat, FS_CardinalityType
<1>7. QED
  BY <1>1, <1>4, <1>5, <1>6 DEF L

(* What is live without one skill, and with it.                            *)
LEMMA UsageOfOthers ==
  ASSUME NEW rows, Sound(rows), NEW n \in Names
  PROVE  /\ n \in LiveOf(rows) =>
              /\ BytesOf(rows) = OthersOf(rows, n) + Size[rows[n].content]
              /\ LiveOf(rows) \cup {n} = LiveOf(rows)
         /\ n \notin LiveOf(rows) =>
              /\ BytesOf(rows) = OthersOf(rows, n)
              /\ Cardinality(LiveOf(rows) \cup {n}) = Cardinality(LiveOf(rows)) + 1
         /\ Cardinality(LiveOf(rows)) <= Cardinality(LiveOf(rows) \cup {n})
<1> DEFINE L == LiveOf(rows)
           f == SizesOf(rows, L)
<1>1. IsFiniteSet(L) /\ f \in [L -> Nat] /\ Cardinality(L) \in Nat
  BY UsageIsNat
<1>2. BytesOf(rows) = Total(f)
  BY DEF BytesOf
<1>3. OthersOf(rows, n) = Total([m \in L \ {n} |-> f[m]])
  <2>1. [m \in L \ {n} |-> f[m]] = SizesOf(rows, L \ {n})
    BY DEF SizesOf
  <2>2. QED
    BY <2>1 DEF OthersOf
<1>4. n \in L => f[n] = Size[rows[n].content]
  BY DEF SizesOf
<1>5. n \notin L => [m \in L \ {n} |-> f[m]] = f
  <2>1. n \notin L => L \ {n} = L
    OBVIOUS
  <2>2. [m \in L |-> f[m]] = f
    BY DEF SizesOf
  <2>3. QED
    BY <2>1, <2>2
<1> HIDE DEF f, L
<1>6. n \in L => Total(f) = Total([m \in L \ {n} |-> f[m]]) + f[n]
  BY <1>1, TotalWithout
<1>7. /\ n \notin L => Cardinality(L \cup {n}) = Cardinality(L) + 1
      /\ n \in L => L \cup {n} = L
  BY <1>1, FS_AddElement
<1>8. QED
  BY <1>1, <1>2, <1>3, <1>4, <1>5, <1>6, <1>7 DEF L

(* Where no skill comes to life and no content changes, what there is is no more. *)
LEMMA UsageOfLess ==
  ASSUME NEW rows, Sound(rows), NEW fewer, LiveOf(fewer) \subseteq LiveOf(rows),
         \A n \in Names : fewer[n].content = rows[n].content
  PROVE  /\ Cardinality(LiveOf(fewer)) <= Cardinality(LiveOf(rows))
         /\ BytesOf(fewer) <= BytesOf(rows)
         /\ \A n \in Names :
              /\ OthersOf(fewer, n) <= OthersOf(rows, n)
              /\ Cardinality(LiveOf(fewer) \cup {n}) <= Cardinality(LiveOf(rows) \cup {n})
<1> DEFINE L == LiveOf(rows)
           M == LiveOf(fewer)
<1>1. IsFiniteSet(L) /\ M \subseteq L /\ L \subseteq Names
  BY UsageIsNat DEF LiveOf
<1>2. \A E \in SUBSET L : IsFiniteSet(E) /\ SizesOf(rows, E) \in [E -> Nat]
  BY <1>1, UsageIsNat, FS_Subset DEF SizesOf
<1>3. \A E \in SUBSET L : SizesOf(fewer, E) = SizesOf(rows, E)
  BY <1>1 DEF SizesOf
<1>4. ASSUME NEW E \in SUBSET L, NEW F \in SUBSET E
      PROVE  Total(SizesOf(fewer, F)) <= Total(SizesOf(rows, E))
  <2> DEFINE f == SizesOf(rows, E)
  <2>1. IsFiniteSet(E) /\ f \in [E -> Nat]
    BY <1>2
  <2>2. SizesOf(fewer, F) = [x \in F |-> f[x]]
    <3>1. SizesOf(fewer, F) = SizesOf(rows, F)
      BY <1>3
    <3>2. QED
      BY <3>1 DEF SizesOf
  <2> HIDE DEF f
  <2>3. Total([x \in F |-> f[x]]) <= Total(f)
    BY <2>1, TotalOfFewer
  <2>4. QED
    BY <2>2, <2>3 DEF f
<1>5. BytesOf(fewer) <= BytesOf(rows)
  BY <1>1, <1>4 DEF BytesOf
<1>6. Cardinality(M) <= Cardinality(L)
  BY <1>1, FS_Subset
<1>7. ASSUME NEW n \in Names
      PROVE  /\ OthersOf(fewer, n) <= OthersOf(rows, n)
             /\ Cardinality(M \cup {n}) <= Cardinality(L \cup {n})
  <2>1. M \ {n} \in SUBSET (L \ {n}) /\ L \ {n} \in SUBSET L
    BY <1>1
  <2>2. OthersOf(fewer, n) <= OthersOf(rows, n)
    BY <1>4, <2>1 DEF OthersOf
  <2>3. IsFiniteSet(L \cup {n}) /\ M \cup {n} \subseteq L \cup {n}
    BY <1>1, UsageIsNat
  <2>4. QED
    BY <2>2, <2>3, FS_Subset
<1>8. QED
  BY <1>5, <1>6, <1>7

(* What there is once a skill is written.                                  *)
LEMMA UsageOfWritten ==
  ASSUME NEW rows, Sound(rows), NEW n \in Names, NEW c \in Contents, NEW written,
         written[n].status = "live", written[n].content = c,
         \A m \in Names : m # n => written[m] = rows[m]
  PROVE  /\ LiveOf(written) = LiveOf(rows) \cup {n}
         /\ BytesOf(written) = OthersOf(rows, n) + Size[c]
<1>1. LiveOf(written) = LiveOf(rows) \cup {n}
  BY DEF LiveOf
<1>2. Sound(written)
  BY DEF Sound
<1>3. OthersOf(written, n) = OthersOf(rows, n)
  <2>1. LiveOf(written) \ {n} = LiveOf(rows) \ {n}
    BY <1>1
  <2>2. \A m \in LiveOf(rows) \ {n} : written[m].content = rows[m].content
    BY DEF LiveOf
  <2>3. SizesOf(written, LiveOf(rows) \ {n}) = SizesOf(rows, LiveOf(rows) \ {n})
    BY <2>2 DEF SizesOf
  <2>4. QED
    BY <2>1, <2>3 DEF OthersOf
<1>4. n \in LiveOf(written)
  BY <1>1
<1>5. BytesOf(written) = OthersOf(written, n) + Size[written[n].content]
  BY <1>2, <1>4, UsageOfOthers
<1>6. QED
  BY <1>1, <1>3, <1>5

(* The rows of a scope are sound.                                          *)
LEMMA RowsSound ==
  ASSUME RowsWhole, NEW scope \in Scopes
  PROVE  Sound(skill[scope])
BY DEF RowsWhole, Sound

-----------------------------------------------------------------------------
(* Types.                                                                  *)

(* What one request is, is all that changes of the requests.               *)
LEMMA OneTask ==
  ASSUME task \in [Workers -> Task], NEW p \in Workers, NEW t \in Task,
         task' = [task EXCEPT ![p] = t]
  PROVE  /\ task' \in [Workers -> Task] /\ task'[p] = t
         /\ \A q \in Workers : q # p => task'[q] = task[q]
OBVIOUS

(* No request is a request.                                                *)
LEMMA IdleIsTask == Idle \in Task
BY DEF Idle, Task, Scopes, Steps

(* An upload begins with what there is, and tells whether it is alone.     *)
LEMMA StartTyped ==
  ASSUME TypeOK, RowsWhole, TasksNamed, NEW p \in Workers, StartUpload(p)
  PROVE  /\ task' \in [Workers -> Task] /\ crowded' \in SUBSET Scopes /\ TasksNamed'
         /\ \A q \in Workers : q # p => task'[q] = task[q]
         /\ \E scope \in Scopes :
              /\ task'[p].at = "items" /\ task'[p].scope = scope
              /\ task'[p].count = Cardinality(Live(scope)) /\ task'[p].bytes = Bytes(scope)
              /\ crowded' = IF Uploading(scope) = {} THEN crowded ELSE crowded \cup {scope}
<1>1. PICK scope \in Scopes, zip \in Zips :
        /\ task' = [task EXCEPT ![p] = [Idle EXCEPT !.at = "items", !.scope = scope, !.zip = zip,
                                      !.count = Cardinality(Live(scope)), !.bytes = Bytes(scope)]]
        /\ crowded' = IF Uploading(scope) = {} THEN crowded ELSE crowded \cup {scope}
  BY DEF StartUpload
<1>2. PICK n \in Nat : n = Cardinality(Live(scope))
  BY RowsSound, UsageIsOfRows, UsageIsNat
<1>3. PICK m \in Nat : m = Bytes(scope)
  BY RowsSound, UsageIsOfRows, UsageIsNat
<1>4. PICK t : t = [Idle EXCEPT !.at = "items", !.scope = scope, !.zip = zip,
                                !.count = n, !.bytes = m]
  OBVIOUS
<1>5. zip \in SUBSET (Names \X Contents)
  BY DEF Zips
<1>6. t \in Task /\ t.at = "items" /\ t.scope = scope /\ t.count = n /\ t.bytes = m
  <2>1. t = [at |-> "items", scope |-> scope, zip |-> zip, name |-> None, content |-> None,
             base |-> None, revision |-> 0, count |-> n, bytes |-> m, nextCount |-> 0,
             nextBytes |-> 0, hidden |-> {}, pool |-> {}]
    BY <1>4 DEF Idle
  <2>2. n \in Int /\ m \in Int
    OBVIOUS
  <2>3. QED
    BY <1>5, <2>1, <2>2 DEF Task, Steps
<1>7. task' = [task EXCEPT ![p] = t]
  BY <1>1, <1>2, <1>3, <1>4
<1>8. /\ task' \in [Workers -> Task] /\ task'[p] = t
      /\ \A q \in Workers : q # p => task'[q] = task[q]
  BY <1>6, <1>7, OneTask DEF TypeOK
<1>9. crowded' \in SUBSET Scopes /\ TasksNamed'
  BY <1>1, <1>6, <1>8 DEF TypeOK, TasksNamed, Publishing
<1>10. QED
  BY <1>1, <1>2, <1>3, <1>6, <1>8, <1>9

(* An item that is not dropped fits.                                       *)
Fits(p, t) ==
  LET row == skill[task[p].scope][t.name]
  IN  /\ t.nextCount = task[p].count + (IF row.status = "live" THEN 0 ELSE 1)
      /\ t.nextBytes = task[p].bytes - (IF row.status = "live" THEN Size[row.content] ELSE 0)
                                     + Size[t.content]
      /\ t.nextCount <= MaxPackages /\ t.nextBytes <= MaxBytes

(* A next item leaves what was counted, and is dropped unless it fits.     *)
LEMMA FindTyped ==
  ASSUME TypeOK, RowsWhole, TasksNamed, NEW p \in Workers, FindItem(p) \/ RefuseItem(p)
  PROVE  /\ task' \in [Workers -> Task] /\ TasksNamed'
         /\ \A q \in Workers : q # p => task'[q] = task[q]
         /\ task[p].at = "items" /\ task'[p].at \in {"items", "put"}
         /\ task'[p].scope = task[p].scope
         /\ task'[p].count = task[p].count /\ task'[p].bytes = task[p].bytes
         /\ task'[p].at = "put" => Fits(p, task'[p])
<1> USE SkillHubAssumption
<1>1. task[p] \in Task /\ At(p, "items")
  BY DEF TypeOK, FindItem, RefuseItem
<1>2. PICK t \in Task : /\ task' = [task EXCEPT ![p] = t]
                        /\ t.at = "put" => t.name \in Names /\ t.content \in Contents
                        /\ t.at \in {"put", "items"} /\ t.scope = task[p].scope
                        /\ t.count = task[p].count /\ t.bytes = task[p].bytes
                        /\ t.at = "put" => Fits(p, t)
  <2>1. CASE RefuseItem(p)
    <3>1. PICK item \in task[p].zip : task' = [task EXCEPT ![p].zip = @ \ {item}]
      BY <2>1 DEF RefuseItem
    <3>2. PICK t : t = [task[p] EXCEPT !.zip = @ \ {item}]
      OBVIOUS
    <3>3. /\ t \in Task /\ t.at = "items" /\ t.scope = task[p].scope
          /\ t.count = task[p].count /\ t.bytes = task[p].bytes
      BY <1>1, <3>2 DEF Task, At
    <3>4. QED
      BY <3>1, <3>2, <3>3
  <2>2. CASE FindItem(p)
    <3>1. PICK item \in task[p].zip :
            LET n == item[1]
                c == item[2]
                row == skill[task[p].scope][n]
                live == row.status = "live"
                nextCount == task[p].count + (IF live THEN 0 ELSE 1)
                nextBytes == task[p].bytes - (IF live THEN Size[row.content] ELSE 0) + Size[c]
                rest == [task[p] EXCEPT !.zip = @ \ {item}]
            IN  task' = [task EXCEPT ![p] =
             IF (live /\ row.content = c) \/ nextCount > MaxPackages \/ nextBytes > MaxBytes
             THEN rest
             ELSE [rest EXCEPT !.at = "put", !.name = n, !.content = c,
                               !.nextCount = nextCount, !.nextBytes = nextBytes]]
      BY <2>2 DEF FindItem
    <3> DEFINE n == item[1]
               c == item[2]
               row == skill[task[p].scope][n]
               live == row.status = "live"
               nextCount == task[p].count + (IF live THEN 0 ELSE 1)
               nextBytes == task[p].bytes - (IF live THEN Size[row.content] ELSE 0) + Size[c]
    <3>2. n \in Names /\ c \in Contents
      BY <1>1 DEF Task
    <3>3. task[p].scope \in Scopes /\ row \in SkillRow
      BY <1>1, <3>2 DEF TypeOK, Task
    <3>4. live => row.content \in Contents
      BY <3>2, <3>3 DEF RowsWhole
    <3>5. task[p].count \in Int /\ task[p].bytes \in Int
      BY <1>1 DEF Task
    <3>6. PICK i \in Int : i = nextCount
      BY <3>5
    <3>7. PICK j \in Int : j = nextBytes
      BY <3>2, <3>4, <3>5
    <3>8. PICK rest : rest = [task[p] EXCEPT !.zip = @ \ {item}]
      OBVIOUS
    <3>9. /\ rest \in Task /\ rest.at = "items" /\ rest.scope = task[p].scope
          /\ rest.count = task[p].count /\ rest.bytes = task[p].bytes
      BY <1>1, <3>8 DEF Task, At
    <3>10. PICK u : u = [rest EXCEPT !.at = "put", !.name = n, !.content = c,
                               !.nextCount = i, !.nextBytes = j]
      OBVIOUS
    <3>11. /\ u \in Task /\ u.at = "put" /\ u.name = n /\ u.content = c
           /\ u.scope = task[p].scope /\ u.count = task[p].count /\ u.bytes = task[p].bytes
           /\ u.nextCount = i /\ u.nextBytes = j
      BY <3>2, <3>9, <3>10 DEF Task, Steps
    <3>12. \/ task' = [task EXCEPT ![p] = rest]
           \/ task' = [task EXCEPT ![p] = u] /\ i <= MaxPackages /\ j <= MaxBytes
      <4>1. task' = [task EXCEPT ![p] =
                       IF (live /\ row.content = c) \/ i > MaxPackages \/ j > MaxBytes
                       THEN rest ELSE u]
        BY <3>1, <3>6, <3>7, <3>8, <3>10
      <4>2. \/ task' = [task EXCEPT ![p] = rest]
            \/ task' = [task EXCEPT ![p] = u] /\ ~(i > MaxPackages) /\ ~(j > MaxBytes)
        BY <4>1
      <4>3. QED
        BY <4>2
    <3>13. i <= MaxPackages /\ j <= MaxBytes => Fits(p, u)
      BY <3>6, <3>7, <3>11 DEF Fits
    <3>14. QED
      BY <3>2, <3>9, <3>11, <3>12, <3>13
  <2>3. QED
    BY <2>1, <2>2
<1>3. /\ task' \in [Workers -> Task] /\ task'[p] = t
      /\ \A q \in Workers : q # p => task'[q] = task[q]
  BY <1>2, OneTask DEF TypeOK
<1>4. TasksNamed'
  BY <1>2, <1>3 DEF TasksNamed, Publishing
<1>5. QED
  BY <1>1, <1>2, <1>3, <1>4 DEF At

(* An item is left behind with, or without, its count.                     *)
LEMMA DroppedTyped ==
  ASSUME TypeOK, NEW p \in Workers
  PROVE  /\ Dropped(p) \in Task /\ Dropped(p).at = "items"
         /\ Counted(p) \in Task /\ Counted(p).at = "items"
         /\ Dropped(p).scope = task[p].scope /\ Counted(p).scope = task[p].scope
         /\ Dropped(p).count = task[p].count /\ Dropped(p).bytes = task[p].bytes
         /\ Counted(p).count = task[p].nextCount /\ Counted(p).bytes = task[p].nextBytes
<1>1. task[p] \in Task
  BY DEF TypeOK
<1>2. Dropped(p) \in Task
  <2>1. PICK t : t = [task[p] EXCEPT !.at = "items", !.name = None, !.content = None]
    OBVIOUS
  <2>2. t \in Task
    BY <1>1, <2>1 DEF Task, Steps
  <2>3. PICK u : u = [t EXCEPT !.base = None, !.revision = 0]
    OBVIOUS
  <2>4. u \in Task
    BY <2>2, <2>3 DEF Task
  <2>5. PICK v : v = [u EXCEPT !.nextCount = 0, !.nextBytes = 0]
    OBVIOUS
  <2>6. v \in Task
    <3>1. PICK zero \in Int : zero = 0
      OBVIOUS
    <3>2. PICK w : w = [u EXCEPT !.nextCount = zero]
      OBVIOUS
    <3>3. w \in Task
      BY <2>4, <3>1, <3>2 DEF Task
    <3>4. v = [w EXCEPT !.nextBytes = zero]
      BY <2>5, <3>1, <3>2
    <3>5. QED
      BY <3>1, <3>3, <3>4 DEF Task
  <2>7. Dropped(p) = v
    BY <2>1, <2>3, <2>5 DEF Dropped
  <2>8. QED
    BY <2>6, <2>7
<1>3. /\ Dropped(p).at = "items" /\ Dropped(p).scope = task[p].scope
      /\ Dropped(p).count = task[p].count /\ Dropped(p).bytes = task[p].bytes
  BY <1>1 DEF Dropped, Task
<1>4. Counted(p) \in Task
  BY <1>1, <1>2 DEF Counted, Task
<1>5. /\ Counted(p).at = "items" /\ Counted(p).scope = task[p].scope
      /\ Counted(p).count = task[p].nextCount /\ Counted(p).bytes = task[p].nextBytes
  BY <1>2, <1>3 DEF Counted, Task
<1>6. QED
  BY <1>2, <1>3, <1>4, <1>5

(* An upload inside an item keeps to it and to what was counted, until it is done with
   the item: then what was published counts, what failed does not.         *)
Kept(p, t) ==
  /\ t.name = task[p].name /\ t.content = task[p].content
  /\ t.count = task[p].count /\ t.bytes = task[p].bytes
  /\ t.nextCount = task[p].nextCount /\ t.nextBytes = task[p].nextBytes
Published(p) ==
  \/ task[p].at = "row"
  \/ task[p].at = "read" /\ Skill(p).status = "live" /\ Skill(p).content = task[p].content
Inside(p, t) ==
  /\ t.at \in {"read", "write", "items"} /\ t.scope = task[p].scope
  /\ t.at = "read" => task[p].at = "put" /\ Kept(p, t)
  /\ t.at = "write" => task[p].at = "read" /\ Kept(p, t)
  /\ t.at = "items" =>
       \/ /\ task[p].at # "row"
          /\ t.count = task[p].count /\ t.bytes = task[p].bytes
       \/ Published(p) /\ t.count = task[p].nextCount /\ t.bytes = task[p].nextBytes

(* Each step of an upload leaves a request of its type.                    *)
LEMMA PublishTyped ==
  ASSUME TypeOK, RowsWhole, TasksNamed, NEW p \in Workers,
         \/ Put(p) \/ FailItem(p) \/ ReadSkill(p) \/ ConcurrentWrite(p) \/ AppendRow(p)
  PROVE  /\ task' \in [Workers -> Task] /\ TasksNamed'
         /\ \A q \in Workers : q # p => task'[q] = task[q]
         /\ task[p].at \in Publishing /\ Inside(p, task'[p])
<1>1. task[p] \in Task /\ task[p].at \in Publishing
  BY DEF TypeOK, At, Put, FailItem, ReadSkill, ConcurrentWrite, AppendRow, Publishing
<1>2. task[p].name \in Names /\ task[p].content \in Contents /\ task[p].scope \in Scopes
  BY <1>1 DEF TasksNamed, Task
<1>3. Skill(p) \in SkillRow
  BY <1>2 DEF TypeOK, Skill
<1>4. PICK t \in Task :
        /\ task' = [task EXCEPT ![p] = t]
        /\ t.at \in {"read", "write"} => t.name \in Names /\ t.content \in Contents
        /\ t.at = "write" => t.revision >= 1 /\ (t.base # None => t.revision = t.base + 1)
        /\ Inside(p, t)
  <2>1. CASE Put(p)
    <3>1. PICK t : t = [task[p] EXCEPT !.at = "read"]
      OBVIOUS
    <3>2. /\ t \in Task /\ t.at = "read" /\ t.scope = task[p].scope /\ Kept(p, t)
      BY <1>1, <3>1 DEF Task, Steps, Kept
    <3>3. task' = [task EXCEPT ![p] = t]
      BY <2>1, <3>1 DEF Put
    <3>4. Inside(p, t)
      BY <2>1, <3>2 DEF Inside, Put, At
    <3>5. QED
      BY <1>2, <3>2, <3>3, <3>4 DEF Kept
  <2>2. CASE FailItem(p) \/ ConcurrentWrite(p)
    <3>1. task' = [task EXCEPT ![p] = Dropped(p)] /\ task[p].at # "row"
      BY <2>2 DEF FailItem, ConcurrentWrite, At
    <3>2. Inside(p, Dropped(p))
      BY <3>1, DroppedTyped DEF Inside
    <3>3. QED
      BY <3>1, <3>2, DroppedTyped
  <2>3. CASE AppendRow(p)
    <3>1. task' = [task EXCEPT ![p] = Counted(p)] /\ task[p].at = "row"
      BY <2>3 DEF AppendRow, At
    <3>2. Inside(p, Counted(p))
      BY <3>1, DroppedTyped DEF Inside, Published
    <3>3. QED
      BY <3>1, <3>2, DroppedTyped
  <2>4. CASE ReadSkill(p) /\ Skill(p).status = "live" /\ Skill(p).content = task[p].content
    <3>1. task' = [task EXCEPT ![p] = Counted(p)] /\ task[p].at = "read"
      BY <2>4 DEF ReadSkill, At
    <3>2. Inside(p, Counted(p))
      BY <2>4, <3>1, DroppedTyped DEF Inside, Published
    <3>3. QED
      BY <3>1, <3>2, DroppedTyped
  <2>5. CASE ReadSkill(p) /\ ~(Skill(p).status = "live" /\ Skill(p).content = task[p].content)
    <3>1. PICK m \in Nat : m = Skill(p).revision
      BY <1>3 DEF SkillRow
    <3>2. PICK base : base = (IF Skill(p).status = "none" THEN None ELSE m)
      OBVIOUS
    <3>3. PICK t : t = [task[p] EXCEPT !.at = "write", !.revision = m + 1, !.base = base]
      OBVIOUS
    <3>4. m + 1 \in Nat /\ base \in Nat \cup {None}
      BY <3>2
    <3>5. /\ t \in Task /\ t.at = "write" /\ t.scope = task[p].scope
          /\ t.revision = m + 1 /\ t.base = base /\ Kept(p, t)
      BY <1>1, <3>3, <3>4 DEF Task, Steps, Kept
    <3>6. task' = [task EXCEPT ![p] = t]
      BY <2>5, <3>1, <3>2, <3>3 DEF ReadSkill
    <3>7. m + 1 >= 1 /\ (base # None => m + 1 = base + 1)
      BY <3>2
    <3>8. t.revision >= 1 /\ (t.base # None => t.revision = t.base + 1)
      BY <3>5, <3>7
    <3>9. Inside(p, t)
      BY <2>5, <3>5 DEF Inside, ReadSkill, At
    <3>10. QED
      BY <1>2, <3>5, <3>6, <3>8, <3>9 DEF Kept
  <2>6. QED
    BY <2>1, <2>2, <2>3, <2>4, <2>5
<1>5. /\ task' \in [Workers -> Task] /\ task'[p] = t
      /\ \A q \in Workers : q # p => task'[q] = task[q]
  BY <1>4, OneTask DEF TypeOK
<1>6. TasksNamed'
  BY <1>4, <1>5 DEF TasksNamed, Publishing, Inside
<1>7. QED
  BY <1>1, <1>4, <1>5, <1>6

(* A document that is written.                                             *)
LEMMA WriteTyped ==
  ASSUME TypeOK, RowsWhole, TasksNamed, NEW p \in Workers, WriteSkill(p)
  PROVE  /\ task' \in [Workers -> Task] /\ TasksNamed'
         /\ \A q \in Workers : q # p => task'[q] = task[q]
         /\ task'[p].at = "row" /\ task'[p].scope = task[p].scope
         /\ task'[p].name = task[p].name /\ task'[p].content = task[p].content
         /\ task'[p].revision = task[p].revision
         /\ task'[p].nextCount = task[p].nextCount
         /\ task'[p].nextBytes = task[p].nextBytes
         /\ skill' \in [Scopes -> [Names -> SkillRow]]
         /\ skill'[task[p].scope][task[p].name].status = "live"
         /\ skill'[task[p].scope][task[p].name].content = task[p].content
         /\ skill'[task[p].scope][task[p].name].revision = task[p].revision
         /\ \A scope \in Scopes, n \in Names :
              scope # task[p].scope \/ n # task[p].name =>
                skill'[scope][n] = skill[scope][n]
         /\ clobbered' \in SUBSET (Scopes \X Names)
<1>1. task[p] \in Task /\ task[p].at = "write"
  BY DEF TypeOK, At, WriteSkill
<1>2. PICK scope \in Scopes, n \in Names, c \in Contents, m \in Nat :
        /\ task[p].scope = scope /\ task[p].name = n /\ task[p].content = c
        /\ task[p].revision = m
  BY <1>1 DEF TasksNamed, Publishing, Task
<1>3. PICK row : row = [Skill(p) EXCEPT !.status = "live", !.content = c,
                                        !.revision = m, !.review = "approved"]
  OBVIOUS
<1>4. /\ row \in SkillRow /\ row.status = "live" /\ row.content = c /\ row.revision = m
  <2>1. Skill(p) \in SkillRow
    BY <1>2 DEF TypeOK, Skill
  <2>2. QED
    BY <1>3, <2>1 DEF SkillRow, Review
<1>5. skill' = [skill EXCEPT ![scope][n] = row]
  BY <1>2, <1>3 DEF WriteSkill, SetSkill
<1>6. /\ skill' \in [Scopes -> [Names -> SkillRow]] /\ skill'[scope][n] = row
      /\ \A s \in Scopes, k \in Names :
           s # scope \/ k # n => skill'[s][k] = skill[s][k]
  BY <1>4, <1>5 DEF TypeOK
<1>7. PICK t : t = [task[p] EXCEPT !.at = "row"]
  OBVIOUS
<1>8. /\ t \in Task /\ t.at = "row" /\ t.scope = scope /\ t.name = n /\ t.content = c
      /\ t.revision = m /\ t.nextCount = task[p].nextCount
      /\ t.nextBytes = task[p].nextBytes
  BY <1>1, <1>2, <1>7 DEF Task, Steps
<1>9. task' = [task EXCEPT ![p] = t]
  BY <1>7 DEF WriteSkill
<1>10. /\ task' \in [Workers -> Task] /\ task'[p] = t
       /\ \A q \in Workers : q # p => task'[q] = task[q]
  BY <1>8, <1>9, OneTask DEF TypeOK
<1>11. TasksNamed'
  BY <1>8, <1>10 DEF TasksNamed, Publishing
<1>12. clobbered' \in SUBSET (Scopes \X Names)
  BY <1>2 DEF WriteSkill, TypeOK
<1>13. QED
  BY <1>2, <1>4, <1>6, <1>8, <1>10, <1>11, <1>12

(* A request that ends, a switch and a reader.                             *)
Other(p) == EndUpload(p) \/ Throws(p) \/ Switch(p) \/ ListPool(p)

(* And so does each other step of a request.                               *)
LEMMA OtherTyped ==
  ASSUME TypeOK, RowsWhole, TasksNamed, NEW p \in Workers, Other(p)
  PROVE  /\ task' \in [Workers -> Task] /\ TasksNamed' /\ off' \in SUBSET (Namespaces \X Names)
         /\ \A q \in Workers : q # p => task'[q] = task[q]
         /\ task'[p].at \in {"idle", "switch", "own", "official", "answer"}
         /\ UNCHANGED <<skill, revisions, stored, crowded, clobbered>>
<1>1. task[p] \in Task /\ off \in SUBSET (Namespaces \X Names)
  BY DEF TypeOK
<1>2. CASE EndUpload(p) \/ Throws(p) \/ SwitchOff(p) \/ AnswerPool(p)
  <2>1. /\ task' = [task EXCEPT ![p] = Idle]
        /\ UNCHANGED <<skill, revisions, stored, crowded, clobbered>>
    BY <1>2 DEF EndUpload, Throws, SwitchOff, AnswerPool, Finish
  <2>2. /\ task' \in [Workers -> Task] /\ task'[p] = Idle
        /\ \A q \in Workers : q # p => task'[q] = task[q]
    BY <2>1, IdleIsTask, OneTask DEF TypeOK
  <2>3. TasksNamed'
    BY <2>2 DEF TasksNamed, Publishing, Idle
  <2>4. off' \in SUBSET (Namespaces \X Names)
    <3>1. CASE SwitchOff(p)
      BY <1>1, <3>1 DEF SwitchOff, TasksNamed, At
    <3>2. CASE EndUpload(p) \/ Throws(p) \/ AnswerPool(p)
      BY <1>1, <3>2 DEF EndUpload, Throws, AnswerPool
    <3>3. QED
      BY <1>2, <3>1, <3>2
  <2>5. task'[p].at = "idle"
    BY <2>2 DEF Idle
  <2>6. QED
    BY <2>1, <2>2, <2>3, <2>4, <2>5
<1>3. CASE StartSwitch(p) \/ ReadHidden(p) \/ ReadOwn(p) \/ ReadOfficial(p)
  <2>1. UNCHANGED <<skill, revisions, off, stored, crowded, clobbered>>
    BY <1>3 DEF StartSwitch, ReadHidden, ReadOwn, ReadOfficial
  <2>2. PICK t \in Task :
          /\ task' = [task EXCEPT ![p] = t]
          /\ t.at = "switch" => t.scope \in Namespaces /\ t.name \in Names
          /\ t.at \in {"switch", "own", "official", "answer"}
    <3>1. CASE StartSwitch(p)
      <4>1. PICK scope \in Namespaces, n \in Names :
              task' = [task EXCEPT ![p] =
                         [Idle EXCEPT !.at = "switch", !.scope = scope, !.name = n]]
        BY <3>1 DEF StartSwitch
      <4>2. PICK t : t = [Idle EXCEPT !.at = "switch", !.scope = scope, !.name = n]
        OBVIOUS
      <4>3. t \in Task /\ t.at = "switch" /\ t.scope = scope /\ t.name = n
        BY <4>2, IdleIsTask DEF Task, Steps, Scopes
      <4>4. QED
        BY <4>1, <4>2, <4>3
    <3>2. CASE ReadHidden(p)
      <4>1. PICK scope \in Namespaces :
              task' = [task EXCEPT ![p] = [Idle EXCEPT !.at = "own", !.scope = scope,
                                      !.hidden = {n \in Names : <<scope, n>> \in off}]]
        BY <3>2 DEF ReadHidden
      <4>2. PICK without : without = {n \in Names : <<scope, n>> \in off}
        OBVIOUS
      <4>3. PICK t : t = [Idle EXCEPT !.at = "own", !.scope = scope, !.hidden = without]
        OBVIOUS
      <4>4. t \in Task /\ t.at = "own"
        BY <4>2, <4>3, IdleIsTask DEF Task, Steps, Scopes
      <4>5. QED
        BY <4>1, <4>2, <4>3, <4>4
    <3>3. CASE ReadOwn(p)
      <4>1. PICK pool \in SUBSET Names : pool = Listed(task[p].scope)
        BY DEF Listed
      <4>2. PICK t : t = [task[p] EXCEPT !.at = "official", !.pool = pool]
        OBVIOUS
      <4>3. t \in Task /\ t.at = "official"
        BY <1>1, <4>2 DEF Task, Steps
      <4>4. task' = [task EXCEPT ![p] = t]
        BY <3>3, <4>1, <4>2 DEF ReadOwn
      <4>5. QED
        BY <4>3, <4>4
    <3>4. CASE ReadOfficial(p)
      <4>1. PICK pool \in SUBSET Names :
              pool = task[p].pool \cup {n \in Listed(Official) : Offered(n, task[p].hidden)}
        BY <1>1 DEF Listed, Task
      <4>2. PICK t : t = [task[p] EXCEPT !.at = "answer", !.pool = pool]
        OBVIOUS
      <4>3. t \in Task /\ t.at = "answer"
        BY <1>1, <4>2 DEF Task, Steps
      <4>4. task' = [task EXCEPT ![p] = t]
        BY <3>4, <4>1, <4>2 DEF ReadOfficial
      <4>5. QED
        BY <4>3, <4>4
    <3>5. QED
      BY <1>3, <3>1, <3>2, <3>3, <3>4
  <2>3. /\ task' \in [Workers -> Task] /\ task'[p] = t
        /\ \A q \in Workers : q # p => task'[q] = task[q]
    BY <2>2, OneTask DEF TypeOK
  <2>4. TasksNamed'
    BY <2>2, <2>3 DEF TasksNamed, Publishing
  <2>5. QED
    BY <1>1, <2>1, <2>2, <2>3, <2>4
<1>4. QED
  BY <1>2, <1>3 DEF Other, Switch, ListPool

(* An operator changes flags, a review or the status of one skill there is, never its
   content or its revision; and no skill comes to life.                    *)
LEMMA OperateTyped ==
  ASSUME TypeOK, Operate
  PROVE  \E s \in Scopes, n \in Names :
           /\ skill' \in [Scopes -> [Names -> SkillRow]]
           /\ skill[s][n].status # "none"
           /\ skill'[s][n].status \in {skill[s][n].status, "deleted"}
           /\ skill'[s][n].content = skill[s][n].content
           /\ skill'[s][n].revision = skill[s][n].revision
           /\ \A scope \in Scopes, m \in Names :
                scope # s \/ m # n => skill'[scope][m] = skill[scope][m]
           /\ UNCHANGED <<revisions, off, stored, task, crowded, clobbered>>
<1>1. PICK s \in Scopes, n \in Names, row \in SkillRow :
        /\ skill' = [skill EXCEPT ![s][n] = row]
        /\ skill[s][n].status # "none"
        /\ row.status \in {skill[s][n].status, "deleted"}
        /\ row.content = skill[s][n].content /\ row.revision = skill[s][n].revision
        /\ UNCHANGED <<revisions, off, stored, task, crowded, clobbered>>
  <2>1. CASE SetOfficialFlags
    <3>1. PICK n \in Names, enabled \in BOOLEAN, required \in BOOLEAN :
            /\ skill[Official][n].status # "none"
            /\ skill' = [skill EXCEPT ![Official][n] =
                 [skill[Official][n] EXCEPT !.enabled = enabled, !.required = required]]
            /\ UNCHANGED <<revisions, off, stored, task, crowded, clobbered>>
      BY <2>1 DEF SetOfficialFlags, SetSkill
    <3>2. Official \in Scopes /\ skill[Official][n] \in SkillRow
      BY DEF TypeOK, Scopes
    <3>3. PICK row : row = [skill[Official][n] EXCEPT !.enabled = enabled, !.required = required]
      OBVIOUS
    <3>4. /\ row \in SkillRow /\ row.status = skill[Official][n].status
          /\ row.content = skill[Official][n].content
          /\ row.revision = skill[Official][n].revision
      BY <3>2, <3>3 DEF SkillRow
    <3>5. QED
      BY <3>1, <3>2, <3>3, <3>4
  <2>2. CASE SetReviewStatus
    <3>1. PICK s \in Scopes, n \in Names, review \in Review :
            /\ skill[s][n].status = "live"
            /\ skill' = [skill EXCEPT ![s][n] = [skill[s][n] EXCEPT !.review = review]]
            /\ UNCHANGED <<revisions, off, stored, task, crowded, clobbered>>
      BY <2>2 DEF SetReviewStatus, SetSkill
    <3>2. skill[s][n] \in SkillRow
      BY DEF TypeOK
    <3>3. PICK row : row = [skill[s][n] EXCEPT !.review = review]
      OBVIOUS
    <3>4. /\ row \in SkillRow /\ row.status = skill[s][n].status
          /\ row.content = skill[s][n].content /\ row.revision = skill[s][n].revision
      BY <3>2, <3>3 DEF SkillRow
    <3>5. QED
      BY <3>1, <3>3, <3>4
  <2>3. CASE MarkDeleted
    <3>1. PICK s \in Scopes, n \in Names :
            /\ skill[s][n].status # "none"
            /\ skill' = [skill EXCEPT ![s][n] = [skill[s][n] EXCEPT !.status = "deleted"]]
            /\ UNCHANGED <<revisions, off, stored, task, crowded, clobbered>>
      BY <2>3 DEF MarkDeleted, SetSkill
    <3>2. skill[s][n] \in SkillRow
      BY DEF TypeOK
    <3>3. PICK row : row = [skill[s][n] EXCEPT !.status = "deleted"]
      OBVIOUS
    <3>4. /\ row \in SkillRow /\ row.status = "deleted"
          /\ row.content = skill[s][n].content /\ row.revision = skill[s][n].revision
      BY <3>2, <3>3 DEF SkillRow
    <3>5. QED
      BY <3>1, <3>3, <3>4
  <2>4. QED
    BY <2>1, <2>2, <2>3 DEF Operate
<1>2. /\ skill' \in [Scopes -> [Names -> SkillRow]] /\ skill'[s][n] = row
      /\ \A scope \in Scopes, m \in Names :
           scope # s \/ m # n => skill'[scope][m] = skill[scope][m]
  BY <1>1 DEF TypeOK
<1>3. QED
  BY <1>1, <1>2

(* A step of a request that writes no document.                            *)
Quiet(p) ==
  \/ StartUpload(p) \/ FindItem(p) \/ RefuseItem(p) \/ Put(p) \/ FailItem(p) \/ ReadSkill(p)
  \/ ConcurrentWrite(p) \/ AppendRow(p) \/ Other(p)

(* The next state is one of a quiet step, of a written document, of a namespace that
   switches a skill on, or of an operator's.                               *)
LEMMA StepsAre ==
  ASSUME Next
  PROVE  \/ \E p \in Workers : Quiet(p) \/ WriteSkill(p)
         \/ SwitchOn \/ Operate
BY DEF Next, Upload, Quiet, Other

(* And so does each step that publishes nothing.                           *)
LEMMA QuietTyped ==
  ASSUME TypeOK, RowsWhole, TasksNamed, NEW p \in Workers, Quiet(p)
  PROVE  /\ TypeOK' /\ RowsWhole' /\ TasksNamed'
         /\ skill' = skill /\ clobbered' = clobbered
         /\ stored \subseteq stored' /\ crowded \subseteq crowded'
         /\ \A q \in Workers : q # p => task'[q] = task[q]
<1>1. skill' = skill /\ clobbered' = clobbered
  <2>1. CASE Other(p)
    BY <2>1, OtherTyped
  <2>2. CASE ~Other(p)
    BY <2>2 DEF Quiet, StartUpload, FindItem, RefuseItem, Put, FailItem, ReadSkill,
         ConcurrentWrite, AppendRow
  <2>3. QED
    BY <2>1, <2>2
<1>2. /\ task' \in [Workers -> Task] /\ TasksNamed'
      /\ \A q \in Workers : q # p => task'[q] = task[q]
      /\ off' \in SUBSET (Namespaces \X Names)
      /\ crowded' \in SUBSET Scopes /\ crowded \subseteq crowded'
  <2>1. off \in SUBSET (Namespaces \X Names) /\ crowded \in SUBSET Scopes
    BY DEF TypeOK
  <2>2. CASE StartUpload(p)
    BY <2>1, <2>2, StartTyped DEF StartUpload
  <2>3. CASE FindItem(p) \/ RefuseItem(p)
    BY <2>1, <2>3, FindTyped DEF FindItem, RefuseItem
  <2>4. CASE Put(p) \/ FailItem(p) \/ ReadSkill(p) \/ ConcurrentWrite(p) \/ AppendRow(p)
    <3>1. off' = off /\ crowded' = crowded
      BY <2>4 DEF Put, FailItem, ReadSkill, ConcurrentWrite, AppendRow
    <3>2. QED
      BY <2>1, <2>4, <3>1, PublishTyped
  <2>5. CASE Other(p)
    BY <2>1, <2>5, OtherTyped
  <2>6. QED
    BY <2>2, <2>3, <2>4, <2>5 DEF Quiet
<1>3. stored' \in SUBSET Package /\ stored \subseteq stored'
  <2>1. stored \in SUBSET Package /\ task[p] \in Task
    BY DEF TypeOK
  <2>2. CASE Put(p)
    <3>1. task[p].scope \in Scopes /\ task[p].name \in Names /\ task[p].content \in Contents
      BY <2>1, <2>2 DEF Put, At, TasksNamed, Publishing, Task
    <3>2. Held(p) \in Package
      BY <3>1 DEF Held, Package
    <3>3. stored' = stored \cup {Held(p)}
      BY <2>2 DEF Put, Held
    <3>4. QED
      BY <2>1, <3>2, <3>3
  <2>3. CASE ~Put(p) /\ ~Other(p)
    BY <2>1, <2>3 DEF Quiet, StartUpload, FindItem, RefuseItem, FailItem, ReadSkill,
         ConcurrentWrite, AppendRow
  <2>4. CASE Other(p)
    BY <2>1, <2>4, OtherTyped
  <2>5. QED
    BY <2>2, <2>3, <2>4
<1>4. revisions' \in SUBSET RevisionRow
  <2>1. revisions \in SUBSET RevisionRow /\ task[p] \in Task
    BY DEF TypeOK
  <2>2. CASE AppendRow(p)
    <3>1. /\ task[p].scope \in Scopes /\ task[p].name \in Names
          /\ task[p].content \in Contents /\ task[p].revision \in Nat
      BY <2>1, <2>2 DEF AppendRow, At, TasksNamed, Publishing, Task
    <3>2. RowOf(p) \in RevisionRow
      BY <3>1 DEF RowOf, RevisionRow
    <3>3. revisions' = revisions \cup {RowOf(p)}
      BY <2>2 DEF AppendRow, RowOf
    <3>4. QED
      BY <2>1, <3>2, <3>3
  <2>3. CASE ~AppendRow(p) /\ ~Other(p)
    BY <2>1, <2>3 DEF Quiet, StartUpload, FindItem, RefuseItem, Put, FailItem, ReadSkill,
         ConcurrentWrite
  <2>4. CASE Other(p)
    BY <2>1, <2>4, OtherTyped
  <2>5. QED
    BY <2>2, <2>3, <2>4
<1>5. RowsWhole'
  BY <1>1 DEF RowsWhole
<1>6. TypeOK'
  BY <1>1, <1>2, <1>3, <1>4 DEF TypeOK
<1>7. QED
  BY <1>1, <1>2, <1>3, <1>5, <1>6

(* Every step keeps the types and the rows whole.                          *)
LEMMA TypesKept ==
  ASSUME TypeOK, RowsWhole, TasksNamed, [Next]_vars
  PROVE  TypeOK' /\ RowsWhole' /\ TasksNamed'
<1>1. ASSUME NEW p \in Workers, Quiet(p) PROVE TypeOK' /\ RowsWhole' /\ TasksNamed'
  BY <1>1, QuietTyped
<1>2. ASSUME NEW p \in Workers, WriteSkill(p) PROVE TypeOK' /\ RowsWhole' /\ TasksNamed'
  <2>1. UNCHANGED <<revisions, off, stored, crowded>>
    BY <1>2 DEF WriteSkill
  <2>2. TypeOK' /\ TasksNamed'
    BY <1>2, <2>1, WriteTyped DEF TypeOK
  <2>3. task[p].content \in Contents
    BY <1>2 DEF WriteSkill, At, TasksNamed, Publishing
  <2>4. RowsWhole'
    <3> SUFFICES ASSUME NEW s \in Scopes, NEW n \in Names
                 PROVE  IF skill'[s][n].status = "none" THEN skill'[s][n].revision = 0
                        ELSE skill'[s][n].content \in Contents
      BY DEF RowsWhole
    <3>1. CASE s = task[p].scope /\ n = task[p].name
      BY <1>2, <2>3, <3>1, WriteTyped
    <3>2. CASE ~(s = task[p].scope /\ n = task[p].name)
      <4>1. skill'[s][n] = skill[s][n]
        BY <1>2, <3>2, WriteTyped
      <4>2. QED
        BY <4>1 DEF RowsWhole
    <3>3. QED
      BY <3>1, <3>2
  <2>5. QED
    BY <2>2, <2>4
<1>3. CASE SwitchOn \/ Operate
  <2>1. CASE SwitchOn
    <3>1. UNCHANGED <<skill, revisions, stored, task, crowded, clobbered>> /\ off' \subseteq off
      BY <2>1 DEF SwitchOn
    <3>2. QED
      BY <3>1 DEF TypeOK, RowsWhole, TasksNamed
  <2>2. CASE Operate
    <3>1. PICK s \in Scopes, n \in Names :
           /\ skill' \in [Scopes -> [Names -> SkillRow]]
           /\ skill[s][n].status # "none"
           /\ skill'[s][n].status \in {skill[s][n].status, "deleted"}
           /\ skill'[s][n].content = skill[s][n].content
           /\ \A scope \in Scopes, m \in Names :
                scope # s \/ m # n => skill'[scope][m] = skill[scope][m]
           /\ UNCHANGED <<revisions, off, stored, task, crowded, clobbered>>
      BY <2>2, OperateTyped
    <3>2. TypeOK' /\ TasksNamed'
      BY <3>1 DEF TypeOK, TasksNamed
    <3>3. skill'[s][n].status # "none" /\ skill'[s][n].content \in Contents
      BY <3>1 DEF RowsWhole
    <3>4. ASSUME NEW scope \in Scopes, NEW m \in Names, ~(scope = s /\ m = n)
          PROVE  IF skill'[scope][m].status = "none" THEN skill'[scope][m].revision = 0
                 ELSE skill'[scope][m].content \in Contents
      <4>1. skill'[scope][m] = skill[scope][m]
        BY <3>1, <3>4
      <4>2. QED
        BY <4>1 DEF RowsWhole
    <3>5. RowsWhole'
      BY <3>3, <3>4 DEF RowsWhole
    <3>6. QED
      BY <3>2, <3>5
  <2>3. QED
    BY <1>3, <2>1, <2>2
<1>4. CASE UNCHANGED vars
  BY <1>4 DEF vars, TypeOK, RowsWhole, TasksNamed
<1>5. QED
  BY <1>1, <1>2, <1>3, <1>4, StepsAre

-----------------------------------------------------------------------------
(* The history.                                                            *)

(* What a quiet step leaves of the item its request is at: no row is outstanding that
   was not, one that is appended was, and what is read for was put.        *)
LEMMA QuietPublishes ==
  ASSUME TypeOK, RowsWhole, TasksNamed, NEW p \in Workers, Quiet(p)
  PROVE  /\ task'[p].at # "row"
         /\ task'[p].at \in {"read", "write"} =>
              Held(p)' = Held(p) /\ (Held(p) \in stored' \/ task[p].at = "read")
         /\ revisions' = revisions \/
              (task[p].at = "row" /\ revisions' = revisions \cup {RowOf(p)})
<1>1. CASE StartUpload(p)
  BY <1>1, StartTyped DEF StartUpload
<1>2. CASE FindItem(p) \/ RefuseItem(p)
  BY <1>2, FindTyped DEF FindItem, RefuseItem
<1>3. CASE Put(p)
  <2>1. revisions' = revisions /\ Held(p) \in stored'
    BY <1>3 DEF Put, Held
  <2>2. QED
    BY <1>3, <2>1, PublishTyped DEF Held, Inside, Kept
<1>4. CASE FailItem(p) \/ ReadSkill(p) \/ ConcurrentWrite(p)
  <2>1. revisions' = revisions /\ task[p].at # "row"
    BY <1>4 DEF FailItem, ReadSkill, ConcurrentWrite, At
  <2>2. FailItem(p) \/ (Inside(p, task'[p]) /\ task[p].at # "put")
    BY <1>4, PublishTyped DEF ReadSkill, ConcurrentWrite, At
  <2>3. CASE FailItem(p)
    BY <2>1, <2>3, PublishTyped, DroppedTyped DEF TypeOK, FailItem
  <2>4. CASE ~FailItem(p)
    BY <2>1, <2>2, <2>4 DEF Held, Inside, Kept
  <2>5. QED
    BY <2>3, <2>4
<1>5. CASE AppendRow(p)
  <2>1. task[p].at = "row" /\ revisions' = revisions \cup {RowOf(p)}
    BY <1>5 DEF AppendRow, At, RowOf
  <2>2. Inside(p, task'[p])
    BY <1>5, PublishTyped
  <2>3. QED
    BY <2>1, <2>2 DEF Inside
<1>6. CASE Other(p)
  BY <1>6, OtherTyped
<1>7. QED
  BY <1>1, <1>2, <1>3, <1>4, <1>5, <1>6 DEF Quiet

(* Packages stay.                                                          *)
LEMMA PackagesStay ==
  ASSUME TypeOK, RowsWhole, TasksNamed, PackagesKept, [Next]_vars
  PROVE  PackagesKept'
<1>1. ASSUME NEW p \in Workers, Quiet(p) PROVE PackagesKept'
  <2>1. /\ skill' = skill /\ stored \subseteq stored'
        /\ \A q \in Workers : q # p => task'[q] = task[q]
    BY <1>1, QuietTyped
  <2>2. ASSUME NEW q \in Workers, task'[q].at \in {"read", "write", "row"}
        PROVE  Held(q)' \in stored'
    <3>1. CASE q = p
      BY <1>1, <2>1, <2>2, <3>1, QuietPublishes DEF PackagesKept
    <3>2. CASE q # p
      <4>1. Held(q)' = Held(q) /\ task[q].at \in {"read", "write", "row"}
        BY <2>1, <2>2, <3>2 DEF Held
      <4>2. QED
        BY <2>1, <4>1 DEF PackagesKept
    <3>3. QED
      BY <3>1, <3>2
  <2>3. ASSUME NEW r \in revisions'
        PROVE  [scope |-> r.scope, name |-> r.name, content |-> r.content] \in stored'
    <3>1. CASE r \in revisions
      BY <2>1, <3>1 DEF PackagesKept
    <3>2. CASE r = RowOf(p) /\ task[p].at = "row"
      <4>1. [scope |-> r.scope, name |-> r.name, content |-> r.content] = Held(p)
        BY <3>2 DEF RowOf, Held
      <4>2. QED
        BY <2>1, <3>2, <4>1 DEF PackagesKept
    <3>3. QED
      BY <1>1, <3>1, <3>2, QuietPublishes
  <2>4. ASSUME NEW scope \in Scopes, NEW n \in Names, skill'[scope][n].status # "none"
        PROVE  [scope |-> scope, name |-> n, content |-> skill'[scope][n].content] \in stored'
    BY <2>1, <2>4 DEF PackagesKept
  <2>5. QED
    BY <2>2, <2>3, <2>4 DEF PackagesKept
<1>2. ASSUME NEW p \in Workers, WriteSkill(p) PROVE PackagesKept'
  <2>1. /\ revisions' = revisions /\ stored' = stored
        /\ \A q \in Workers : q # p => task'[q] = task[q]
    BY <1>2, WriteTyped DEF WriteSkill
  <2>2. Held(p)' = Held(p) /\ Held(p) \in stored
    BY <1>2, WriteTyped DEF Held, PackagesKept, WriteSkill, At
  <2>3. ASSUME NEW q \in Workers, task'[q].at \in {"read", "write", "row"}
        PROVE  Held(q)' \in stored'
    <3>1. CASE q = p
      BY <2>1, <2>2, <3>1
    <3>2. CASE q # p
      <4>1. Held(q)' = Held(q) /\ task[q].at \in {"read", "write", "row"}
        BY <2>1, <2>3, <3>2 DEF Held
      <4>2. QED
        BY <2>1, <4>1 DEF PackagesKept
    <3>3. QED
      BY <3>1, <3>2
  <2>4. ASSUME NEW scope \in Scopes, NEW n \in Names, skill'[scope][n].status # "none"
        PROVE  [scope |-> scope, name |-> n, content |-> skill'[scope][n].content] \in stored'
    <3>1. CASE scope = task[p].scope /\ n = task[p].name
      <4>1. [scope |-> scope, name |-> n, content |-> skill'[scope][n].content] = Held(p)
        BY <1>2, <3>1, WriteTyped DEF Held
      <4>2. QED
        BY <2>1, <2>2, <4>1
    <3>2. CASE ~(scope = task[p].scope /\ n = task[p].name)
      <4>1. skill'[scope][n] = skill[scope][n]
        BY <1>2, <3>2, WriteTyped
      <4>2. QED
        BY <2>1, <2>4, <4>1 DEF PackagesKept
    <3>3. QED
      BY <3>1, <3>2
  <2>5. QED
    BY <2>1, <2>3, <2>4 DEF PackagesKept
<1>3. CASE Operate
  <2>1. PICK s \in Scopes, n \in Names :
           /\ skill[s][n].status # "none"
           /\ skill'[s][n].content = skill[s][n].content
           /\ \A scope \in Scopes, m \in Names :
                scope # s \/ m # n => skill'[scope][m] = skill[scope][m]
           /\ UNCHANGED <<revisions, off, stored, task, crowded, clobbered>>
    BY <1>3, OperateTyped
  <2>2. ASSUME NEW scope \in Scopes, NEW m \in Names, skill'[scope][m].status # "none"
        PROVE  [scope |-> scope, name |-> m, content |-> skill'[scope][m].content] \in stored'
    <3>1. /\ skill[scope][m].status # "none"
          /\ skill'[scope][m].content = skill[scope][m].content
      <4>1. CASE scope = s /\ m = n
        BY <2>1, <4>1
      <4>2. CASE ~(scope = s /\ m = n)
        BY <2>1, <2>2, <4>2
      <4>3. QED
        BY <4>1, <4>2
    <3>2. QED
      BY <2>1, <3>1 DEF PackagesKept
  <2>3. QED
    BY <2>1, <2>2 DEF PackagesKept, Held
<1>4. CASE SwitchOn \/ UNCHANGED vars
  BY <1>4 DEF SwitchOn, vars, PackagesKept, Held
<1>5. QED
  BY <1>1, <1>2, <1>3, <1>4, StepsAre

(* Rows that are told are rows of the history.                             *)
LEMMA ToldTyped ==
  ASSUME TypeOK, TasksNamed
  PROVE  Told \subseteq RevisionRow
<1>1. ASSUME NEW p \in Workers, task[p].at = "row" PROVE RowOf(p) \in RevisionRow
  <2>1. task[p] \in Task
    BY DEF TypeOK
  <2>2. /\ task[p].scope \in Scopes /\ task[p].name \in Names
        /\ task[p].content \in Contents /\ task[p].revision \in Nat
    BY <1>1, <2>1 DEF TasksNamed, Publishing, Task
  <2>3. QED
    BY <2>2 DEF RowOf, RevisionRow
<1>2. revisions \subseteq RevisionRow
  BY DEF TypeOK
<1>3. QED
  BY <1>1, <1>2 DEF Told

(* A step that tells no more, and leaves contents and revisions, keeps the history
   from contradicting itself.                                              *)
LEMMA ToldNoMore ==
  ASSUME TypeOK, TasksNamed, ToldOnce,
         Told' \subseteq Told, clobbered' = clobbered,
         \A scope \in Scopes, n \in Names :
           /\ skill'[scope][n].content = skill[scope][n].content
           /\ skill'[scope][n].revision = skill[scope][n].revision
  PROVE  ToldOnce'
<1>1. Told' \subseteq RevisionRow
  BY ToldTyped
<1>2. \A r \in Told' : r.scope \in Scopes /\ r.name \in Names
  BY <1>1 DEF RevisionRow
<1>3. QED
  BY <1>2 DEF ToldOnce

(* A quiet step tells no more.                                             *)
LEMMA QuietTells ==
  ASSUME TypeOK, RowsWhole, TasksNamed, NEW p \in Workers, Quiet(p)
  PROVE  Told' \subseteq Told
<1>1. /\ \A q \in Workers : q # p => task'[q] = task[q]
      /\ task'[p].at # "row"
      /\ revisions' = revisions \/
              (task[p].at = "row" /\ revisions' = revisions \cup {RowOf(p)})
  BY QuietTyped, QuietPublishes
<1>2. ASSUME NEW q \in Workers, task'[q].at = "row" PROVE RowOf(q)' \in Told
  <2>1. q # p
    BY <1>1, <1>2
  <2>2. task'[q] = task[q]
    BY <1>1, <2>1
  <2>3. RowOf(q)' = RowOf(q) /\ task[q].at = "row"
    BY <1>2, <2>2 DEF RowOf
  <2>4. QED
    BY <2>3 DEF Told
<1>3. revisions' \subseteq Told
  BY <1>1 DEF Told
<1>4. QED
  BY <1>2, <1>3 DEF Told

(* A written document has a revision above all that is told of its skill, unless it was
   written over one that its upload had found missing.                     *)
LEMMA WriteTellsNew ==
  ASSUME TypeOK, RowsWhole, TasksNamed, ToldOnce, NEW p \in Workers, WriteSkill(p)
  PROVE  ToldOnce'
<1> DEFINE scope == task[p].scope
           n == task[p].name
           new == RowOf(p)
<1>1. /\ task[p] \in Task /\ task[p].at = "write" /\ Unchanged(p)
      /\ revisions' = revisions
  BY DEF TypeOK, WriteSkill, At
<1>2. /\ scope \in Scopes /\ n \in Names /\ task[p].revision \in Nat
      /\ task[p].base \in Nat \cup {None} /\ task[p].revision >= 1
      /\ task[p].base # None => task[p].revision = task[p].base + 1
  BY <1>1 DEF TasksNamed, Publishing, Task
<1>3. Told' = Told \cup {new}
  <2>1. /\ \A q \in Workers : q # p => task'[q] = task[q]
        /\ task'[p].at = "row" /\ task[p].at # "row"
    BY <1>1, WriteTyped
  <2>2. RowOf(p)' = new
    BY WriteTyped DEF RowOf
  <2>3. \A q \in Workers : q # p => RowOf(q)' = RowOf(q) /\ task'[q].at = task[q].at
    BY <2>1 DEF RowOf
  <2>4. {RowOf(q)' : q \in {r \in Workers : task'[r].at = "row"}} =
          {RowOf(q) : q \in {r \in Workers : task[r].at = "row"}} \cup {new}
    BY <2>1, <2>2, <2>3
  <2>5. QED
    BY <1>1, <2>4 DEF Told
<1>4. /\ skill'[scope][n].content = task[p].content
      /\ skill'[scope][n].revision = task[p].revision
      /\ \A s \in Scopes, m \in Names : s # scope \/ m # n => skill'[s][m] = skill[s][m]
  BY WriteTyped
<1>5. clobbered \subseteq clobbered'
  BY DEF WriteSkill
<1>6. Told \subseteq RevisionRow
  BY ToldTyped
<1>7. ASSUME <<scope, n>> \notin clobbered', NEW r \in Told, r.scope = scope, r.name = n
      PROVE  r.revision < task[p].revision
  <2>1. r.revision \in Nat /\ skill[scope][n].revision \in Nat
    <3>1. skill[scope][n] \in SkillRow
      BY <1>2 DEF TypeOK
    <3>2. QED
      BY <1>6, <3>1 DEF RevisionRow, SkillRow
  <2>2. skill[scope][n].revision >= r.revision
    BY <1>5, <1>7 DEF ToldOnce
  <2>3. CASE task[p].base = None
    <3>1. skill[scope][n].status = "none"
      BY <1>7, <2>3 DEF WriteSkill, Skill
    <3>2. skill[scope][n].revision = 0
      BY <1>2, <3>1 DEF RowsWhole
    <3>3. QED
      BY <1>2, <2>1, <2>2, <3>2
  <2>4. CASE task[p].base # None
    <3>1. skill[scope][n].revision = task[p].base
      BY <1>1, <2>4 DEF Unchanged, Skill
    <3>2. QED
      BY <1>2, <2>1, <2>2, <2>4, <3>1
  <2>5. QED
    BY <2>3, <2>4
<1>8. SUFFICES ASSUME NEW r \in Told', <<r.scope, r.name>> \notin clobbered'
               PROVE  /\ \A s \in Told' : s.scope = r.scope /\ s.name = r.name
                                             /\ s.revision = r.revision => s = r
                      /\ skill'[r.scope][r.name].revision = r.revision =>
                           skill'[r.scope][r.name].content = r.content
                      /\ skill'[r.scope][r.name].revision >= r.revision
  BY DEF ToldOnce
<1>9. new.scope = scope /\ new.name = n /\ new.revision = task[p].revision
        /\ new.content = task[p].content
  BY DEF RowOf
<1> HIDE DEF new
<1>10. CASE r.scope = scope /\ r.name = n
  <2>1. \A s \in Told : s.scope = scope /\ s.name = n =>
          s.revision < task[p].revision /\ s.revision \in Nat
    BY <1>6, <1>7, <1>8, <1>10 DEF RevisionRow
  <2>2. CASE r = new
    <3>1. \A s \in Told' : s.scope = r.scope /\ s.name = r.name
                             /\ s.revision = r.revision => s = r
      BY <1>2, <1>3, <1>9, <2>1, <2>2
    <3>2. QED
      BY <1>2, <1>4, <1>9, <2>2, <3>1
  <2>3. CASE r # new
    <3>1. r \in Told /\ r.revision < task[p].revision /\ r.revision \in Nat
      BY <1>3, <1>8, <1>10, <2>1, <2>3
    <3>2. \A s \in Told : s.scope = r.scope /\ s.name = r.name
                            /\ s.revision = r.revision => s = r
      BY <1>5, <1>8, <3>1 DEF ToldOnce
    <3>3. \A s \in Told' : s.scope = r.scope /\ s.name = r.name
                             /\ s.revision = r.revision => s = r
      BY <1>2, <1>3, <1>9, <3>1, <3>2
    <3>4. QED
      BY <1>2, <1>4, <1>10, <3>1, <3>3
  <2>4. QED
    BY <2>2, <2>3
<1>11. CASE ~(r.scope = scope /\ r.name = n)
  <2>1. r \in Told
    BY <1>3, <1>8, <1>9, <1>11
  <2>2. r.scope \in Scopes /\ r.name \in Names
    BY <1>6, <2>1 DEF RevisionRow
  <2>3. skill'[r.scope][r.name] = skill[r.scope][r.name]
    BY <1>4, <1>11, <2>2
  <2>4. /\ \A s \in Told : s.scope = r.scope /\ s.name = r.name
                            /\ s.revision = r.revision => s = r
        /\ skill[r.scope][r.name].revision = r.revision =>
             skill[r.scope][r.name].content = r.content
        /\ skill[r.scope][r.name].revision >= r.revision
    BY <1>5, <1>8, <2>1 DEF ToldOnce
  <2>5. \A s \in Told' : s.scope = r.scope /\ s.name = r.name
                           /\ s.revision = r.revision => s = r
    BY <1>3, <1>9, <1>11, <2>4
  <2>6. QED
    BY <2>3, <2>4, <2>5
<1>12. QED
  BY <1>10, <1>11

(* The history never contradicts itself.                                   *)
LEMMA ToldStays ==
  ASSUME TypeOK, RowsWhole, TasksNamed, ToldOnce, [Next]_vars
  PROVE  ToldOnce'
<1>1. ASSUME NEW p \in Workers, Quiet(p) PROVE ToldOnce'
  BY <1>1, QuietTyped, QuietTells, ToldNoMore
<1>2. ASSUME NEW p \in Workers, WriteSkill(p) PROVE ToldOnce'
  BY <1>2, WriteTellsNew
<1>3. CASE Operate
  <2>1. PICK s \in Scopes, n \in Names :
           /\ skill'[s][n].content = skill[s][n].content
           /\ skill'[s][n].revision = skill[s][n].revision
           /\ \A scope \in Scopes, m \in Names :
                scope # s \/ m # n => skill'[scope][m] = skill[scope][m]
           /\ UNCHANGED <<revisions, off, stored, task, crowded, clobbered>>
    BY <1>3, OperateTyped
  <2>2. \A scope \in Scopes, m \in Names :
           /\ skill'[scope][m].content = skill[scope][m].content
           /\ skill'[scope][m].revision = skill[scope][m].revision
    BY <2>1
  <2>3. Told' = Told
    BY <2>1 DEF Told, RowOf
  <2>4. QED
    BY <2>1, <2>2, <2>3, ToldNoMore
<1>4. CASE SwitchOn \/ UNCHANGED vars
  <2>1. UNCHANGED <<skill, revisions, task, clobbered>>
    BY <1>4 DEF SwitchOn, vars
  <2>2. QED
    BY <2>1 DEF ToldOnce, Told, RowOf
<1>5. QED
  BY <1>1, <1>2, <1>3, <1>4, StepsAre

-----------------------------------------------------------------------------
(* The quota.                                                              *)

(* What one upload counted still covers a scope in which there is no more. *)
LessUsage(scope) ==
  /\ Live(scope)' \subseteq Live(scope)
  /\ \A n \in Names : skill'[scope][n].content = skill[scope][n].content

(* A scope whose documents are no more and no other than before uses no more. *)
LEMMA LessUsed ==
  ASSUME RowsWhole, NEW scope \in Scopes, LessUsage(scope)
  PROVE  /\ Cardinality(Live(scope)') <= Cardinality(Live(scope))
         /\ Bytes(scope)' <= Bytes(scope)
         /\ \A n \in Names :
              /\ Others(scope, n)' <= Others(scope, n)
              /\ Cardinality((Live(scope) \cup {n})') <= Cardinality(Live(scope) \cup {n})
<1>1. Sound(skill[scope]) /\ LiveOf(skill'[scope]) \subseteq LiveOf(skill[scope])
  BY RowsSound, UsageIsOfRows DEF LessUsage
<1>2. \A n \in Names : skill'[scope][n].content = skill[scope][n].content
  BY DEF LessUsage
<1>3. QED
  BY <1>1, <1>2, UsageOfLess, UsageIsOfRows

(* The numbers of a scope are naturals, before a step and after it.        *)
LEMMA UsageNumbers ==
  ASSUME RowsWhole, RowsWhole', NEW scope \in Scopes
  PROVE  /\ Cardinality(Live(scope)) \in Nat /\ Bytes(scope) \in Nat
         /\ Cardinality(Live(scope)') \in Nat /\ Bytes(scope)' \in Nat
         /\ \A n \in Names :
              /\ Others(scope, n) \in Nat /\ Cardinality(Live(scope) \cup {n}) \in Nat
              /\ Others(scope, n)' \in Nat
              /\ Cardinality((Live(scope) \cup {n})') \in Nat
<1>1. Sound(skill[scope]) /\ Sound(skill'[scope])
  BY DEF RowsWhole, Sound
<1>2. QED
  BY <1>1, UsageIsNat, UsageIsOfRows

(* What a scope has without one of its skills, and with it.                *)
LEMMA UsageSplit ==
  ASSUME RowsWhole, NEW scope \in Scopes, NEW n \in Names
  PROVE  /\ n \in Live(scope) =>
              /\ Bytes(scope) = Others(scope, n) + Size[skill[scope][n].content]
              /\ Live(scope) \cup {n} = Live(scope)
              /\ skill[scope][n].content \in Contents
         /\ n \notin Live(scope) =>
              /\ Bytes(scope) = Others(scope, n)
              /\ Cardinality(Live(scope) \cup {n}) = Cardinality(Live(scope)) + 1
<1>1. PICK rows : rows = skill[scope]
  OBVIOUS
<1>2. Sound(rows)
  BY <1>1, RowsSound
<1>3. /\ Live(scope) = LiveOf(rows) /\ Bytes(scope) = BytesOf(rows)
      /\ Others(scope, n) = OthersOf(rows, n)
  BY <1>1, UsageIsOfRows
<1>4. n \in LiveOf(rows) => rows[n].content \in Contents
  BY <1>2 DEF LiveOf, Sound
<1>5. QED
  BY <1>1, <1>2, <1>3, <1>4, UsageOfOthers

(* An upload that a step leaves alone has counted what is left.            *)
LEMMA CountingStays ==
  ASSUME TypeOK, RowsWhole, TasksNamed, RowsWhole',
         NEW q \in Workers, task'[q] = task[q], LessUsage(task[q].scope), Counting(q)
  PROVE  Counting(q)'
<1> DEFINE scope == task[q].scope
           n == task[q].name
<1>1. task[q] \in Task
  BY DEF TypeOK
<1>2. /\ scope \in Scopes
      /\ task[q].count \in Int /\ task[q].bytes \in Int
      /\ task[q].nextCount \in Int /\ task[q].nextBytes \in Int
  BY <1>1 DEF Task
<1>3. /\ Cardinality(Live(scope)') <= Cardinality(Live(scope))
      /\ Bytes(scope)' <= Bytes(scope)
      /\ Cardinality(Live(scope)) \in Nat /\ Bytes(scope) \in Nat
      /\ Cardinality(Live(scope)') \in Nat /\ Bytes(scope)' \in Nat
  BY <1>2, LessUsed, UsageNumbers
<1>4. n \in Names =>
        /\ Others(scope, n)' <= Others(scope, n)
        /\ Cardinality((Live(scope) \cup {n})') <= Cardinality(Live(scope) \cup {n})
        /\ Others(scope, n) \in Nat /\ Cardinality(Live(scope) \cup {n}) \in Nat
        /\ Others(scope, n)' \in Nat /\ Cardinality((Live(scope) \cup {n})') \in Nat
  BY <1>2, LessUsed, UsageNumbers
<1>5. task[q].at \in Publishing => n \in Names /\ Size[task[q].content] \in Nat
  BY SkillHubAssumption DEF TasksNamed
<1>6. (task'[q].at # "row" => /\ Cardinality(Live(scope)') <= task[q].count
                              /\ Bytes(scope)' <= task[q].bytes)
  BY <1>2, <1>3 DEF Counting
<1>7. task'[q].at \in Publishing \ {"row"} =>
        /\ Cardinality((Live(scope) \cup {n})') <= task[q].nextCount
        /\ Others(scope, n)' + Size[task[q].content] <= task[q].nextBytes
  <2> SUFFICES ASSUME task[q].at \in Publishing \ {"row"}
               PROVE  /\ Cardinality((Live(scope) \cup {n})') <= task[q].nextCount
                      /\ Others(scope, n)' + Size[task[q].content] <= task[q].nextBytes
    OBVIOUS
  <2>1. /\ Cardinality(Live(scope) \cup {n}) <= task[q].nextCount
        /\ Others(scope, n) + Size[task[q].content] <= task[q].nextBytes
    BY DEF Counting
  <2>2. n \in Names /\ Size[task[q].content] \in Nat
    BY <1>5
  <2> HIDE DEF scope, n
  <2>3. QED
    BY <1>2, <1>4, <2>1, <2>2
<1>8. task'[q].at = "row" => /\ Cardinality(Live(scope)') <= task[q].nextCount
                             /\ Bytes(scope)' <= task[q].nextBytes
  BY <1>2, <1>3 DEF Counting
<1>9. task'[q].at \in Publishing =>
        task[q].nextCount <= MaxPackages /\ task[q].nextBytes <= MaxBytes
  BY DEF Counting
<1>10. QED
  BY <1>6, <1>7, <1>8, <1>9 DEF Counting, Live, Bytes, Others

(* A quiet step of an upload keeps its count, or begins it.                *)
LEMMA QuietCounts ==
  ASSUME TypeOK, RowsWhole, TasksNamed, NEW p \in Workers, Quiet(p),
         task'[p].at \in {"items"} \cup Publishing,
         StartUpload(p) \/ Counting(p)
  PROVE  Counting(p)'
<1> USE SkillHubAssumption
<1>1. /\ skill' = skill /\ RowsWhole' /\ task[p] \in Task
  BY QuietTyped DEF TypeOK
<1>2. /\ task[p].scope \in Scopes /\ task[p].count \in Int /\ task[p].bytes \in Int
      /\ task[p].nextCount \in Int /\ task[p].nextBytes \in Int
  BY <1>1 DEF Task
<1>3. \A scope \in Scopes : /\ Live(scope)' = Live(scope) /\ Bytes(scope)' = Bytes(scope)
                            /\ \A n \in Names : Others(scope, n)' = Others(scope, n)
  BY <1>1 DEF Live, Bytes, Others
<1>4. CASE StartUpload(p)
  <2>1. PICK scope \in Scopes :
          /\ task'[p].at = "items" /\ task'[p].scope = scope
          /\ task'[p].count = Cardinality(Live(scope)) /\ task'[p].bytes = Bytes(scope)
    BY <1>4, StartTyped
  <2>2. Cardinality(Live(scope)) \in Nat /\ Bytes(scope) \in Nat
    BY <1>1, UsageNumbers
  <2>3. Live(scope)' = Live(scope) /\ Bytes(scope)' = Bytes(scope)
    BY <1>3
  <2>4. task'[p].at \notin Publishing
    BY <2>1 DEF Publishing
  <2>5. Cardinality(Live(scope)') <= task'[p].count /\ Bytes(scope)' <= task'[p].bytes
    BY <2>1, <2>2, <2>3
  <2>6. QED
    BY <2>1, <2>4, <2>5 DEF Counting, Live, Bytes, Publishing
<1>5. CASE ~StartUpload(p) /\ (FindItem(p) \/ RefuseItem(p))
  <2>1. /\ task[p].at = "items" /\ task'[p].at \in {"items", "put"}
        /\ task'[p].scope = task[p].scope
        /\ task'[p].count = task[p].count /\ task'[p].bytes = task[p].bytes
        /\ task'[p].at = "put" => Fits(p, task'[p])
    BY <1>5, FindTyped
  <2>0. PICK scope, n, c :
          scope \in Scopes /\ scope = task[p].scope /\ n = task'[p].name /\ c = task'[p].content
    BY <1>2
  <2>2. Cardinality(Live(scope)) <= task[p].count /\ Bytes(scope) <= task[p].bytes
    BY <1>5, <2>1, <2>0 DEF Counting
  <2>3. ASSUME task'[p].at = "put"
        PROVE  /\ Cardinality(Live(scope) \cup {n}) <= task'[p].nextCount
               /\ Others(scope, n) + Size[c] <= task'[p].nextBytes
               /\ task'[p].nextCount <= MaxPackages /\ task'[p].nextBytes <= MaxBytes
    <3>1. n \in Names /\ c \in Contents
      BY <1>5, <2>3, <2>0, FindTyped DEF TasksNamed, Publishing
    <3>2. /\ Cardinality(Live(scope)) \in Nat /\ Bytes(scope) \in Nat
          /\ Others(scope, n) \in Nat /\ Cardinality(Live(scope) \cup {n}) \in Nat
      BY <1>1, <2>0, <3>1, UsageNumbers
    <3>3. Size[c] \in Nat
      BY <3>1
    <3>4. n \in Live(scope) <=> skill[scope][n].status = "live"
      BY <3>1 DEF Live
    <3>5. /\ n \in Live(scope) =>
               /\ Bytes(scope) = Others(scope, n) + Size[skill[scope][n].content]
               /\ Live(scope) \cup {n} = Live(scope)
               /\ Size[skill[scope][n].content] \in Nat
          /\ n \notin Live(scope) =>
               /\ Bytes(scope) = Others(scope, n)
               /\ Cardinality(Live(scope) \cup {n}) = Cardinality(Live(scope)) + 1
      BY <2>0, <3>1, UsageSplit
    <3>6. /\ task'[p].nextCount = task[p].count + (IF n \in Live(scope) THEN 0 ELSE 1)
          /\ task'[p].nextBytes =
               task[p].bytes - (IF n \in Live(scope) THEN Size[skill[scope][n].content] ELSE 0)
                             + Size[c]
          /\ task'[p].nextCount <= MaxPackages /\ task'[p].nextBytes <= MaxBytes
      BY <2>1, <2>3, <2>0, <3>4 DEF Fits
    <3>7. CASE n \in Live(scope)
      <4>1. PICK old \in Nat : old = Size[skill[scope][n].content]
        BY <3>5, <3>7
      <4>2. /\ task'[p].nextCount = task[p].count
            /\ task'[p].nextBytes = task[p].bytes - old + Size[c]
        BY <1>2, <3>6, <3>7, <4>1
      <4>3. Bytes(scope) = Others(scope, n) + old /\ Live(scope) \cup {n} = Live(scope)
        BY <3>5, <3>7, <4>1
      <4>4. Others(scope, n) + Size[c] <= task'[p].nextBytes
        BY <1>2, <2>2, <3>2, <3>3, <4>2, <4>3
      <4>5. QED
        BY <2>2, <3>6, <4>2, <4>3, <4>4
    <3>8. CASE n \notin Live(scope)
      <4>1. /\ task'[p].nextCount = task[p].count + 1
            /\ task'[p].nextBytes = task[p].bytes + Size[c]
        BY <1>2, <3>3, <3>6, <3>8
      <4>2. QED
        BY <1>2, <2>2, <3>2, <3>3, <3>5, <3>6, <3>8, <4>1
    <3>9. QED
      BY <3>7, <3>8
  <2>4. Live(scope)' = Live(scope) /\ Bytes(scope)' = Bytes(scope)
    BY <1>3, <2>0
  <2>5. task'[p].at = "put" => Others(scope, n)' = Others(scope, n)
    <3>1. task'[p].at = "put" => n \in Names
      BY <1>5, <2>0, FindTyped DEF TasksNamed, Publishing
    <3>2. QED
      BY <1>3, <2>0, <3>1
  <2>6. QED
    <3>1. /\ Cardinality(Live(scope)') <= task'[p].count
          /\ Bytes(scope)' <= task'[p].bytes
      BY <2>1, <2>2, <2>4
    <3>2. task'[p].at = "put" =>
            /\ Cardinality((Live(scope) \cup {n})') <= task'[p].nextCount
            /\ Others(scope, n)' + Size[c] <= task'[p].nextBytes
            /\ task'[p].nextCount <= MaxPackages /\ task'[p].nextBytes <= MaxBytes
      BY <2>3, <2>4, <2>5
    <3>3. QED
      BY <2>1, <2>0, <3>1, <3>2 DEF Counting, Publishing, Live, Bytes, Others
<1>6. CASE ~StartUpload(p) /\ (Put(p) \/ FailItem(p) \/ ReadSkill(p) \/ ConcurrentWrite(p)
                                 \/ AppendRow(p))
  <2>1. task[p].at \in Publishing /\ Inside(p, task'[p])
    BY <1>6, PublishTyped
  <2>2. PICK scope \in Scopes, n \in Names, c \in Contents :
          scope = task[p].scope /\ n = task[p].name /\ c = task[p].content
    BY <1>2, <2>1 DEF TasksNamed
  <2>3. CASE task'[p].at \in {"read", "write"}
    <3>1. /\ Kept(p, task'[p]) /\ task[p].at \in Publishing \ {"row"}
          /\ task'[p].scope = scope
      BY <2>1, <2>2, <2>3 DEF Inside, Publishing
    <3>2. /\ Cardinality(Live(scope)) <= task[p].count /\ Bytes(scope) <= task[p].bytes
          /\ task[p].nextCount <= MaxPackages /\ task[p].nextBytes <= MaxBytes
          /\ Cardinality(Live(scope) \cup {n}) <= task[p].nextCount
          /\ Others(scope, n) + Size[c] <= task[p].nextBytes
      BY <1>6, <2>2, <3>1 DEF Counting, Publishing
    <3>3. QED
      BY <1>1, <2>2, <2>3, <3>1, <3>2 DEF Counting, Kept, Publishing, Live, Bytes, Others
  <2>4. CASE task'[p].at = "items"
    <3>1. Cardinality(Live(scope)) <= task'[p].count /\ Bytes(scope) <= task'[p].bytes
      <4>1. CASE /\ task[p].at # "row"
                 /\ task'[p].count = task[p].count /\ task'[p].bytes = task[p].bytes
        BY <1>6, <2>2, <4>1 DEF Counting
      <4>2. CASE /\ Published(p) /\ task[p].at = "row"
                 /\ task'[p].count = task[p].nextCount /\ task'[p].bytes = task[p].nextBytes
        BY <1>6, <2>2, <4>2 DEF Counting
      <4>3. CASE /\ Published(p) /\ task[p].at # "row"
                 /\ task'[p].count = task[p].nextCount /\ task'[p].bytes = task[p].nextBytes
        <5>1. /\ task[p].at \in Publishing \ {"row"}
              /\ skill[scope][n].status = "live" /\ skill[scope][n].content = c
          BY <2>1, <2>2, <4>3 DEF Published, Skill
        <5>2. n \in Live(scope)
          BY <2>2, <5>1 DEF Live
        <5>3. Bytes(scope) = Others(scope, n) + Size[c] /\ Live(scope) \cup {n} = Live(scope)
          BY <5>1, <5>2, UsageSplit
        <5>4. /\ Cardinality(Live(scope) \cup {n}) <= task[p].nextCount
              /\ Others(scope, n) + Size[c] <= task[p].nextBytes
          BY <1>6, <2>2, <5>1 DEF Counting
        <5>5. QED
          BY <4>3, <5>3, <5>4
      <4>4. QED
        BY <2>1, <2>4, <4>1, <4>2, <4>3 DEF Inside
    <3>2. task'[p].scope = scope
      BY <2>1, <2>2 DEF Inside
    <3>3. QED
      BY <1>1, <2>4, <3>1, <3>2 DEF Counting, Publishing, Live, Bytes
  <2>5. QED
    BY <2>1, <2>3, <2>4 DEF Inside
<1>7. CASE Other(p)
  BY <1>7, OtherTyped DEF Publishing
<1>8. QED
  BY <1>4, <1>5, <1>6, <1>7 DEF Quiet

(* An upload that is under way in a scope which is not crowded was, or has begun where
   there was none.                                                         *)
LEMMA UploadingWas ==
  ASSUME TypeOK, RowsWhole, TasksNamed, NEW p \in Workers, Quiet(p) \/ WriteSkill(p),
         NEW scope \in Scopes, scope \notin crowded'
  PROVE  /\ scope \notin crowded
         /\ \/ Uploading(scope)' \subseteq Uploading(scope)
            \/ /\ Uploading(scope) = {} /\ Uploading(scope)' \subseteq {p}
               /\ StartUpload(p)
<1>1. /\ scope \notin crowded
      /\ \A q \in Workers : q # p => task'[q] = task[q]
  <2>1. CASE Quiet(p)
    BY <2>1, QuietTyped
  <2>2. CASE WriteSkill(p)
    BY <2>2, WriteTyped DEF WriteSkill
  <2>3. QED
    BY <2>1, <2>2
<1>2. \A q \in Workers : q # p => (q \in Uploading(scope)' <=> q \in Uploading(scope))
  BY <1>1 DEF Uploading
<1>3. CASE StartUpload(p)
  <2>1. PICK begun \in Scopes :
          /\ task'[p].scope = begun
          /\ crowded' = IF Uploading(begun) = {} THEN crowded ELSE crowded \cup {begun}
    BY <1>3, StartTyped
  <2>2. CASE begun = scope
    <3>1. Uploading(scope) = {}
      BY <2>1, <2>2
    <3>2. Uploading(scope)' \subseteq Workers
      BY DEF Uploading
    <3>3. QED
      BY <1>1, <1>2, <1>3, <3>1, <3>2
  <2>3. CASE begun # scope
    <3>1. p \notin Uploading(scope)'
      BY <2>1, <2>3 DEF Uploading
    <3>2. Uploading(scope)' \subseteq Workers
      BY DEF Uploading
    <3>3. QED
      BY <1>1, <1>2, <3>1, <3>2
  <2>4. QED
    BY <2>2, <2>3
<1>4. CASE ~StartUpload(p)
  <2>1. p \in Uploading(scope)' => p \in Uploading(scope)
    <3>1. CASE FindItem(p) \/ RefuseItem(p)
      BY <3>1, FindTyped DEF Uploading
    <3>2. CASE Put(p) \/ FailItem(p) \/ ReadSkill(p) \/ ConcurrentWrite(p) \/ AppendRow(p)
      BY <3>2, PublishTyped DEF Uploading, Inside, Publishing
    <3>3. CASE Other(p)
      BY <3>3, OtherTyped DEF Uploading
    <3>4. CASE WriteSkill(p)
      BY <3>4, WriteTyped DEF Uploading, WriteSkill, At
    <3>5. QED
      BY <1>4, <3>1, <3>2, <3>3, <3>4 DEF Quiet
  <2>2. Uploading(scope)' \subseteq Workers
    BY DEF Uploading
  <2>3. QED
    BY <1>1, <1>2, <2>1, <2>2
<1>5. QED
  BY <1>3, <1>4

(* Uploads stay alone.                                                     *)
LEMMA AloneStays ==
  ASSUME TypeOK, RowsWhole, TasksNamed, AloneUnlessCrowded, [Next]_vars
  PROVE  AloneUnlessCrowded'
<1>1. ASSUME NEW p \in Workers, Quiet(p) \/ WriteSkill(p) PROVE AloneUnlessCrowded'
  <2>1. SUFFICES ASSUME NEW scope \in Scopes, scope \notin crowded'
                 PROVE  \A q, r \in Uploading(scope)' : q = r
    BY DEF AloneUnlessCrowded
  <2>2. \A q, r \in Uploading(scope) : q = r
    BY <1>1, <2>1, UploadingWas DEF AloneUnlessCrowded
  <2>3. QED
    BY <1>1, <2>1, <2>2, UploadingWas
<1>2. CASE SwitchOn \/ Operate \/ UNCHANGED vars
  <2>1. UNCHANGED <<task, crowded>>
    BY <1>2 DEF SwitchOn, Operate, SetOfficialFlags, SetReviewStatus, MarkDeleted, vars
  <2>2. QED
    BY <2>1 DEF AloneUnlessCrowded, Uploading
<1>3. QED
  BY <1>1, <1>2, StepsAre

(* Where an operator changes skills, or nobody does, there is no more in any scope. *)
LEMMA OperateLess ==
  ASSUME TypeOK, RowsWhole, SwitchOn \/ Operate \/ UNCHANGED vars, NEW scope \in Scopes
  PROVE  LessUsage(scope)
<1>1. CASE Operate
  <2>1. PICK s \in Scopes, n \in Names :
           /\ skill'[s][n].status \in {skill[s][n].status, "deleted"}
           /\ skill'[s][n].content = skill[s][n].content
           /\ \A t \in Scopes, m \in Names :
                t # s \/ m # n => skill'[t][m] = skill[t][m]
    BY <1>1, OperateTyped
  <2>2. ASSUME NEW m \in Names
        PROVE  /\ skill'[scope][m].status = "live" => skill[scope][m].status = "live"
               /\ skill'[scope][m].content = skill[scope][m].content
    <3>1. CASE scope = s /\ m = n
      BY <2>1, <3>1
    <3>2. CASE ~(scope = s /\ m = n)
      BY <2>1, <3>2
    <3>3. QED
      BY <3>1, <3>2
  <2>3. QED
    BY <2>2 DEF LessUsage, Live
<1>2. CASE SwitchOn \/ UNCHANGED vars
  BY <1>2 DEF SwitchOn, vars, LessUsage, Live
<1>3. QED
  BY <1>1, <1>2

(* A written document is one the count of its upload covers; elsewhere there is no more. *)
LEMMA WriteCounts ==
  ASSUME TypeOK, RowsWhole, TasksNamed, NEW p \in Workers, WriteSkill(p)
  PROVE  \A scope \in Scopes :
           IF scope # task[p].scope THEN LessUsage(scope)
           ELSE Counting(p) => /\ Counting(p)'
                               /\ Cardinality(Live(scope)') <= MaxPackages
                               /\ Bytes(scope)' <= MaxBytes
<1>1. PICK scope, n, c : scope = task[p].scope /\ n = task[p].name /\ c = task[p].content
  OBVIOUS
<1>2. task[p] \in Task /\ task[p].at = "write"
  BY DEF TypeOK, WriteSkill, At
<1>3. scope \in Scopes /\ n \in Names /\ c \in Contents /\ Size[c] \in Nat
      /\ task[p].nextCount \in Int /\ task[p].nextBytes \in Int
  BY <1>1, <1>2, SkillHubAssumption DEF TasksNamed, Publishing, Task
<1>4. /\ skill'[scope][n].status = "live" /\ skill'[scope][n].content = c
      /\ \A s \in Scopes, m \in Names : s # scope \/ m # n => skill'[s][m] = skill[s][m]
      /\ task'[p].at = "row" /\ task'[p].scope = scope
      /\ task'[p].nextCount = task[p].nextCount /\ task'[p].nextBytes = task[p].nextBytes
  BY <1>1, WriteTyped
<1>5. \A s \in Scopes : s # scope => LessUsage(s)
  BY <1>4 DEF LessUsage, Live
<1>6. /\ Live(scope)' = Live(scope) \cup {n}
      /\ Bytes(scope)' = Others(scope, n) + Size[c]
  <2>1. PICK rows, written : rows = skill[scope] /\ written = skill'[scope]
    OBVIOUS
  <2>2. /\ Sound(rows) /\ written[n].status = "live" /\ written[n].content = c
        /\ \A m \in Names : m # n => written[m] = rows[m]
    BY <1>3, <1>4, <2>1, RowsSound
  <2>3. /\ LiveOf(written) = LiveOf(rows) \cup {n}
        /\ BytesOf(written) = OthersOf(rows, n) + Size[c]
    BY <1>3, <2>2, UsageOfWritten
  <2>4. QED
    BY <1>3, <2>1, <2>3, UsageIsOfRows
<1>7. ASSUME Counting(p)
      PROVE  /\ Counting(p)'
             /\ Cardinality(Live(scope)') <= MaxPackages /\ Bytes(scope)' <= MaxBytes
  <2>1. /\ Cardinality(Live(scope) \cup {n}) <= task[p].nextCount
        /\ Others(scope, n) + Size[c] <= task[p].nextBytes
        /\ task[p].nextCount <= MaxPackages /\ task[p].nextBytes <= MaxBytes
    BY <1>1, <1>2, <1>7 DEF Counting, Publishing
  <2>2. /\ Cardinality(Live(scope)') <= task[p].nextCount
        /\ Bytes(scope)' <= task[p].nextBytes
    BY <1>6, <2>1
  <2>3. Cardinality(Live(scope) \cup {n}) \in Nat /\ Others(scope, n) \in Nat
    <3>1. Sound(skill[scope])
      BY <1>3, RowsSound
    <3>2. QED
      BY <1>3, <3>1, UsageIsNat, UsageIsOfRows
  <2>4. Cardinality(Live(scope)') <= MaxPackages /\ Bytes(scope)' <= MaxBytes
    BY <1>3, <1>6, <2>1, <2>3, SkillHubAssumption
  <2>5. Counting(p)'
    BY <1>4, <2>1, <2>2 DEF Counting, Publishing, Live, Bytes
  <2>6. QED
    BY <2>4, <2>5
<1>8. QED
  BY <1>1, <1>5, <1>7

(* Counts stay above what there is, and what there is within the quota.    *)
LEMMA QuotaStays ==
  ASSUME TypeOK, RowsWhole, TasksNamed, AloneUnlessCrowded, CountsCover, QuotaHolds,
         [Next]_vars
  PROVE  CountsCover' /\ QuotaHolds'
<1>1. RowsWhole'
  BY TypesKept
<1>2. ASSUME NEW scope \in Scopes, LessUsage(scope), scope \notin crowded
      PROVE  Cardinality(Live(scope)') <= MaxPackages /\ Bytes(scope)' <= MaxBytes
  <2>1. Cardinality(Live(scope)) <= MaxPackages /\ Bytes(scope) <= MaxBytes
    BY <1>2 DEF QuotaHolds
  <2>2. QED
    BY <1>1, <1>2, <2>1, LessUsed, UsageNumbers, SkillHubAssumption
<1>3. SUFFICES ASSUME NEW scope \in Scopes, scope \notin crowded'
               PROVE  /\ \A q \in Uploading(scope)' : Counting(q)'
                      /\ Cardinality(Live(scope)') <= MaxPackages /\ Bytes(scope)' <= MaxBytes
  BY DEF CountsCover, QuotaHolds
<1>4. ASSUME NEW p \in Workers, Quiet(p)
      PROVE  /\ \A q \in Uploading(scope)' : Counting(q)'
             /\ Cardinality(Live(scope)') <= MaxPackages /\ Bytes(scope)' <= MaxBytes
  <2>1. /\ scope \notin crowded
        /\ \/ Uploading(scope)' \subseteq Uploading(scope)
           \/ /\ Uploading(scope)' \subseteq {p}
              /\ StartUpload(p)
    BY <1>3, <1>4, UploadingWas
  <2>2. skill' = skill /\ \A q \in Workers : q # p => task'[q] = task[q]
    BY <1>4, QuietTyped
  <2>3. LessUsage(scope)
    BY <2>2 DEF LessUsage, Live
  <2>4. ASSUME NEW q \in Uploading(scope)', q # p PROVE Counting(q)'
    <3>1. /\ q \in Workers /\ q \in Uploading(scope) /\ task'[q] = task[q]
          /\ task[q].scope = scope
      BY <2>1, <2>2, <2>4 DEF Uploading
    <3>2. Counting(q)
      BY <2>1, <3>1 DEF CountsCover
    <3>3. QED
      BY <1>1, <2>3, <3>1, <3>2, CountingStays
  <2>5. ASSUME p \in Uploading(scope)' PROVE Counting(p)'
    <3>1. task'[p].at \in {"items"} \cup Publishing
      BY <2>5 DEF Uploading, Publishing
    <3>2. StartUpload(p) \/ Counting(p)
      BY <2>1, <2>5 DEF CountsCover
    <3>3. QED
      BY <1>4, <3>1, <3>2, QuietCounts
  <2>6. QED
    BY <1>2, <2>1, <2>3, <2>4, <2>5
<1>5. ASSUME NEW p \in Workers, WriteSkill(p)
      PROVE  /\ \A q \in Uploading(scope)' : Counting(q)'
             /\ Cardinality(Live(scope)') <= MaxPackages /\ Bytes(scope)' <= MaxBytes
  <2>1. /\ scope \notin crowded
        /\ Uploading(scope)' \subseteq Uploading(scope) \/ StartUpload(p)
    BY <1>3, <1>5, UploadingWas
  <2>2. /\ \A q \in Workers : q # p => task'[q] = task[q]
        /\ task[p].at = "write" /\ ~StartUpload(p)
        /\ task'[p].scope = task[p].scope /\ task'[p].at = "row"
    <3>1. /\ \A q \in Workers : q # p => task'[q] = task[q]
          /\ task'[p].scope = task[p].scope /\ task'[p].at = "row"
      BY <1>5, WriteTyped
    <3>2. task[p].at = "write"
      BY <1>5 DEF WriteSkill, At
    <3>3. ~StartUpload(p)
      BY <3>1, StartTyped
    <3>4. QED
      BY <3>1, <3>2, <3>3
  <2>3. CASE scope = task[p].scope
    <3>1. p \in Uploading(scope)
      BY <2>2, <2>3 DEF Uploading
    <3>2. Counting(p) /\ \A q \in Uploading(scope) : q = p
      BY <2>1, <3>1 DEF CountsCover, AloneUnlessCrowded
    <3>3. QED
      BY <1>5, <2>1, <2>2, <2>3, <3>2, WriteCounts
  <2>4. CASE scope # task[p].scope
    <3>1. LessUsage(scope)
      BY <1>5, <2>4, WriteCounts
    <3>2. ASSUME NEW q \in Uploading(scope)' PROVE Counting(q)'
      <4>1. /\ q \in Workers /\ q \in Uploading(scope) /\ task'[q] = task[q]
            /\ task[q].scope = scope
        BY <2>1, <2>2, <2>4, <3>2 DEF Uploading
      <4>2. Counting(q)
        BY <2>1, <4>1 DEF CountsCover
      <4>3. QED
        BY <1>1, <3>1, <4>1, <4>2, CountingStays
    <3>3. QED
      BY <1>2, <2>1, <3>1, <3>2
  <2>5. QED
    BY <2>3, <2>4
<1>6. CASE SwitchOn \/ Operate \/ UNCHANGED vars
  <2>1. UNCHANGED <<task, crowded>>
    BY <1>6 DEF SwitchOn, Operate, SetOfficialFlags, SetReviewStatus, MarkDeleted, vars
  <2>2. LessUsage(scope) /\ scope \notin crowded
    BY <1>3, <1>6, <2>1, OperateLess
  <2>3. ASSUME NEW q \in Uploading(scope)' PROVE Counting(q)'
    <3>1. /\ q \in Workers /\ q \in Uploading(scope) /\ task'[q] = task[q]
          /\ task[q].scope = scope
      BY <2>1, <2>3 DEF Uploading
    <3>2. Counting(q)
      BY <2>2, <3>1 DEF CountsCover
    <3>3. QED
      BY <1>1, <2>2, <3>1, <3>2, CountingStays
  <2>4. QED
    BY <1>2, <2>2, <2>3
<1>7. QED
  BY <1>4, <1>5, <1>6, StepsAre

-----------------------------------------------------------------------------
(* The theorems.                                                           *)

(* The invariant holds to begin with.                                      *)
LEMMA InitIInv ==
  ASSUME Init
  PROVE  IInv
<1> USE SkillHubAssumption
<1>1. NoSkill \in SkillRow
  BY DEF NoSkill, SkillRow, Review
<1>2. /\ \A scope \in Scopes, n \in Names : skill[scope][n] = NoSkill
      /\ \A p \in Workers : task[p] = Idle
  BY DEF Init
<1>3. TypeOK
  BY <1>1, IdleIsTask DEF Init, TypeOK
<1>4. TasksNamed /\ RowsWhole /\ PackagesKept
  BY <1>2 DEF Init, TasksNamed, RowsWhole, PackagesKept, Publishing, Idle, NoSkill
<1>5. Told = {}
  BY <1>2 DEF Init, Told, Idle
<1>6. \A scope \in Scopes : Uploading(scope) = {}
  BY <1>2 DEF Uploading, Idle
<1>7. ToldOnce /\ AloneUnlessCrowded /\ CountsCover
  BY <1>5, <1>6 DEF ToldOnce, AloneUnlessCrowded, CountsCover
<1>8. QuotaHolds
  <2>1. ASSUME NEW scope \in Scopes
        PROVE  Cardinality(Live(scope)) <= MaxPackages /\ Bytes(scope) <= MaxBytes
    <3>1. Live(scope) = {}
      BY <1>2 DEF Live, NoSkill
    <3>2. DOMAIN [n \in Live(scope) |-> Size[skill[scope][n].content]] = {}
      BY <3>1
    <3>3. Bytes(scope) = 0
      BY <3>2, TotalOfNone DEF Bytes
    <3>4. Cardinality(Live(scope)) = 0
      BY <3>1, FS_EmptySet
    <3>5. QED
      BY <3>3, <3>4
  <2>2. QED
    BY <2>1 DEF QuotaHolds
<1>9. QED
  BY <1>3, <1>4, <1>7, <1>8 DEF IInv

(* Every step keeps it.                                                    *)
LEMMA NextIInv ==
  ASSUME IInv, [Next]_vars
  PROVE  IInv'
BY TypesKept, PackagesStay, ToldStays, AloneStays, QuotaStays DEF IInv

(* The invariant holds in every state SkillHub reaches.                    *)
THEOREM SkillsSound == Spec => []IInv
<1>1. Init => IInv
  BY InitIInv
<1>2. IInv /\ [Next]_vars => IInv'
  BY NextIInv
<1>3. QED
  BY <1>1, <1>2, PTL DEF Spec

(* The history of a skill never contradicts itself, its document or the store. *)
THEOREM HistoryNeverLies == Spec => []HistoryTells
<1>1. ASSUME IInv PROVE HistoryTells
  <2>1. revisions \subseteq Told
    BY DEF Told
  <2>2. \A r \in revisions :
          <<r.scope, r.name>> \notin clobbered =>
            /\ \A s \in revisions : s.scope = r.scope /\ s.name = r.name
                                      /\ s.revision = r.revision => s = r
            /\ skill[r.scope][r.name].revision = r.revision =>
                 skill[r.scope][r.name].content = r.content
            /\ skill[r.scope][r.name].revision >= r.revision
    BY <1>1, <2>1 DEF IInv, ToldOnce
  <2>3. /\ \A r \in revisions :
             [scope |-> r.scope, name |-> r.name, content |-> r.content] \in stored
        /\ \A scope \in Scopes : \A n \in Live(scope) :
             [scope |-> scope, name |-> n, content |-> skill[scope][n].content] \in stored
    BY <1>1 DEF IInv, PackagesKept, Live
  <2>4. QED
    BY <2>2, <2>3 DEF HistoryTells
<1>2. QED
  BY <1>1, SkillsSound, PTL

(* A scope whose uploads never overlapped is within its quota.             *)
THEOREM QuotaIsKept == Spec => []QuotaHolds
<1>1. IInv => QuotaHolds
  BY DEF IInv
<1>2. QED
  BY <1>1, SkillsSound, PTL

(* A pool has every skill that is required when it is read.                *)
THEOREM RequiredAreServed == Spec => RequiredIsServed
<1> DEFINE Served == \A p \in Workers :
             task[p].at # "answer" /\ task'[p].at = "answer" =>
               {n \in Listed(Official) : skill[Official][n].required} \subseteq task'[p].pool
<1>1. ASSUME IInv, [Next]_vars PROVE [Served]_vars
  <2>1. SUFFICES ASSUME NEW q \in Workers, task[q].at # "answer", task'[q].at = "answer"
                 PROVE  {n \in Listed(Official) : skill[Official][n].required}
                          \subseteq task'[q].pool
    OBVIOUS
  <2>2. TypeOK /\ RowsWhole /\ TasksNamed
    BY <1>1 DEF IInv
  <2>3. ASSUME NEW p \in Workers, Quiet(p) \/ WriteSkill(p)
        PROVE  p = q /\ ReadOfficial(q)
    <3>1. \A r \in Workers : r # p => task'[r] = task[r]
      BY <2>2, <2>3, QuietTyped, WriteTyped
    <3>2. p = q
      BY <2>1, <3>1
    <3>3. ~WriteSkill(p)
      BY <2>1, <2>2, <3>2, WriteTyped
    <3>4. ~StartUpload(p) /\ ~FindItem(p) /\ ~RefuseItem(p)
      BY <2>1, <2>2, <3>2, StartTyped, FindTyped
    <3>5. ~Put(p) /\ ~FailItem(p) /\ ~ReadSkill(p) /\ ~ConcurrentWrite(p) /\ ~AppendRow(p)
      BY <2>1, <2>2, <3>2, PublishTyped DEF Inside
    <3>6. Other(p)
      BY <2>3, <3>3, <3>4, <3>5 DEF Quiet
    <3>7. task \in [Workers -> Task]
      BY <2>2 DEF TypeOK
    <3>8. ~EndUpload(p) /\ ~Throws(p) /\ ~SwitchOff(p) /\ ~AnswerPool(p)
      BY <2>1, <3>2, <3>7 DEF EndUpload, Throws, SwitchOff, AnswerPool, Finish, Idle
    <3>9. ~StartSwitch(p) /\ ~ReadHidden(p)
      <4>1. ASSUME StartSwitch(p) PROVE task'[p].at = "switch"
        <5>1. PICK scope \in Namespaces, n \in Names :
                task' = [task EXCEPT ![p] =
                           [Idle EXCEPT !.at = "switch", !.scope = scope, !.name = n]]
          BY <4>1 DEF StartSwitch
        <5>2. QED
          BY <3>7, <5>1 DEF Idle
      <4>2. ASSUME ReadHidden(p) PROVE task'[p].at = "own"
        <5>1. PICK scope \in Namespaces :
                task' = [task EXCEPT ![p] = [Idle EXCEPT !.at = "own", !.scope = scope,
                                      !.hidden = {n \in Names : <<scope, n>> \in off}]]
          BY <4>2 DEF ReadHidden
        <5>2. QED
          BY <3>7, <5>1 DEF Idle
      <4>3. QED
        BY <2>1, <3>2, <4>1, <4>2
    <3>10. ~ReadOwn(p)
      BY <2>1, <3>2, <3>7 DEF ReadOwn, Task
    <3>11. QED
      BY <3>2, <3>6, <3>8, <3>9, <3>10 DEF Other, Switch, ListPool
  <2>4. ReadOfficial(q)
    <3>1. CASE SwitchOn \/ Operate \/ UNCHANGED vars
      <4>1. task' = task
        BY <3>1 DEF SwitchOn, Operate, SetOfficialFlags, SetReviewStatus, MarkDeleted, vars
      <4>2. QED
        BY <2>1, <4>1
    <3>2. QED
      BY <1>1, <2>3, <3>1, StepsAre
  <2>5. task \in [Workers -> Task]
    BY <2>2 DEF TypeOK
  <2>6. task'[q].pool = task[q].pool \cup
          {n \in Listed(Official) : Offered(n, task[q].hidden)}
    BY <2>4, <2>5 DEF ReadOfficial, Task
  <2>7. QED
    BY <2>6 DEF Offered
<1>2. QED
  BY <1>1, SkillsSound, PTL DEF Spec, RequiredIsServed
-----------------------------------------------------------------------------
(* MCP servers.                                                            *)

(* The revision a document is of; one that has no number yet is of the first. *)
Rev(doc) == IF doc.revision = 0 THEN 1 ELSE doc.revision

(* What is said of revision v of a server: by a grant, by a snapshot, or by a request
   that is about to give its grant.                                        *)
Gives(t, s, n, v, c) ==
  t.at = "grant" /\ t.scope = s /\ t.name = n /\ t.row.revision = v /\ t.row.config = c
Said(s, n, v, c) == H!Row(s, n, v, c) \in granted \cup snapshot
Says(s, n, v, c) == Said(s, n, v, c) \/ \E p \in Workers : Gives(mcpTask[p], s, n, v, c)
DocSays(doc, v, c) == doc.status # "none" /\ v = Rev(doc) /\ c = doc.config

(* Nothing is said of what there is not, nothing of a revision to come, of the one that
   is what the document says, and of each earlier one the same.            *)
Facts(s, n) ==
  LET doc == server[s][n]
  IN  /\ doc.status = "none" => doc.revision = 0
      /\ \A v, c : Says(s, n, v, c) =>
           doc.status # "none" /\ v \in Nat /\ v <= Rev(doc) /\ (v = Rev(doc) => c = doc.config)
      /\ \A v, c, d : Says(s, n, v, c) /\ Says(s, n, v, d) => c = d

(* What a request that will write a document has read of it is so still: it is a
   registration that is alone with it, or there are migrations only.       *)
Writes(t, s, n) == t.scope = s /\ t.name = n /\ t.at \in {"migrate", "revise", "write", "append"}
UpToDate(t, s, n, doc) ==
  Writes(t, s, n) =>
    /\ t.at \in {"migrate", "revise"} =>
         /\ t.row.revision = 0 /\ t.row.status # "none" /\ t.row.config = doc.config
         /\ doc.status # "none" /\ doc.revision \in {0, 1}
    /\ t.at = "write" =>
         /\ t.row.revision = doc.revision /\ t.row.config = doc.config
         /\ (t.row.status = "none" <=> doc.status = "none")
         /\ (t.row.status # "none" => t.row.revision # 0)
    /\ t.at = "append" =>
         doc.status # "none" /\ t.row.revision = doc.revision /\ t.config = doc.config /\ doc.revision # 0
Alone(s, n) ==
  \A p, q \in Workers :
    p # q /\ Writes(mcpTask[p], s, n) /\ Writes(mcpTask[q], s, n) => mcpTask[p].kind # "register"
Settled(s, n) ==
  Facts(s, n) /\ Alone(s, n) /\ \A p \in Workers : UpToDate(mcpTask[p], s, n, server[s][n])

(* A request is of a kind that gets where it is, for a server there may be. *)
Shaped(t) ==
  /\ t.at # "idle" => t.name \in ServerNames
  /\ t.at \in {"read", "write", "append"} => t.kind = "register"
  /\ t.at \in {"own", "official", "grant"} => t.kind = "resolve"
  /\ t.at \in {"migrate", "revise"} => t.kind \in {"register", "resolve", "view"}

Spoken == [scope : H!Scopes, name : ServerNames, revision : Nat, config : Configs \cup {None}]
HubTyped ==
  /\ server \in [H!Scopes -> [ServerNames -> H!ServerRow]]
  /\ mcpTask \in [Workers -> H!Task]
  /\ granted \in SUBSET Spoken /\ snapshot \in SUBSET Spoken
HubInv ==
  /\ HubTyped
  /\ \A p \in Workers : Shaped(mcpTask[p])
  /\ \A s \in H!Scopes, n \in ServerNames : <<s, n>> \notin overlapped => Settled(s, n)

(* A request that has ended is a request, of no kind.                      *)
LEMMA HubIdle == H!Idle \in H!Task /\ Shaped(H!Idle) /\ H!Idle.at = "idle"
BY DEF H!Idle, H!Task, H!Steps, H!NoServer, H!ServerRow, H!Scopes, Shaped

(* What is said of a server that is not contested agrees.                  *)
LEMMA HubGrants == HubInv => GrantsResolve
<1>. SUFFICES ASSUME HubInv, NEW g \in granted, <<g.scope, g.name>> \notin overlapped,
                     NEW s \in granted \cup snapshot, H!SameKey(s, g)
              PROVE  s.config = g.config
  BY DEF GrantsResolve, H!GrantsResolve
<1>1. g \in Spoken /\ s \in Spoken
  BY DEF HubInv, HubTyped
<1>2. Facts(g.scope, g.name)
  BY <1>1 DEF HubInv, Settled, Spoken
<1>3. g = H!Row(g.scope, g.name, g.revision, g.config) /\ s = H!Row(g.scope, g.name, g.revision, s.config)
  BY <1>1 DEF Spoken, H!Row, H!SameKey
<1>4. Says(g.scope, g.name, g.revision, g.config) /\ Says(g.scope, g.name, g.revision, s.config)
  BY <1>3 DEF Says, Said
<1>. QED BY <1>2, <1>4 DEF Facts

(* A document with the same configuration and revision is of the same.     *)
Steady(doc, d) ==
  d.config = doc.config /\ d.revision = doc.revision /\ (d.status = "none" <=> doc.status = "none")

(* A step that leaves the document of a server as it is, but for its deletion and whether
   it is enabled: what one request says or has read then must be what there is. *)
LEMMA StaySettled ==
  ASSUME NEW s, NEW n, Settled(s, n), NEW p, NEW t, HubTyped,
         Steady(server[s][n], server'[s][n]),
         server[s][n].revision \in Nat,
         \A q \in Workers : mcpTask'[q] = mcpTask[q] \/ (q = p /\ mcpTask'[q] = t),
         \A v, c : Gives(t, s, n, v, c) => Says(s, n, v, c) \/ DocSays(server[s][n], v, c),
         \A v, c : Said(s, n, v, c)' => Says(s, n, v, c) \/ DocSays(server[s][n], v, c),
         UpToDate(t, s, n, server[s][n]),
         \A q \in Workers : q # p /\ Writes(t, s, n) /\ Writes(mcpTask[q], s, n) =>
            t.kind # "register" /\ mcpTask[q].kind # "register"
  PROVE  Settled(s, n)'
<1>. DEFINE doc == server[s][n]
<1>1. PICK new : new = server'[s][n]
  OBVIOUS
<1>2. Steady(doc, new)
  BY <1>1
<1>3. ASSUME NEW v, NEW c, Says(s, n, v, c)' PROVE Says(s, n, v, c) \/ DocSays(doc, v, c)
  <2>1. CASE Said(s, n, v, c)'
    BY <2>1
  <2>2. ASSUME NEW q \in Workers, Gives(mcpTask[q], s, n, v, c)' PROVE Says(s, n, v, c) \/ DocSays(doc, v, c)
    <3>1. PICK u : u = mcpTask'[q]
      OBVIOUS
    <3>2. Gives(u, s, n, v, c)
      BY <2>2, <3>1 DEF Gives
    <3>. QED BY <3>1, <3>2 DEF Says
  <2>. QED BY <1>3, <2>1, <2>2 DEF Says
<1>4. /\ \A v, c : Says(s, n, v, c) =>
           doc.status # "none" /\ v \in Nat /\ v <= Rev(doc) /\ (v = Rev(doc) => c = doc.config)
      /\ \A v, c, d : Says(s, n, v, c) /\ Says(s, n, v, d) => c = d
      /\ doc.status = "none" => doc.revision = 0
  BY DEF Settled, Facts
<1>5. Rev(new) = Rev(doc) /\ Rev(doc) \in Nat
  BY <1>2 DEF Steady, Rev
<1>6. ASSUME NEW v, NEW c, Says(s, n, v, c)'
      PROVE new.status # "none" /\ v \in Nat /\ v <= Rev(new) /\ (v = Rev(new) => c = new.config)
  BY <1>2, <1>3, <1>4, <1>5, <1>6 DEF Steady, DocSays
<1>7. ASSUME NEW v, NEW c, NEW d, Says(s, n, v, c)', Says(s, n, v, d)' PROVE c = d
  BY <1>3, <1>4, <1>7 DEF DocSays
<1>8. Facts(s, n)'
  BY <1>1, <1>2, <1>4, <1>6, <1>7 DEF Facts, Steady, Rev
<1>9. Alone(s, n)'
  <2>1. ASSUME NEW q \in Workers, NEW r \in Workers, q # r, Writes(mcpTask[q], s, n)', Writes(mcpTask[r], s, n)'
        PROVE  mcpTask'[q].kind # "register"
    <3>1. PICK u, w : u = mcpTask'[q] /\ w = mcpTask'[r]
      OBVIOUS
    <3>2. Writes(u, s, n) /\ Writes(w, s, n)
      BY <2>1, <3>1 DEF Writes
    <3>3. (u = mcpTask[q] \/ (q = p /\ u = t)) /\ (w = mcpTask[r] \/ (r = p /\ w = t))
      BY <3>1
    <3>. QED BY <2>1, <3>1, <3>2, <3>3 DEF Settled, Alone
  <2>. QED BY <2>1 DEF Alone
<1>10. ASSUME NEW q \in Workers PROVE UpToDate(mcpTask[q], s, n, server[s][n])'
  <2>1. PICK u : u = mcpTask'[q]
    OBVIOUS
  <2>2. UpToDate(u, s, n, doc)
    BY <2>1 DEF Settled
  <2>3. UpToDate(u, s, n, new)
    BY <1>2, <2>2 DEF UpToDate, Steady
  <2>. QED BY <1>1, <2>1, <2>3 DEF UpToDate, Writes
<1>. QED BY <1>8, <1>9, <1>10 DEF Settled

(* The document of a server is a document.                                 *)
LEMMA DocTyped ==
  ASSUME HubTyped, NEW s \in H!Scopes, NEW n \in ServerNames
  PROVE  server[s][n] \in H!ServerRow /\ server[s][n].revision \in Nat
BY DEF HubTyped, H!ServerRow

(* A step of a request that writes no document.                            *)
LEMMA HubQuiet ==
  ASSUME HubInv, NEW p \in Workers, NEW t \in H!Task, Shaped(t), mcpTask' = [mcpTask EXCEPT ![p] = t],
         UNCHANGED server, overlapped \subseteq overlapped', granted' \in SUBSET Spoken,
         snapshot' \in SUBSET Spoken,
         \A s \in H!Scopes, n \in ServerNames : <<s, n>> \notin overlapped' =>
           /\ \A v, c : Gives(t, s, n, v, c) => Says(s, n, v, c) \/ DocSays(server[s][n], v, c)
           /\ \A v, c : Said(s, n, v, c)' => Says(s, n, v, c) \/ DocSays(server[s][n], v, c)
           /\ UpToDate(t, s, n, server[s][n])
           /\ \A q \in Workers : q # p /\ Writes(t, s, n) /\ Writes(mcpTask[q], s, n) =>
                t.kind # "register" /\ mcpTask[q].kind # "register"
  PROVE  HubInv'
<1>1. mcpTask' \in [Workers -> H!Task] /\ \A q \in Workers : mcpTask'[q] = mcpTask[q] \/ (q = p /\ mcpTask'[q] = t)
  BY DEF HubInv, HubTyped
<1>2. HubTyped'
  BY <1>1 DEF HubInv, HubTyped
<1>3. ASSUME NEW q \in Workers PROVE Shaped(mcpTask[q])'
  <2>1. PICK u : u = mcpTask'[q]
    OBVIOUS
  <2>2. Shaped(u)
    BY <1>1, <2>1 DEF HubInv
  <2>. QED BY <2>1, <2>2 DEF Shaped
<1>4. ASSUME NEW s \in H!Scopes, NEW n \in ServerNames, <<s, n>> \notin overlapped'
      PROVE  Settled(s, n)'
  <2>1. Settled(s, n)
    BY <1>4 DEF HubInv
  <2>2. Steady(server[s][n], server'[s][n])
    BY DEF Steady
  <2>3. server[s][n].revision \in Nat /\ HubTyped
    BY DocTyped DEF HubInv
  <2>. QED BY <1>1, <1>4, <2>1, <2>2, <2>3, StaySettled
<1>. QED BY <1>2, <1>3, <1>4 DEF HubInv

(* A request that ends, or goes where it neither writes nor gives a grant. *)
LEMMA HubLeaves ==
  ASSUME HubInv, NEW p \in Workers, NEW t \in H!Task, Shaped(t), mcpTask' = [mcpTask EXCEPT ![p] = t],
         t.at \notin {"grant", "migrate", "revise", "write", "append"},
         UNCHANGED <<server, snapshot, granted, overlapped>>
  PROVE  HubInv'
<1>1. granted' \in SUBSET Spoken /\ snapshot' \in SUBSET Spoken
  BY DEF HubInv, HubTyped
<1>2. \A s, n, v, c : ~Gives(t, s, n, v, c)
  BY DEF Gives
<1>3. \A s, n : ~Writes(t, s, n)
  BY DEF Writes
<1>4. \A s, n, v, c : Said(s, n, v, c)' => Says(s, n, v, c)
  BY DEF Said, Says
<1>5. \A s, n : UpToDate(t, s, n, server[s][n])
  BY <1>3 DEF UpToDate
<1>. QED BY <1>1, <1>2, <1>3, <1>4, <1>5, HubQuiet

(* A request that ends takes nothing along.                                *)
LEMMA HubFinish ==
  ASSUME HubInv, NEW p \in Workers, H!Finish(p), UNCHANGED <<server, snapshot, granted, overlapped>>
  PROVE  HubInv'
BY HubIdle, HubLeaves DEF H!Finish

(* A request that begins has read nothing yet.                             *)
LEMMA HubStarts ==
  ASSUME HubInv, NEW p \in Workers, H!StartRegister(p) \/ H!StartResolve(p)
  PROVE  HubInv'
<1>1. CASE H!StartRegister(p)
  <2>1. PICK s \in H!Scopes, n \in ServerNames, c \in Configs :
          /\ mcpTask' = [mcpTask EXCEPT ![p] = [H!Idle EXCEPT !.at = "read", !.namespace = s,
                                      !.scope = s, !.name = n, !.config = c, !.kind = "register"]]
          /\ UNCHANGED <<server, snapshot, granted, overlapped>>
    BY <1>1 DEF H!StartRegister
  <2>2. PICK t : t = [H!Idle EXCEPT !.at = "read", !.namespace = s,
                                      !.scope = s, !.name = n, !.config = c, !.kind = "register"]
    OBVIOUS
  <2>3. t = [at |-> "read", namespace |-> s, scope |-> s, name |-> n, config |-> c,
             row |-> H!NoServer, kind |-> "register"]
    BY <2>2 DEF H!Idle
  <2>4. t \in H!Task /\ Shaped(t)
    BY <2>3 DEF H!Task, H!Steps, Shaped, H!NoServer, H!ServerRow
  <2>. QED BY <2>1, <2>2, <2>3, <2>4, HubLeaves
<1>2. CASE H!StartResolve(p)
  <2>1. PICK s \in Namespaces, n \in ServerNames :
          /\ mcpTask' = [mcpTask EXCEPT ![p] = [H!Idle EXCEPT !.at = "own", !.namespace = s,
                                      !.scope = s, !.name = n, !.kind = "resolve"]]
          /\ UNCHANGED <<server, snapshot, granted, overlapped>>
    BY <1>2 DEF H!StartResolve
  <2>2. PICK t : t = [H!Idle EXCEPT !.at = "own", !.namespace = s,
                                      !.scope = s, !.name = n, !.kind = "resolve"]
    OBVIOUS
  <2>3. t = [at |-> "own", namespace |-> s, scope |-> s, name |-> n, config |-> None,
             row |-> H!NoServer, kind |-> "resolve"]
    BY <2>2 DEF H!Idle
  <2>4. t \in H!Task /\ Shaped(t)
    BY <2>3 DEF H!Task, H!Steps, H!Scopes, Shaped, H!NoServer, H!ServerRow
  <2>. QED BY <2>1, <2>2, <2>3, <2>4, HubLeaves
<1>. QED BY <1>1, <1>2

(* A request that reads a document: what it goes on with is the document, and no
   registration is about to write it as well, or the server is contested.  *)
LEMMA HubReads ==
  ASSUME HubInv, NEW p \in Workers, NEW t \in H!Task, Shaped(t), mcpTask' = [mcpTask EXCEPT ![p] = t],
         UNCHANGED <<server, snapshot, granted>>, t.row = server[t.scope][t.name],
         t.name \in ServerNames,
         IF H!Legacy(t.row) THEN t.at = "migrate" ELSE
           t.at = "write" \/ (t.at = "grant" /\ t.row.status # "none"),
         overlapped \subseteq overlapped',
         t.at # "grant" /\ <<t.scope, t.name>> \notin overlapped' =>
           \A q \in Workers : q # p /\ Writes(mcpTask[q], t.scope, t.name) =>
             t.kind # "register" /\ mcpTask[q].kind # "register"
  PROVE  HubInv'
<1>1. granted' \in SUBSET Spoken /\ snapshot' \in SUBSET Spoken
  BY DEF HubInv, HubTyped
<1>2. \A s, n, v, c : Said(s, n, v, c)' => Says(s, n, v, c)
  BY DEF Said, Says
<1>3. ASSUME NEW s \in H!Scopes, NEW n \in ServerNames, <<s, n>> \notin overlapped'
      PROVE  /\ \A v, c : Gives(t, s, n, v, c) => Says(s, n, v, c) \/ DocSays(server[s][n], v, c)
             /\ UpToDate(t, s, n, server[s][n])
             /\ \A q \in Workers : q # p /\ Writes(t, s, n) /\ Writes(mcpTask[q], s, n) =>
                  t.kind # "register" /\ mcpTask[q].kind # "register"
  <2>1. CASE t.scope = s /\ t.name = n
    <3>1. t.row = server[s][n] /\ server[s][n].revision \in Nat
      BY <2>1, DocTyped DEF HubInv
    <3>2. \A v, c : Gives(t, s, n, v, c) => DocSays(server[s][n], v, c)
      BY <3>1 DEF Gives, DocSays, Rev, H!Legacy
    <3>3. server[s][n].status = "none" => server[s][n].revision = 0
      BY <1>3 DEF HubInv, Settled, Facts
    <3>4. UpToDate(t, s, n, server[s][n])
      BY <3>1, <3>3 DEF UpToDate, H!Legacy, Writes
    <3>5. \A q \in Workers : q # p /\ Writes(t, s, n) /\ Writes(mcpTask[q], s, n) =>
                  t.kind # "register" /\ mcpTask[q].kind # "register"
      BY <1>3, <2>1 DEF Writes
    <3>. QED BY <3>2, <3>4, <3>5
  <2>2. CASE ~(t.scope = s /\ t.name = n)
    BY <2>2 DEF Gives, UpToDate, Writes
  <2>. QED BY <2>1, <2>2
<1>. QED BY <1>1, <1>2, <1>3, HubQuiet

(* Reads, where it is used: of a registration and of the resolution of a grant. *)
LEMMA HubLooks ==
  ASSUME HubInv, NEW p \in Workers, NEW s \in H!Scopes, NEW step, H!Reads(p, s, step),
         UNCHANGED <<server, snapshot, granted>>,
         \/ mcpTask[p].at = "read" /\ step = "write"
         \/ /\ mcpTask[p].at \in {"own", "official"} /\ step = "grant"
            /\ server[s][mcpTask[p].name].status = "live"
  PROVE  HubInv'
<1>1. PICK u : u = mcpTask[p]
  OBVIOUS
<1>2. u \in H!Task /\ Shaped(u)
  BY <1>1 DEF HubInv, HubTyped
<1>3. u.name \in ServerNames
  BY <1>1, <1>2 DEF Shaped
<1>4. PICK row : row = server[s][u.name]
  OBVIOUS
<1>5. row \in H!ServerRow
  BY <1>3, <1>4, DocTyped DEF HubInv
<1>6. PICK goes : goes = IF H!Legacy(row) THEN "migrate" ELSE step
  OBVIOUS
<1>7. PICK t : t = [u EXCEPT !.at = goes, !.scope = s, !.row = row]
  OBVIOUS
<1>8. goes \in {"migrate", "write", "grant"}
  BY <1>6
<1>9. /\ t \in H!Task /\ t.at = goes /\ t.scope = s /\ t.row = row /\ t.name = u.name /\ t.kind = u.kind
  BY <1>2, <1>5, <1>7, <1>8 DEF H!Task, H!Steps
<1>10. Shaped(t)
  BY <1>1, <1>2, <1>3, <1>6, <1>9 DEF Shaped
<1>11. mcpTask' = [mcpTask EXCEPT ![p] = t]
  BY <1>1, <1>4, <1>6, <1>7 DEF H!Reads
<1>12. overlapped' = IF goes \in {"migrate", "write"} /\
            {q \in H!Writers(p, s, u.name) : "register" \in {u.kind, mcpTask[q].kind}} # {}
            THEN overlapped \cup {<<s, u.name>>} ELSE overlapped
  BY <1>1, <1>4, <1>6 DEF H!Reads
<1>13. \A q \in Workers : q # p /\ Writes(mcpTask[q], s, u.name) => q \in H!Writers(p, s, u.name)
  BY DEF Writes, H!Writers
<1>14. overlapped \subseteq overlapped'
  BY <1>12
<1>15. t.at # "grant" /\ <<t.scope, t.name>> \notin overlapped' =>
           \A q \in Workers : q # p /\ Writes(mcpTask[q], t.scope, t.name) =>
             t.kind # "register" /\ mcpTask[q].kind # "register"
  BY <1>8, <1>9, <1>12, <1>13
<1>16. IF H!Legacy(t.row) THEN t.at = "migrate" ELSE
           t.at = "write" \/ (t.at = "grant" /\ t.row.status # "none")
  BY <1>1, <1>4, <1>6, <1>9
<1>. QED BY <1>3, <1>4, <1>9, <1>10, <1>11, <1>14, <1>15, <1>16, HubReads

(* The requests that read: a registration, and the resolution of a grant.  *)
LEMMA HubReadsServer ==
  ASSUME HubInv, NEW p \in Workers, H!ReadServer(p) \/ H!ReadGranted(p)
  PROVE  HubInv'
<1>0. mcpTask[p] \in H!Task
  BY DEF HubInv, HubTyped
<1>1. CASE H!ReadServer(p)
  <2>1. PICK s : s = mcpTask[p].scope
    OBVIOUS
  <2>2. s \in H!Scopes /\ mcpTask[p].at = "read" /\ H!Reads(p, s, "write") /\ UNCHANGED <<server, snapshot, granted>>
    BY <1>0, <1>1, <2>1 DEF H!ReadServer, H!At, H!Task
  <2>. QED BY <2>2, HubLooks
<1>2. CASE H!ReadGranted(p)
  <2>1. PICK step \in {"own", "official"}, s \in H!Scopes :
          /\ mcpTask[p].at = step /\ UNCHANGED <<server, snapshot, granted>>
          /\ \/ server[s][mcpTask[p].name].status = "live" /\ H!Reads(p, s, "grant")
             \/ H!Finish(p) /\ UNCHANGED overlapped
             \/ mcpTask' = [mcpTask EXCEPT ![p].at = "official"] /\ step = "own" /\ UNCHANGED overlapped
    <3>1. PICK step \in {"own", "official"} :
            LET scope == IF step = "own" THEN mcpTask[p].namespace ELSE Official
            IN  /\ mcpTask[p].at = step /\ UNCHANGED <<server, snapshot, granted>>
                /\ \/ server[scope][mcpTask[p].name].status = "live" /\ H!Reads(p, scope, "grant")
                   \/ H!Finish(p) /\ UNCHANGED overlapped
                   \/ /\ IF step = "own" THEN mcpTask' = [mcpTask EXCEPT ![p].at = "official"] ELSE H!Finish(p)
                      /\ UNCHANGED overlapped
      BY <1>2 DEF H!ReadGranted, H!At
    <3>2. PICK scope : scope = IF step = "own" THEN mcpTask[p].namespace ELSE Official
      OBVIOUS
    <3>3. scope \in H!Scopes
      BY <1>0, <3>2 DEF H!Task, H!Scopes
    <3>4. /\ mcpTask[p].at = step /\ UNCHANGED <<server, snapshot, granted>>
          /\ \/ server[scope][mcpTask[p].name].status = "live" /\ H!Reads(p, scope, "grant")
             \/ H!Finish(p) /\ UNCHANGED overlapped
             \/ mcpTask' = [mcpTask EXCEPT ![p].at = "official"] /\ step = "own" /\ UNCHANGED overlapped
      BY <3>1, <3>2
    <3>. QED BY <3>3, <3>4
  <2>2. CASE server[s][mcpTask[p].name].status = "live" /\ H!Reads(p, s, "grant")
    BY <2>1, <2>2, HubLooks
  <2>3. CASE H!Finish(p) /\ UNCHANGED overlapped
    BY <2>1, <2>3, HubFinish
  <2>4. CASE mcpTask' = [mcpTask EXCEPT ![p].at = "official"] /\ step = "own" /\ UNCHANGED overlapped
    <3>1. PICK t : t = [mcpTask[p] EXCEPT !.at = "official"]
      OBVIOUS
    <3>2. t \in H!Task /\ t.at = "official" /\ t.name = mcpTask[p].name /\ t.kind = mcpTask[p].kind
      BY <1>0, <3>1 DEF H!Task, H!Steps
    <3>3. Shaped(mcpTask[p]) /\ mcpTask[p].at = "own"
      BY <2>1, <2>4 DEF HubInv
    <3>4. Shaped(t)
      BY <3>2, <3>3 DEF Shaped
    <3>. QED BY <2>1, <2>4, <3>1, <3>2, <3>4, HubLeaves
  <2>. QED BY <2>1, <2>2, <2>3, <2>4
<1>. QED BY <1>1, <1>2

(* Whoever else reads a document without revision goes on to migrate it.   *)
LEMMA HubViews ==
  ASSUME HubInv, NEW p \in Workers, NEW s \in H!Scopes, NEW n \in ServerNames, H!Views(p, s, n)
  PROVE  HubInv'
<1>1. PICK row : row = server[s][n] /\ row \in H!ServerRow
  BY DocTyped DEF HubInv
<1>2. PICK t : t = [H!Idle EXCEPT !.at = "migrate", !.namespace = s, !.scope = s, !.name = n, !.row = row, !.kind = "view"]
  OBVIOUS
<1>3. mcpTask' = [mcpTask EXCEPT ![p] = t] /\ H!Legacy(row) /\ UNCHANGED <<server, snapshot, granted>>
      /\ overlapped' = IF \E q \in H!Writers(p, s, n) : mcpTask[q].kind = "register"
                       THEN overlapped \cup {<<s, n>>} ELSE overlapped
  BY <1>1, <1>2 DEF H!Views
<1>4. t = [at |-> "migrate", namespace |-> s, scope |-> s, name |-> n, config |-> None,
           row |-> row, kind |-> "view"]
  BY <1>2 DEF H!Idle
<1>5. t \in H!Task /\ Shaped(t)
  BY <1>1, <1>4 DEF H!Task, H!Steps, Shaped
<1>6. \A q \in Workers : q # p /\ Writes(mcpTask[q], s, n) => q \in H!Writers(p, s, n)
  BY DEF Writes, H!Writers
<1>. QED BY <1>1, <1>3, <1>4, <1>5, <1>6, HubReads

(* A row of a snapshot is of what the document says.                       *)
LEMMA HubAppends ==
  ASSUME HubInv, NEW p \in Workers, H!Migrate(p) \/ H!AppendSnapshot(p)
  PROVE  HubInv'
<1>. USE HubIdle
<1>1. PICK u : u = mcpTask[p]
  OBVIOUS
<1>2. u \in H!Task /\ Shaped(u)
  BY <1>1 DEF HubInv, HubTyped
<1>3. PICK revision \in Nat, config \in Configs \cup {None}, t \in H!Task :
        /\ snapshot' = H!Appended(H!Row(u.scope, u.name, revision, config))
        /\ mcpTask' = [mcpTask EXCEPT ![p] = t] /\ UNCHANGED <<server, granted, overlapped>>
        /\ Shaped(t) /\ u.name \in ServerNames
        /\ \/ /\ u.at = "migrate" /\ revision = 1 /\ config = u.row.config /\ t.at = "revise"
              /\ t.scope = u.scope /\ t.name = u.name /\ t.row = u.row /\ t.kind = u.kind
           \/ /\ u.at = "append" /\ revision = u.row.revision /\ config = u.config /\ t.at = "idle"
  <2>1. CASE H!Migrate(p)
    <3>1. PICK t : t = [u EXCEPT !.at = "revise"]
      OBVIOUS
    <3>2. /\ t \in H!Task /\ t.at = "revise" /\ t.scope = u.scope /\ t.name = u.name /\ t.row = u.row
          /\ t.kind = u.kind /\ u.row.config \in Configs \cup {None}
      BY <1>2, <3>1 DEF H!Task, H!Steps, H!ServerRow
    <3>3. u.at = "migrate"
      BY <1>1, <2>1 DEF H!Migrate, H!At
    <3>4. u.name \in ServerNames /\ Shaped(t)
      BY <1>2, <3>2, <3>3 DEF Shaped
    <3>5. /\ snapshot' = H!Appended(H!Row(u.scope, u.name, 1, u.row.config))
          /\ mcpTask' = [mcpTask EXCEPT ![p] = t] /\ UNCHANGED <<server, granted, overlapped>>
      BY <1>1, <2>1, <3>1 DEF H!Migrate
    <3>. QED BY <3>2, <3>3, <3>4, <3>5
  <2>2. CASE H!AppendSnapshot(p)
    <3>1. u.row.revision \in Nat /\ u.config \in Configs \cup {None}
      BY <1>2 DEF H!Task, H!ServerRow
    <3>2. u.at = "append"
      BY <1>1, <2>2 DEF H!AppendSnapshot, H!At
    <3>3. u.name \in ServerNames
      BY <1>2, <3>2 DEF Shaped
    <3>4. /\ snapshot' = H!Appended(H!Row(u.scope, u.name, u.row.revision, u.config))
          /\ mcpTask' = [mcpTask EXCEPT ![p] = H!Idle] /\ UNCHANGED <<server, granted, overlapped>>
      BY <1>1, <2>2 DEF H!AppendSnapshot, H!Finish
    <3>. QED BY <3>1, <3>2, <3>3, <3>4
  <2>. QED BY <2>1, <2>2
<1>4. PICK row : row = H!Row(u.scope, u.name, revision, config)
  OBVIOUS
<1>5. row \in Spoken
  BY <1>2, <1>3, <1>4 DEF Spoken, H!Row, H!Task
<1>6. snapshot' \subseteq snapshot \cup {row}
  BY <1>3, <1>4 DEF H!Appended
<1>7. granted' \in SUBSET Spoken /\ snapshot' \in SUBSET Spoken
  BY <1>3, <1>5, <1>6 DEF HubInv, HubTyped
<1>8. ASSUME NEW s \in H!Scopes, NEW n \in ServerNames, <<s, n>> \notin overlapped'
      PROVE  /\ \A v, c : Gives(t, s, n, v, c) => Says(s, n, v, c) \/ DocSays(server[s][n], v, c)
             /\ \A v, c : Said(s, n, v, c)' => Says(s, n, v, c) \/ DocSays(server[s][n], v, c)
             /\ UpToDate(t, s, n, server[s][n])
             /\ \A q \in Workers : q # p /\ Writes(t, s, n) /\ Writes(mcpTask[q], s, n) =>
                  t.kind # "register" /\ mcpTask[q].kind # "register"
  <2>1. Settled(s, n)
    BY <1>3, <1>8 DEF HubInv
  <2>2. UpToDate(u, s, n, server[s][n])
    BY <1>1, <2>1 DEF Settled
  <2>3. Writes(t, s, n) => Writes(u, s, n) /\ t.kind = u.kind
    BY <1>3 DEF Writes
  <2>4. UpToDate(t, s, n, server[s][n])
    BY <1>3, <2>2, <2>3 DEF UpToDate, Writes
  <2>5. \A q \in Workers : q # p /\ Writes(t, s, n) /\ Writes(mcpTask[q], s, n) =>
                  t.kind # "register" /\ mcpTask[q].kind # "register"
    BY <1>1, <2>1, <2>3 DEF Settled, Alone
  <2>6. ASSUME NEW v, NEW c, Said(s, n, v, c)' PROVE Says(s, n, v, c) \/ DocSays(server[s][n], v, c)
    <3>1. H!Row(s, n, v, c) \in granted \cup snapshot \/ H!Row(s, n, v, c) = row
      BY <1>3, <1>6, <2>6 DEF Said, H!Row
    <3>2. CASE H!Row(s, n, v, c) = row
      <4>1. s = u.scope /\ n = u.name /\ v = revision /\ c = config
        BY <1>4, <3>2 DEF H!Row
      <4>2. Writes(u, s, n)
        BY <1>3, <4>1 DEF Writes
      <4>. QED BY <1>3, <2>2, <4>1, <4>2 DEF UpToDate, DocSays, Rev
    <3>. QED BY <3>1, <3>2 DEF Says, Said
  <2>7. \A v, c : ~Gives(t, s, n, v, c)
    BY <1>3 DEF Gives
  <2>. QED BY <2>4, <2>5, <2>6, <2>7
<1>9. overlapped \subseteq overlapped' /\ UNCHANGED server
  BY <1>3
<1>. QED BY <1>3, <1>7, <1>8, <1>9, HubQuiet

(* The grant that is given is the one that was about to be.                *)
LEMMA HubGives ==
  ASSUME HubInv, NEW p \in Workers, H!GiveGrant(p)
  PROVE  HubInv'
<1>1. PICK u : u = mcpTask[p]
  OBVIOUS
<1>2. u \in H!Task /\ Shaped(u)
  BY <1>1 DEF HubInv, HubTyped
<1>3. PICK row : row = H!Row(u.scope, u.name, u.row.revision, u.row.config)
  OBVIOUS
<1>4. /\ u.at = "grant" /\ granted' = granted \cup {row}
      /\ mcpTask' = [mcpTask EXCEPT ![p] = H!Idle] /\ UNCHANGED <<server, snapshot, overlapped>>
  BY <1>1, <1>3 DEF H!GiveGrant, H!Finish, H!At
<1>5. row \in Spoken
  BY <1>2, <1>3, <1>4 DEF Spoken, H!Row, H!Task, H!ServerRow, Shaped
<1>6. granted' \in SUBSET Spoken /\ snapshot' \in SUBSET Spoken
  BY <1>4, <1>5 DEF HubInv, HubTyped
<1>7. ASSUME NEW s, NEW n, NEW v, NEW c, Said(s, n, v, c)' PROVE Says(s, n, v, c)
  <2>1. CASE H!Row(s, n, v, c) = row
    <3>1. Gives(u, s, n, v, c)
      BY <1>3, <1>4, <2>1 DEF H!Row, Gives
    <3>. QED BY <1>1, <3>1 DEF Says
  <2>2. H!Row(s, n, v, c) \in granted \cup snapshot \/ H!Row(s, n, v, c) = row
    BY <1>4, <1>7 DEF Said, H!Row
  <2>. QED BY <2>1, <2>2 DEF Says, Said
<1>8. \A s, n, v, c : ~Gives(H!Idle, s, n, v, c)
  BY HubIdle DEF Gives
<1>9. \A s, n : ~Writes(H!Idle, s, n) /\ UpToDate(H!Idle, s, n, server[s][n])
  BY HubIdle DEF Writes, UpToDate
<1>10. overlapped \subseteq overlapped' /\ UNCHANGED server
  BY <1>4
<1>. QED BY <1>4, <1>6, <1>7, <1>8, <1>9, <1>10, HubIdle, HubQuiet

(* A step that writes one document: the others stay as they are.           *)
LEMMA HubWrites ==
  ASSUME HubInv, NEW p \in Workers, NEW u, u = mcpTask[p], NEW t \in H!Task, Shaped(t),
         mcpTask' = [mcpTask EXCEPT ![p] = t],
         t.at \in {"idle", "grant", "write", "append"}, t.at # "idle" => t.scope = u.scope /\ t.name = u.name,
         u.scope \in H!Scopes, u.name \in ServerNames, NEW d \in H!ServerRow,
         server' = [server EXCEPT ![u.scope][u.name] = d], UNCHANGED <<snapshot, granted, overlapped>>,
         <<u.scope, u.name>> \notin overlapped => Settled(u.scope, u.name)'
  PROVE  HubInv'
<1>1. mcpTask' \in [Workers -> H!Task] /\ \A q \in Workers : mcpTask'[q] = mcpTask[q] \/ (q = p /\ mcpTask'[q] = t)
  BY DEF HubInv, HubTyped
<1>2. /\ server' \in [H!Scopes -> [ServerNames -> H!ServerRow]]
      /\ \A s \in H!Scopes, n \in ServerNames : s # u.scope \/ n # u.name => server'[s][n] = server[s][n]
  BY DEF HubInv, HubTyped
<1>3. HubTyped'
  BY <1>1, <1>2 DEF HubInv, HubTyped
<1>4. ASSUME NEW q \in Workers PROVE Shaped(mcpTask[q])'
  <2>1. PICK w : w = mcpTask'[q]
    OBVIOUS
  <2>2. Shaped(w)
    BY <1>1, <2>1 DEF HubInv
  <2>. QED BY <2>1, <2>2 DEF Shaped
<1>5. ASSUME NEW s \in H!Scopes, NEW n \in ServerNames, <<s, n>> \notin overlapped', s # u.scope \/ n # u.name
      PROVE  Settled(s, n)'
  <2>1. Settled(s, n)
    BY <1>5 DEF HubInv
  <2>2. Steady(server[s][n], server'[s][n])
    BY <1>2, <1>5 DEF Steady
  <2>3. server[s][n].revision \in Nat /\ HubTyped
    BY DocTyped DEF HubInv
  <2>4. \A v, c : ~Gives(t, s, n, v, c)
    BY <1>5 DEF Gives
  <2>5. ~Writes(t, s, n) /\ UpToDate(t, s, n, server[s][n])
    BY <1>5 DEF Writes, UpToDate
  <2>6. \A v, c : Said(s, n, v, c)' => Says(s, n, v, c)
    BY DEF Said, Says
  <2>. QED BY <1>1, <2>1, <2>2, <2>3, <2>4, <2>5, <2>6, StaySettled
<1>6. ASSUME NEW s \in H!Scopes, NEW n \in ServerNames, <<s, n>> \notin overlapped' PROVE Settled(s, n)'
  BY <1>5, <1>6
<1>. QED BY <1>3, <1>4, <1>6 DEF HubInv

(* The number that a migration gives a document.                           *)
LEMMA HubRevises ==
  ASSUME HubInv, NEW p \in Workers, H!Revise(p)
  PROVE  HubInv'
<1>. USE HubIdle
<1>1. PICK u : u = mcpTask[p]
  OBVIOUS
<1>2. u \in H!Task /\ Shaped(u) /\ u.at = "revise"
  BY <1>1 DEF HubInv, HubTyped, H!Revise, H!At
<1>3. u.name \in ServerNames /\ u.scope \in H!Scopes
  BY <1>2 DEF Shaped, H!Task
<1>4. PICK s, n : s = u.scope /\ n = u.name
  OBVIOUS
<1>5. PICK doc : doc = server[s][n]
  OBVIOUS
<1>6. doc \in H!ServerRow
  BY <1>3, <1>4, <1>5, DocTyped DEF HubInv
<1>7. PICK d : d = [doc EXCEPT !.revision = 1]
  OBVIOUS
<1>8. d \in H!ServerRow /\ d.revision = 1 /\ d.status = doc.status /\ d.config = doc.config
  BY <1>6, <1>7 DEF H!ServerRow
<1>9. server' = [server EXCEPT ![s][n] = d] /\ UNCHANGED <<snapshot, granted, overlapped>>
  BY <1>1, <1>4, <1>5, <1>7 DEF H!Revise, H!SetDoc, H!Doc
<1>10. PICK t \in H!Task :
         /\ mcpTask' = [mcpTask EXCEPT ![p] = t] /\ Shaped(t) /\ t.at \in {"idle", "grant", "write"}
         /\ t.at # "idle" => /\ t.scope = s /\ t.name = n /\ t.kind = u.kind /\ t.row.revision = 1
                             /\ t.row.status = u.row.status /\ t.row.config = u.row.config
  <2>1. CASE u.kind \in {"register", "resolve"}
              /\ mcpTask' = [mcpTask EXCEPT ![p].row.revision = 1,
                     ![p].at = IF u.kind = "register" THEN "write" ELSE "grant"]
    <3>1. PICK step \in {"write", "grant"} : step = IF u.kind = "register" THEN "write" ELSE "grant"
      OBVIOUS
    <3>2. u.row \in H!ServerRow
      BY <1>2 DEF H!Task
    <3>3. PICK row : row = [u.row EXCEPT !.revision = 1]
      OBVIOUS
    <3>4. row \in H!ServerRow /\ row.revision = 1 /\ row.status = u.row.status /\ row.config = u.row.config
      BY <3>2, <3>3 DEF H!ServerRow
    <3>5. PICK t : t = [u EXCEPT !.row = row, !.at = step]
      OBVIOUS
    <3>6. t \in H!Task /\ t.row = row /\ t.at = step /\ t.scope = u.scope /\ t.name = u.name /\ t.kind = u.kind
      BY <1>2, <3>4, <3>5 DEF H!Task, H!Steps
    <3>7. mcpTask' = [mcpTask EXCEPT ![p] = t]
      <4>1. mcpTask \in [Workers -> H!Task]
        BY DEF HubInv, HubTyped
      <4>. QED BY <1>1, <2>1, <3>1, <3>3, <3>5, <4>1
    <3>8. Shaped(t)
      BY <1>3, <2>1, <3>1, <3>6 DEF Shaped
    <3>. QED BY <1>4, <3>4, <3>6, <3>7, <3>8
  <2>2. CASE H!Finish(p)
    BY <2>2 DEF H!Finish
  <2>. QED BY <1>1, <2>1, <2>2 DEF H!Revise
<1>11. ASSUME <<s, n>> \notin overlapped PROVE Settled(s, n)'
  <2>1. Settled(s, n)
    BY <1>3, <1>4, <1>11 DEF HubInv
  <2>2. Writes(u, s, n) /\ UpToDate(u, s, n, doc)
    BY <1>1, <1>2, <1>4, <1>5, <2>1 DEF Writes, Settled
  <2>3. /\ u.row.status # "none" /\ u.row.config = doc.config
        /\ doc.status # "none" /\ doc.revision \in {0, 1}
    BY <1>2, <2>2 DEF UpToDate
  <2>4. server'[s][n] = d
    BY <1>3, <1>4, <1>9 DEF HubInv, HubTyped
  <2>5. Rev(d) = 1 /\ Rev(doc) = 1
    BY <1>8, <2>3 DEF Rev
  <2>6. \A q \in Workers : mcpTask'[q] = mcpTask[q] \/ (q = p /\ mcpTask'[q] = t)
    BY <1>10 DEF HubInv, HubTyped
  <2>7. mcpTask'[p] = t
    BY <1>10 DEF HubInv, HubTyped
  <2>8. ASSUME NEW v, NEW c, Says(s, n, v, c)' PROVE Says(s, n, v, c) \/ (v = 1 /\ c = doc.config)
    <3>1. CASE Said(s, n, v, c)'
      BY <1>9, <3>1 DEF Says, Said, H!Row
    <3>2. ASSUME NEW q \in Workers, Gives(mcpTask[q], s, n, v, c)' PROVE Says(s, n, v, c) \/ (v = 1 /\ c = doc.config)
      <4>1. PICK w : w = mcpTask'[q]
        OBVIOUS
      <4>2. Gives(w, s, n, v, c)
        BY <3>2, <4>1 DEF Gives
      <4>3. CASE w = mcpTask[q]
        BY <4>2, <4>3 DEF Says
      <4>4. CASE w = t
        BY <1>10, <2>3, <4>2, <4>4 DEF Gives
      <4>. QED BY <2>6, <4>1, <4>3, <4>4
    <3>. QED BY <2>8, <3>1, <3>2 DEF Says
  <2>9. /\ \A v, c : Says(s, n, v, c) => v \in Nat /\ v <= 1 /\ (v = 1 => c = doc.config)
        /\ \A v, c, e : Says(s, n, v, c) /\ Says(s, n, v, e) => c = e
    BY <1>5, <2>1, <2>5 DEF Settled, Facts
  <2>10. Facts(s, n)'
    <3>1. \A v, c : Says(s, n, v, c)' => v \in Nat /\ v <= 1 /\ (v = 1 => c = doc.config)
      BY <2>8, <2>9
    <3>2. \A v, c, e : Says(s, n, v, c)' /\ Says(s, n, v, e)' => c = e
      BY <2>8, <2>9
    <3>. QED BY <1>8, <2>3, <2>4, <2>5, <3>1, <3>2 DEF Facts, Rev
  <2>11. \A q \in Workers : q # p /\ Writes(mcpTask[q], s, n) => mcpTask[q].at \in {"migrate", "revise"}
    <3>1. ASSUME NEW q \in Workers, q # p, Writes(mcpTask[q], s, n) PROVE mcpTask[q].kind # "register"
      BY <1>1, <2>1, <2>2, <3>1 DEF Settled, Alone
    <3>2. \A q \in Workers : Shaped(mcpTask[q])
      BY DEF HubInv
    <3>. QED BY <3>1, <3>2 DEF Shaped, Writes
  <2>12. u.kind = "register" => \A q \in Workers : q # p => ~Writes(mcpTask[q], s, n)
    BY <1>1, <2>1, <2>2 DEF Settled, Alone
  <2>13. Alone(s, n)'
    <3>1. ASSUME NEW q \in Workers, NEW r \in Workers, q # r, Writes(mcpTask[q], s, n)', Writes(mcpTask[r], s, n)'
          PROVE  mcpTask'[q].kind # "register"
      <4>1. PICK w, x : w = mcpTask'[q] /\ x = mcpTask'[r]
        OBVIOUS
      <4>2. Writes(w, s, n) /\ Writes(x, s, n)
        BY <3>1, <4>1 DEF Writes
      <4>3. CASE w = mcpTask[q] /\ x = mcpTask[r]
        BY <2>1, <3>1, <4>1, <4>2, <4>3 DEF Settled, Alone
      <4>4. CASE (q = p /\ w = t) \/ (r = p /\ x = t)
        <5>1. Writes(t, s, n) => u.kind = "register"
          BY <1>10 DEF Writes, Shaped
        <5>. QED BY <2>6, <2>12, <3>1, <4>1, <4>2, <4>4, <5>1
      <4>. QED BY <2>6, <4>1, <4>3, <4>4
    <3>. QED BY <3>1 DEF Alone
  <2>14. ASSUME NEW q \in Workers PROVE UpToDate(mcpTask[q], s, n, server[s][n])'
    <3>1. PICK w : w = mcpTask'[q]
      OBVIOUS
    <3>2. UpToDate(w, s, n, d)
      <4>1. CASE w = mcpTask[q] /\ q # p
        <5>1. UpToDate(w, s, n, doc)
          BY <1>5, <2>1, <4>1 DEF Settled
        <5>. QED BY <1>8, <2>11, <4>1, <5>1 DEF UpToDate
      <4>2. CASE q = p /\ w = t
        BY <1>8, <1>10, <2>3, <4>2 DEF UpToDate, Writes
      <4>. QED BY <2>6, <2>7, <3>1, <4>1, <4>2
    <3>. QED BY <2>4, <3>1, <3>2 DEF UpToDate, Writes
  <2>. QED BY <2>10, <2>13, <2>14 DEF Settled
<1>. QED BY <1>1, <1>3, <1>4, <1>8, <1>9, <1>10, <1>11, HubWrites

(* The configuration that a registration writes: of the revision that was read if it is
   the same, or else of the next.                                          *)
LEMMA HubRegisters ==
  ASSUME HubInv, NEW p \in Workers, H!WriteServer(p)
  PROVE  HubInv'
<1>1. PICK u : u = mcpTask[p]
  OBVIOUS
<1>2. u \in H!Task /\ Shaped(u) /\ u.at = "write" /\ u.kind = "register"
  BY <1>1 DEF HubInv, HubTyped, H!WriteServer, H!At, Shaped
<1>3. u.name \in ServerNames /\ u.scope \in H!Scopes
  BY <1>2 DEF Shaped, H!Task
<1>4. PICK s, n : s = u.scope /\ n = u.name
  OBVIOUS
<1>5. PICK doc : doc = server[s][n]
  OBVIOUS
<1>6. doc \in H!ServerRow
  BY <1>3, <1>4, <1>5, DocTyped DEF HubInv
<1>7. PICK revision : revision = H!NewRevision(p)
  OBVIOUS
<1>8. u.row \in H!ServerRow
  BY <1>2 DEF H!Task
<1>9. /\ revision = IF u.row.status # "none" /\ u.row.config = u.config
                    THEN u.row.revision ELSE u.row.revision + 1
      /\ revision \in Nat
  BY <1>1, <1>7, <1>8 DEF H!NewRevision, H!ServerRow
<1>10. PICK d : d = [doc EXCEPT !.status = "live", !.config = u.config, !.revision = revision]
  OBVIOUS
<1>11. d \in H!ServerRow /\ d.revision = revision /\ d.status = "live" /\ d.config = u.config
  BY <1>2, <1>6, <1>9, <1>10 DEF H!ServerRow, H!Task
<1>12. server' = [server EXCEPT ![s][n] = d] /\ UNCHANGED <<snapshot, granted, overlapped>>
  BY <1>1, <1>4, <1>5, <1>7, <1>10 DEF H!WriteServer, H!SetDoc, H!Doc
<1>13. PICK t \in H!Task :
         /\ mcpTask' = [mcpTask EXCEPT ![p] = t] /\ Shaped(t) /\ t.at = "append"
         /\ t.scope = s /\ t.name = n /\ t.kind = "register" /\ t.row.revision = revision /\ t.config = u.config
  <2>1. PICK row : row = [u.row EXCEPT !.revision = revision]
    OBVIOUS
  <2>2. row \in H!ServerRow /\ row.revision = revision
    BY <1>8, <1>9, <2>1 DEF H!ServerRow
  <2>3. PICK t : t = [u EXCEPT !.at = "append", !.row = row]
    OBVIOUS
  <2>4. /\ t \in H!Task /\ t.row = row /\ t.at = "append" /\ t.scope = u.scope /\ t.name = u.name
        /\ t.kind = u.kind /\ t.config = u.config
    BY <1>2, <2>2, <2>3 DEF H!Task, H!Steps
  <2>5. mcpTask' = [mcpTask EXCEPT ![p] = t]
    <3>1. mcpTask \in [Workers -> H!Task]
      BY DEF HubInv, HubTyped
    <3>. QED BY <1>1, <1>7, <2>1, <2>3, <3>1 DEF H!WriteServer
  <2>6. Shaped(t)
    BY <1>2, <1>3, <2>4 DEF Shaped
  <2>. QED BY <1>2, <1>4, <2>2, <2>4, <2>5, <2>6
<1>14. ASSUME <<s, n>> \notin overlapped PROVE Settled(s, n)'
  <2>1. Settled(s, n)
    BY <1>3, <1>4, <1>14 DEF HubInv
  <2>2. Writes(u, s, n) /\ UpToDate(u, s, n, doc)
    BY <1>1, <1>2, <1>4, <1>5, <2>1 DEF Writes, Settled
  <2>3. /\ u.row.revision = doc.revision /\ u.row.config = doc.config
        /\ (u.row.status = "none" <=> doc.status = "none")
        /\ (u.row.status # "none" => u.row.revision # 0)
    BY <1>2, <2>2 DEF UpToDate
  <2>4. server'[s][n] = d
    BY <1>3, <1>4, <1>12 DEF HubInv, HubTyped
  <2>5. \A q \in Workers : q # p => ~Writes(mcpTask[q], s, n)
    BY <1>1, <1>2, <2>1, <2>2 DEF Settled, Alone
  <2>6. mcpTask'[p] = t /\ \A q \in Workers : q # p => mcpTask'[q] = mcpTask[q]
    BY <1>13 DEF HubInv, HubTyped
  <2>7. ASSUME NEW v, NEW c, Says(s, n, v, c)' PROVE Says(s, n, v, c)
    <3>1. CASE Said(s, n, v, c)'
      BY <1>12, <3>1 DEF Says, Said, H!Row
    <3>2. ASSUME NEW q \in Workers, Gives(mcpTask[q], s, n, v, c)' PROVE Says(s, n, v, c)
      <4>1. PICK w : w = mcpTask'[q]
        OBVIOUS
      <4>2. Gives(w, s, n, v, c)
        BY <3>2, <4>1 DEF Gives
      <4>3. w = mcpTask[q]
        BY <1>13, <2>6, <4>1, <4>2 DEF Gives
      <4>. QED BY <4>2, <4>3 DEF Says
    <3>. QED BY <2>7, <3>1, <3>2 DEF Says
  <2>8. /\ \A v, c : Says(s, n, v, c) =>
             doc.status # "none" /\ v \in Nat /\ v <= Rev(doc) /\ (v = Rev(doc) => c = doc.config)
        /\ \A v, c, e : Says(s, n, v, c) /\ Says(s, n, v, e) => c = e
        /\ doc.status = "none" => doc.revision = 0
    BY <1>5, <2>1 DEF Settled, Facts
  <2>9. revision # 0 /\ Rev(d) = revision
    BY <1>6, <1>9, <1>11, <2>3 DEF Rev, H!ServerRow
  <2>10. \A v, c : Says(s, n, v, c) => v \in Nat /\ v <= revision /\ (v = revision => c = u.config)
    <3>1. CASE doc.status = "none"
      BY <2>8, <3>1
    <3>2. CASE doc.status # "none"
      <4>1. Rev(doc) = doc.revision /\ doc.revision \in Nat
        BY <1>6, <2>3, <3>2 DEF Rev, H!ServerRow
      <4>2. (revision = doc.revision /\ u.config = doc.config) \/ revision = doc.revision + 1
        BY <1>9, <2>3
      <4>. QED BY <2>8, <4>1, <4>2
    <3>. QED BY <3>1, <3>2
  <2>11. Facts(s, n)'
    <3>1. \A v, c : Says(s, n, v, c)' => v \in Nat /\ v <= revision /\ (v = revision => c = u.config)
      BY <2>7, <2>10
    <3>2. \A v, c, e : Says(s, n, v, c)' /\ Says(s, n, v, e)' => c = e
      BY <2>7, <2>8
    <3>. QED BY <1>11, <2>4, <2>9, <3>1, <3>2 DEF Facts, Rev
  <2>12. \A q \in Workers : q # p => ~Writes(mcpTask[q], s, n)'
    BY <2>5, <2>6 DEF Writes
  <2>13. Alone(s, n)'
    BY <2>12 DEF Alone
  <2>14. ASSUME NEW q \in Workers PROVE UpToDate(mcpTask[q], s, n, server[s][n])'
    <3>1. CASE q # p
      BY <2>12, <3>1 DEF UpToDate
    <3>2. CASE q = p
      <4>1. UpToDate(t, s, n, d)
        BY <1>11, <1>13, <2>9 DEF UpToDate
      <4>. QED BY <2>4, <2>6, <3>2, <4>1 DEF UpToDate, Writes
    <3>. QED BY <3>1, <3>2
  <2>. QED BY <2>11, <2>13, <2>14 DEF Settled
<1>. QED BY <1>1, <1>3, <1>4, <1>11, <1>12, <1>13, <1>14, HubWrites

(* An operator, or an owner of the namespace, deletes or switches a server. *)
LEMMA HubOperates ==
  ASSUME HubInv, NEW s \in H!Scopes, H!SetEnabled(s) \/ H!MarkDeleted(s)
  PROVE  HubInv'
<1>1. PICK n \in ServerNames, d \in H!ServerRow :
        /\ server' = [server EXCEPT ![s][n] = d] /\ UNCHANGED <<snapshot, mcpTask, granted, overlapped>>
        /\ Steady(server[s][n], d)
  <2>1. CASE H!SetEnabled(s)
    <3>1. PICK n \in ServerNames, enabled \in BOOLEAN :
            /\ server' = [server EXCEPT ![s][n].enabled = enabled]
            /\ UNCHANGED <<snapshot, mcpTask, granted, overlapped>>
      BY <2>1 DEF H!SetEnabled
    <3>2. PICK d : d = [server[s][n] EXCEPT !.enabled = enabled]
      OBVIOUS
    <3>3. server[s][n] \in H!ServerRow
      BY DocTyped DEF HubInv
    <3>4. d \in H!ServerRow /\ Steady(server[s][n], d)
      BY <3>2, <3>3 DEF H!ServerRow, Steady
    <3>. QED BY <3>1, <3>2, <3>4
  <2>2. CASE H!MarkDeleted(s)
    <3>1. PICK n \in ServerNames :
            /\ server[s][n].status # "none"
            /\ server' = [server EXCEPT ![s][n].status = "deleted"]
            /\ UNCHANGED <<snapshot, mcpTask, granted, overlapped>>
      BY <2>2 DEF H!MarkDeleted
    <3>2. PICK d : d = [server[s][n] EXCEPT !.status = "deleted"]
      OBVIOUS
    <3>3. server[s][n] \in H!ServerRow
      BY DocTyped DEF HubInv
    <3>4. d \in H!ServerRow /\ Steady(server[s][n], d)
      BY <3>1, <3>2, <3>3 DEF H!ServerRow, Steady
    <3>. QED BY <3>1, <3>2, <3>4
  <2>. QED BY <2>1, <2>2
<1>2. /\ server' \in [H!Scopes -> [ServerNames -> H!ServerRow]] /\ server'[s][n] = d
      /\ \A r \in H!Scopes, m \in ServerNames : r # s \/ m # n => server'[r][m] = server[r][m]
  BY <1>1 DEF HubInv, HubTyped
<1>3. HubTyped' /\ \A q \in Workers : Shaped(mcpTask[q])'
  BY <1>1, <1>2 DEF HubInv, HubTyped, Shaped
<1>4. ASSUME NEW r \in H!Scopes, NEW m \in ServerNames, <<r, m>> \notin overlapped' PROVE Settled(r, m)'
  <2>1. Settled(r, m)
    BY <1>1, <1>4 DEF HubInv
  <2>2. Steady(server[r][m], server'[r][m])
    BY <1>1, <1>2 DEF Steady
  <2>3. server[r][m].revision \in Nat /\ HubTyped
    BY DocTyped DEF HubInv
  <2>4. PICK t : t = H!Idle
    OBVIOUS
  <2>5. \A v, c : ~Gives(t, r, m, v, c)
    BY <2>4, HubIdle DEF Gives
  <2>6. ~Writes(t, r, m) /\ UpToDate(t, r, m, server[r][m])
    BY <2>4, HubIdle DEF Writes, UpToDate
  <2>7. \A v, c : Said(r, m, v, c)' => Says(r, m, v, c)
    BY <1>1 DEF Said, Says
  <2>. QED BY <1>1, <2>1, <2>2, <2>3, <2>5, <2>6, <2>7, StaySettled
<1>. QED BY <1>3, <1>4 DEF HubInv

(* Every step keeps what is said of servers in agreement.                  *)
LEMMA HubNext == ASSUME HubInv, [H!Next]_H!vars PROVE HubInv'
<1>1. CASE UNCHANGED H!vars
  <2>1. UNCHANGED <<server, snapshot, mcpTask, granted, overlapped>>
    BY <1>1 DEF H!vars
  <2>2. \A s, n, v, c : Says(s, n, v, c)' <=> Says(s, n, v, c)
    BY <2>1 DEF Says, Said, Gives
  <2>3. ASSUME NEW s, NEW n, Settled(s, n) PROVE Settled(s, n)'
    <3>1. Facts(s, n)'
      BY <2>1, <2>2, <2>3 DEF Settled, Facts
    <3>2. Alone(s, n)'
      BY <2>1, <2>3 DEF Settled, Alone, Writes
    <3>3. \A p \in Workers : UpToDate(mcpTask[p], s, n, server[s][n])'
      BY <2>1, <2>3 DEF Settled, UpToDate, Writes
    <3>. QED BY <3>1, <3>2, <3>3 DEF Settled
  <2>. QED BY <2>1, <2>3 DEF HubInv, HubTyped, Shaped
<1>2. ASSUME NEW p \in Workers, H!Register(p) PROVE HubInv'
  BY <1>2, HubStarts, HubReadsServer, HubAppends, HubRevises, HubRegisters DEF H!Register
<1>3. ASSUME NEW p \in Workers, H!Resolve(p) PROVE HubInv'
  BY <1>3, HubStarts, HubReadsServer, HubViews, HubGives DEF H!Resolve, H!StartList, H!StartAssemble
<1>4. ASSUME NEW p \in Workers, H!Throws(p) PROVE HubInv'
  BY <1>4, HubFinish DEF H!Throws
<1>5. CASE H!Operate \/ H!Manage
  BY <1>5, HubOperates DEF H!Operate, H!Manage, H!Scopes
<1>. QED BY <1>1, <1>2, <1>3, <1>4, <1>5 DEF H!Next

(* What is ever said of a revision of a server, by a grant or a snapshot, names one
   configuration, for any scopes, servers and requests at once, while no registration
   of the server overlaps another writer (McpServerRepository).            *)
THEOREM GrantsAgree == H!Spec => []GrantsResolve
<1>1. H!Init => HubInv
  <2>. SUFFICES ASSUME H!Init PROVE HubInv
    OBVIOUS
  <2>. USE HubIdle DEF H!Init
  <2>0. ASSUME NEW row \in {H!NoServer} \cup H!LegacyRow PROVE row \in H!ServerRow /\ row.revision = 0
    <3>1. CASE row = H!NoServer
      BY <3>1 DEF H!NoServer, H!ServerRow
    <3>2. CASE row \in H!LegacyRow
      <4>1. PICK zero \in Nat : zero = 0
        OBVIOUS
      <4>2. row \in [status : {"live"}, config : Configs, revision : {zero}, enabled : {TRUE}]
        BY <3>2, <4>1 DEF H!LegacyRow
      <4>. QED BY <4>1, <4>2 DEF H!ServerRow
    <3>. QED BY <3>1, <3>2
  <2>1. HubTyped
    <3>1. server \in [H!Scopes -> [ServerNames -> H!ServerRow]]
      <4>. DEFINE first == {H!NoServer} \cup H!LegacyRow
      <4>1. \A row \in first : row \in H!ServerRow
        BY <2>0
      <4>2. server \in [H!Scopes -> [ServerNames -> first]]
        OBVIOUS
      <4>. HIDE DEF first
      <4>. QED BY <4>1, <4>2
    <3>2. mcpTask \in [Workers -> H!Task] /\ granted \in SUBSET Spoken /\ snapshot \in SUBSET Spoken
      OBVIOUS
    <3>. QED BY <3>1, <3>2 DEF HubTyped
  <2>2. \A p \in Workers : Shaped(mcpTask[p])
    OBVIOUS
  <2>3. ASSUME NEW s \in H!Scopes, NEW n \in ServerNames PROVE Settled(s, n)
    <3>1. \A p \in Workers : mcpTask[p].at = "idle"
      OBVIOUS
    <3>2. \A v, c : ~Says(s, n, v, c)
      BY <3>1 DEF Says, Said, Gives
    <3>3. server[s][n].status = "none" => server[s][n].revision = 0
      <4>. DEFINE first == {H!NoServer} \cup H!LegacyRow
      <4>1. \A row \in first : row.revision = 0
        BY <2>0
      <4>2. server \in [H!Scopes -> [ServerNames -> first]]
        OBVIOUS
      <4>. HIDE DEF first
      <4>. QED BY <4>1, <4>2
    <3>. QED BY <3>1, <3>2, <3>3 DEF Settled, Facts, Alone, UpToDate, Writes
  <2>. QED BY <2>1, <2>2, <2>3 DEF HubInv
<1>. QED BY <1>1, HubGrants, HubNext, PTL DEF H!Spec
-----------------------------------------------------------------------------
(* Secrets.                                                                *)

(* The namespace stored the secret: it is its own from then on, deleted or not. *)
Stored(n, h) == h \in Handles /\ secret[h].status # "none" /\ secret[h].scope = n

(* Every secret opens with the ring of the process, whatever was exchanged was stored
   by who got it, and a server refers to what its namespace stored: so does a
   registration that is past the check of the handle.                      *)
Opened(h) == secret[h].status # "none" => secret[h].key \in B!Range(ring)
Refers(r) ==
  /\ r.at \in {"url", "write"} /\ r.handle # None => Stored(r.namespace, r.handle)
  /\ r.at = "guard" => r.kind \in {"create", "delete", "register"}
SecretsInv ==
  /\ B!TypeOK
  /\ ring # <<>> /\ \A h \in Handles : Opened(h)
  /\ \A g \in given : Stored(g[1], g[2])
  /\ \A n \in Owners : reference[n] # None => Stored(n, reference[n])
  /\ \A p \in Workers : Refers(selfRequest[p])

(* A request that has ended refers to no secret.                           *)
LEMMA SelfIdle == B!Idle \in B!Request /\ Refers(B!Idle)
BY DEF B!Idle, B!Request, B!Steps, Refers

(* What the invariant says of values and servers is the property.          *)
LEMMA SecretsOwned == SecretsInv => SecretsServeTheirOwner
<1>. SUFFICES ASSUME SecretsInv PROVE B!SecretsServeTheirOwner
  BY DEF SecretsServeTheirOwner
<1>. USE DEF SecretsInv
<1>1. \A g \in given : secret[g[2]].scope = g[1]
  BY DEF Stored
<1>2. ASSUME NEW n \in Owners, NEW h, h = reference[n], h # None, secret[h].status # "deleted"
      PROVE  B!Resolved(n, {h}) = {h}
  <2>1. h \in Handles /\ secret[h].status = "live" /\ secret[h].scope = n
    BY <1>2 DEF Stored, B!TypeOK, B!SecretRow
  <2>2. B!Found(n, {h}) = {h}
    BY <2>1 DEF B!Found
  <2>3. B!Opens(h)
    BY <2>1 DEF B!Opens, Opened
  <2>. QED BY <2>2, <2>3 DEF B!Resolved
<1>. QED BY <1>1, <1>2 DEF B!SecretsServeTheirOwner

(* A step that takes no secret away from whom stored it leaves what refers to them.  *)
LEMMA RefersStill ==
  ASSUME SecretsInv, \A n, h : Stored(n, h) => Stored(n, h)',
         \A q \in Workers : selfRequest'[q] = selfRequest[q] \/ selfRequest'[q] = B!Idle
  PROVE  \A q \in Workers : Refers(selfRequest[q])'
<1>. SUFFICES ASSUME NEW q \in Workers PROVE Refers(selfRequest[q])'
  OBVIOUS
<1>1. PICK t : t = selfRequest'[q]
  OBVIOUS
<1>2. Refers(t)
  BY <1>1, SelfIdle DEF SecretsInv
<1>. QED BY <1>1, <1>2 DEF Refers

(* Every step keeps what a namespace refers to its own.                    *)
LEMMA SecretsNext ==
  ASSUME SecretsInv, [B!Next]_B!vars PROVE SecretsInv'
<1>. USE SelfIdle DEF SecretsInv
<1>1. CASE UNCHANGED B!vars
  BY <1>1 DEF B!vars, B!TypeOK, Opened, Stored, Refers
<1>2. ASSUME NEW p \in Workers, B!Ask(p) PROVE SecretsInv'
  <2>1. PICK n \in Owners, h \in Handles \cup {None}, kind \in {"create", "delete", "register"} :
          /\ selfRequest' = [selfRequest EXCEPT ![p] = [at |-> "guard", kind |-> kind,
                                          namespace |-> n, handle |-> h]]
          /\ UNCHANGED <<ring, secret, reference, given>>
    BY <1>2 DEF B!Ask, B!SelfReference
  <2>. QED BY <2>1 DEF B!TypeOK, B!Request, B!Steps, Refers, Stored, Opened
<1>3. ASSUME NEW p \in Workers, NEW r \in B!Request, Refers(r), selfRequest' = [selfRequest EXCEPT ![p] = r],
             UNCHANGED <<ring, secret, reference, given>>
      PROVE  SecretsInv'
  BY <1>3 DEF B!TypeOK, Refers, Stored, Opened
<1>4. ASSUME NEW p \in Workers, B!Finish(p), UNCHANGED <<ring, secret, reference, given>> PROVE SecretsInv'
  BY <1>3, <1>4 DEF B!Finish
<1>5. ASSUME NEW p \in Workers, NEW step \in {"insert", "remove", "owns", "url", "write"}, B!Go(p, step),
             UNCHANGED <<ring, secret, reference, given>>,
             step \in {"url", "write"} /\ selfRequest[p].handle # None =>
               Stored(selfRequest[p].namespace, selfRequest[p].handle)
      PROVE  SecretsInv'
  <2>1. PICK r : r = [selfRequest[p] EXCEPT !.at = step]
    OBVIOUS
  <2>2. selfRequest[p] \in B!Request
    BY DEF B!TypeOK
  <2>3. r \in B!Request /\ Refers(r)
    BY <1>5, <2>1, <2>2 DEF B!Request, B!Steps, Refers
  <2>. QED BY <1>3, <1>5, <2>1, <2>3 DEF B!Go
<1>6. ASSUME NEW p \in Workers, B!Guard(p) PROVE SecretsInv'
  <2>1. CASE B!Finish(p)
    BY <1>4, <1>6, <2>1 DEF B!Guard
  <2>2. CASE B!Go(p, B!Guarded(selfRequest[p]))
    <3>1. selfRequest[p].kind \in {"create", "delete", "register"}
      BY <1>6 DEF B!Guard, B!At, Refers
    <3>2. PICK step \in {"insert", "remove", "owns", "url"} : step = B!Guarded(selfRequest[p])
      BY <3>1 DEF B!Guarded
    <3>3. step = "url" => selfRequest[p].handle = None
      BY <3>1, <3>2 DEF B!Guarded
    <3>4. UNCHANGED <<ring, secret, reference, given>> /\ B!Go(p, step)
      BY <1>6, <2>2, <3>2 DEF B!Guard
    <3>. QED BY <1>5, <3>3, <3>4
  <2>. QED BY <1>6, <2>1, <2>2 DEF B!Guard
<1>7. ASSUME NEW p \in Workers, selfRequest' = [selfRequest EXCEPT ![p] = B!Idle],
             secret' \in [Handles -> B!SecretRow], UNCHANGED <<ring, reference, given>>,
             \A n, x : Stored(n, x) => Stored(n, x)', \A x \in Handles : Opened(x)'
      PROVE  SecretsInv'
  <2>9. selfRequest' \in [Workers -> B!Request] /\ \A q \in Workers : selfRequest'[q] = selfRequest[q] \/ selfRequest'[q] = B!Idle
    BY <1>7 DEF B!TypeOK
  <2>10. \A q \in Workers : Refers(selfRequest[q])'
    BY <1>7, <2>9, RefersStill
  <2>11. B!TypeOK'
    BY <1>7, <2>9 DEF B!TypeOK
  <2>12. \A g \in given' : Stored(g[1], g[2])'
    BY <1>7
  <2>13. \A n \in Owners : reference'[n] # None => Stored(n, reference[n])'
    <3>1. ASSUME NEW n \in Owners, reference'[n] # None PROVE Stored(n, reference[n])'
      <4>1. PICK x : x = reference[n] /\ x = reference'[n]
        BY <1>7
      <4>2. Stored(n, x)
        BY <3>1, <4>1
      <4>3. Stored(n, x)'
        BY <1>7, <4>2
      <4>. QED BY <4>1, <4>3 DEF Stored
    <3>. QED BY <3>1
  <2>. QED BY <1>7, <2>10, <2>11, <2>12, <2>13
<1>8. ASSUME NEW p \in Workers, B!Insert(p) PROVE SecretsInv'
  <2>1. PICK h \in Handles : /\ secret[h] = B!NoSecret
                             /\ secret' = [secret EXCEPT ![h] = B!Sealed(selfRequest[p].namespace)]
    BY <1>8 DEF B!Insert
  <2>2. selfRequest' = [selfRequest EXCEPT ![p] = B!Idle] /\ UNCHANGED <<ring, reference, given>>
    BY <1>8 DEF B!Insert, B!Finish
  <2>3. PICK row : row = B!Sealed(selfRequest[p].namespace)
    OBVIOUS
  <2>4. Head(ring) \in Keys /\ Head(ring) \in B!Range(ring)
    BY DEF B!TypeOK, B!Range
  <2>5. row \in B!SecretRow /\ row.key \in B!Range(ring)
    BY <2>3, <2>4 DEF B!Sealed, B!SecretRow, B!TypeOK, B!Request
  <2>6. secret' \in [Handles -> B!SecretRow] /\ secret'[h] = row /\ \A x \in Handles : x # h => secret'[x] = secret[x]
    BY <2>1, <2>3, <2>5 DEF B!TypeOK
  <2>7. \A n, x : Stored(n, x) => Stored(n, x)'
    BY <2>1, <2>6 DEF Stored, B!NoSecret
  <2>8. \A x \in Handles : Opened(x)'
    BY <2>2, <2>5, <2>6 DEF Opened
  <2>. QED BY <1>7, <2>2, <2>6, <2>7, <2>8
<1>9. ASSUME NEW p \in Workers, B!Remove(p) PROVE SecretsInv'
  <2>1. PICK h : h = selfRequest[p].handle
    OBVIOUS
  <2>2. selfRequest' = [selfRequest EXCEPT ![p] = B!Idle] /\ UNCHANGED <<ring, reference, given>>
    BY <1>9 DEF B!Remove, B!Finish
  <2>3. \/ secret' = secret
        \/ /\ secret' = [secret EXCEPT ![h].status = "deleted"]
           /\ B!Found(selfRequest[p].namespace, {h}) = {h}
    BY <1>9, <2>1 DEF B!Remove
  <2>4. CASE secret' = secret
    BY <1>4, <2>2, <2>4 DEF B!Finish
  <2>5. CASE secret' = [secret EXCEPT ![h].status = "deleted"] /\ h \notin Handles
    <3>1. secret' = secret
      BY <2>5 DEF B!TypeOK
    <3>. QED BY <2>4, <3>1
  <2>6. CASE /\ secret' = [secret EXCEPT ![h].status = "deleted"] /\ h \in Handles
             /\ B!Found(selfRequest[p].namespace, {h}) = {h}
    <3>1. PICK row : row = [secret[h] EXCEPT !.status = "deleted"]
      OBVIOUS
    <3>2. secret[h] \in B!SecretRow /\ secret[h].status = "live"
      BY <2>6 DEF B!TypeOK, B!Found
    <3>3. row \in B!SecretRow /\ row.status = "deleted" /\ row.scope = secret[h].scope /\ row.key = secret[h].key
      BY <3>1, <3>2 DEF B!SecretRow
    <3>4. secret' \in [Handles -> B!SecretRow] /\ secret'[h] = row /\ \A x \in Handles : x # h => secret'[x] = secret[x]
      BY <2>6, <3>1, <3>3 DEF B!TypeOK
    <3>5. \A n, x : Stored(n, x) => Stored(n, x)'
      BY <3>3, <3>4 DEF Stored
    <3>6. \A x \in Handles : Opened(x)'
      BY <2>2, <3>2, <3>3, <3>4 DEF Opened
    <3>. QED BY <1>7, <2>2, <3>4, <3>5, <3>6
  <2>. QED BY <2>3, <2>4, <2>5, <2>6
<1>10. ASSUME NEW p \in Workers, B!Owns(p) PROVE SecretsInv'
  <2>1. PICK h : h = selfRequest[p].handle
    OBVIOUS
  <2>2. PICK n : n = selfRequest[p].namespace
    OBVIOUS
  <2>3. UNCHANGED <<ring, secret, reference, given>> /\ (B!Finish(p) \/ (B!Found(n, {h}) = {h} /\ B!Go(p, "url")))
    BY <1>10, <2>1, <2>2 DEF B!Owns
  <2>4. selfRequest[p] \in B!Request
    BY DEF B!TypeOK
  <2>5. B!Found(n, {h}) = {h} /\ h # None => Stored(n, h)
    BY <2>1, <2>4 DEF B!Found, Stored, B!Request
  <2>. QED BY <1>4, <1>5, <2>1, <2>2, <2>3, <2>5
<1>11. ASSUME NEW p \in Workers, B!CheckUrl(p) PROVE SecretsInv'
  <2>1. B!At(p, "url") /\ UNCHANGED <<ring, secret, reference, given>> /\ (B!Finish(p) \/ B!Go(p, "write"))
    BY <1>11 DEF B!CheckUrl
  <2>2. selfRequest[p].handle # None => Stored(selfRequest[p].namespace, selfRequest[p].handle)
    BY <2>1 DEF B!At, Refers
  <2>. QED BY <1>4, <1>5, <2>1, <2>2
<1>12. ASSUME NEW p \in Workers, B!WriteServer(p) PROVE SecretsInv'
  <2>1. PICK r : r = selfRequest[p]
    OBVIOUS
  <2>2. /\ r \in B!Request /\ r.at = "write" /\ Refers(r)
        /\ reference' = [reference EXCEPT ![r.namespace] = r.handle]
        /\ selfRequest' = [selfRequest EXCEPT ![p] = B!Idle] /\ UNCHANGED <<ring, secret, given>>
    BY <1>12, <2>1 DEF B!WriteServer, B!Finish, B!At, B!TypeOK
  <2>3. reference' \in [Owners -> B!SelfReference]
    BY <2>2 DEF B!TypeOK, B!Request, B!SelfReference
  <2>4. \A n \in Owners : reference'[n] # None => Stored(n, reference'[n])
    BY <2>2 DEF B!TypeOK, Refers
  <2>5. selfRequest' \in [Workers -> B!Request] /\ \A q \in Workers : selfRequest'[q] = selfRequest[q] \/ selfRequest'[q] = B!Idle
    BY <2>2 DEF B!TypeOK
  <2>6. \A n, h : Stored(n, h) => Stored(n, h)'
    BY <2>2 DEF Stored
  <2>7. \A q \in Workers : Refers(selfRequest[q])'
    BY <2>5, <2>6, RefersStill
  <2>8. \A n \in Owners : (reference[n] # None => Stored(n, reference[n]))'
    BY <2>2, <2>4 DEF Stored
  <2>. QED BY <2>2, <2>3, <2>5, <2>7, <2>8 DEF B!TypeOK, Stored, Opened
<1>13. CASE B!Resolve
  <2>1. PICK n \in Owners, handles \in SUBSET Handles :
          /\ given' = given \cup ({n} \X B!Resolved(n, handles))
          /\ UNCHANGED <<ring, secret, reference, selfRequest>>
    BY <1>13 DEF B!Resolve
  <2>2. B!Resolved(n, handles) \subseteq B!Found(n, handles) /\ B!Resolved(n, handles) \subseteq Handles
    BY DEF B!Resolved
  <2>3. \A h \in B!Resolved(n, handles) : Stored(n, h)
    BY <2>2 DEF B!Found, Stored
  <2>4. given' \in SUBSET (Owners \X Handles) /\ \A g \in given' : Stored(g[1], g[2])
    BY <2>1, <2>2, <2>3 DEF B!TypeOK
  <2>. QED BY <2>1, <2>4 DEF B!TypeOK, Stored, Opened, Refers
<1>14. CASE B!Restart
  <2>1. PICK key \in Keys : ring' = <<key>> \o ring
    BY <1>14 DEF B!Restart, B!Rotated
  <2>2. selfRequest' = [p \in Workers |-> B!Idle] /\ UNCHANGED <<secret, reference, given>>
    BY <1>14 DEF B!Restart
  <2>3. ring' \in Seq(Keys) /\ ring' # <<>> /\ \A i \in DOMAIN ring : i + 1 \in DOMAIN ring' /\ ring'[i + 1] = ring[i]
    BY <2>1 DEF B!TypeOK
  <2>4. \A k \in B!Range(ring) : k \in B!Range(ring)'
    BY <2>3 DEF B!Range
  <2>5. \A q \in Workers : Refers(selfRequest[q])'
    BY <2>2, RefersStill DEF Stored, B!TypeOK
  <2>6. \A h \in Handles : Opened(h)'
    BY <2>2, <2>4 DEF Opened
  <2>. QED BY <2>2, <2>3, <2>5, <2>6 DEF B!TypeOK, Stored
<1>15. ASSUME NEW p \in Workers, B!Throws(p) PROVE SecretsInv'
  BY <1>4, <1>15 DEF B!Throws
<1>. QED BY <1>1, <1>2, <1>6, <1>8, <1>9, <1>10, <1>11, <1>12, <1>13, <1>14, <1>15 DEF B!Next, B!Store, B!SelfRegister

(* A value leaves the broker for the namespace that stored it and no other, and a
   registered server can be assembled until its secret is deleted, for any namespaces,
   keys and requests at once (McpSecretService, selfRegisterMcp).          *)
THEOREM SecretsServe == B!Spec => []SecretsServeTheirOwner
<1>1. B!Init => SecretsInv
  <2>. SUFFICES ASSUME B!Init PROVE SecretsInv
    OBVIOUS
  <2>1. ring \in Seq(Keys) /\ ring # <<>>
    BY DEF B!Init
  <2>. QED BY <2>1, SelfIdle DEF B!Init, SecretsInv, B!TypeOK, Opened, Refers, B!NoSecret, B!SecretRow,
         B!SelfReference, B!Idle
<1>. QED BY <1>1, SecretsOwned, SecretsNext, PTL DEF B!Spec
-----------------------------------------------------------------------------
(* Sites.                                                                  *)

(* A request that has made its last check of a row that is deleted now: the row was
   deleted since, and late remembers it.                                   *)
Aware(r) ==
  /\ r.at = "write" /\ r.kind \in {"upsertSite", "upsertPart"} =>
       (site[r.site].status = "deleted" => r.site \in late)
  /\ r.at \in {"find", "write"} /\ r.kind = "upsertDomain" =>
       (site[r.site].status = "deleted" => r.site \in late)
  /\ r.at = "write" /\ r.kind \in {"upsertDomain", "verify", "mark"} =>
       (domain[r.host].status = "deleted" => r.host \in late)

(* The rows a request names are rows there are.                            *)
NamesRows(r) ==
  /\ r.kind \in {"upsertSite", "deleteSite", "restoreSite", "upsertDomain", "upsertPart"} => r.site \in SiteIds
  /\ r.kind \in S!OnDomain => r.host \in Hosts
  /\ r.kind = "upsertPart" => r.part \in Parts
  /\ r.at = "lookup" => r.kind = "verify"
  /\ r.at = "get" => r.kind \in {"verify", "mark"}
  /\ r.at = "site" => r.kind \in {"upsertDomain", "upsertPart"}
  /\ r.at = "find" => r.kind \in S!OnSite \cup S!OnDomain

SitesTyped ==
  /\ site \in [SiteIds -> S!SiteRow] /\ domain \in [Hosts -> S!DomainRow]
  /\ part \in [SiteIds -> [Parts -> S!Values]]
  /\ siteRequest \in [Workers -> S!Request]
SitesInv ==
  /\ SitesTyped
  /\ \A q \in Workers : Aware(siteRequest[q]) /\ NamesRows(siteRequest[q])

(* A request that has ended has checked nothing.                           *)
LEMMA RequestIdle == S!Idle \in S!Request /\ Aware(S!Idle) /\ NamesRows(S!Idle) /\ S!Idle.at = "idle"
BY DEF S!Idle, S!Request, S!Kinds, Aware, NamesRows, S!OnDomain

(* A request that only reads: what it knows when it goes on is enough.     *)
LEMMA SitesRead ==
  ASSUME SitesInv, NEW p \in Workers, NEW r \in S!Request, Aware(r), NamesRows(r),
         siteRequest' = [siteRequest EXCEPT ![p] = r], UNCHANGED <<site, domain, part, late>>
  PROVE  SitesInv'
<1>. USE DEF SitesInv, SitesTyped
<1>1. siteRequest' \in [Workers -> S!Request]
  OBVIOUS
<1>2. ASSUME NEW q \in Workers PROVE Aware(siteRequest[q])' /\ NamesRows(siteRequest[q])'
  <2>1. PICK t : t = siteRequest'[q]
    OBVIOUS
  <2>2. Aware(t) /\ NamesRows(t)
    BY <2>1
  <2>. QED BY <2>1, <2>2 DEF Aware, NamesRows
<1>. QED BY <1>1, <1>2

(* The steps of a request that leave the rows alone.                       *)
LEMMA SitesAsk ==
  ASSUME SitesInv, NEW p \in Workers, S!AskSite(p) \/ S!AskDomain(p) \/ S!AskPart(p)
  PROVE  SitesInv'
<1>1. ASSUME NEW r \in S!Request, S!Ask(p, r), r.at \in {"find", "site", "get"},
             r.at = "find" => r.kind # "upsertDomain", NamesRows(r)
      PROVE  SitesInv'
  BY <1>1, SitesRead DEF S!Ask, Aware
<1>2. CASE S!AskSite(p)
  <2>1. PICK kind \in S!OnSite, s \in SiteIds, active \in BOOLEAN :
          S!Ask(p, [S!Idle EXCEPT !.at = "find", !.kind = kind, !.site = s, !.active = active])
    BY <1>2 DEF S!AskSite
  <2>2. PICK r : r = [S!Idle EXCEPT !.at = "find", !.kind = kind, !.site = s, !.active = active] /\ S!Ask(p, r)
    BY <2>1
  <2>3. r = [at |-> "find", kind |-> kind, site |-> s, host |-> None, part |-> None,
             active |-> active, create |-> FALSE]
    BY <2>2 DEF S!Idle
  <2>. QED BY <1>1, <2>2, <2>3 DEF S!Request, S!Kinds, S!OnSite, NamesRows, S!OnDomain
<1>3. CASE S!AskDomain(p)
  <2>1. PICK h \in Hosts :
    \/ \E s \in SiteIds, active \in BOOLEAN :
         S!Ask(p, [S!Idle EXCEPT !.at = "site", !.kind = "upsertDomain", !.site = s, !.host = h,
                             !.active = active])
    \/ \E kind \in {"deleteDomain", "restoreDomain"} :
         S!Ask(p, [S!Idle EXCEPT !.at = "find", !.kind = kind, !.host = h])
    \/ \E kind \in {"verify", "mark"} :
         S!Ask(p, [S!Idle EXCEPT !.at = "get", !.kind = kind, !.host = h])
    BY <1>3 DEF S!AskDomain
  <2>2. ASSUME NEW s \in SiteIds, NEW active \in BOOLEAN,
         S!Ask(p, [S!Idle EXCEPT !.at = "site", !.kind = "upsertDomain", !.site = s, !.host = h,
                             !.active = active])
        PROVE SitesInv'
    <3>1. PICK r : /\ r = [S!Idle EXCEPT !.at = "site", !.kind = "upsertDomain", !.site = s, !.host = h,
                                         !.active = active]
                   /\ S!Ask(p, r)
      BY <2>2
    <3>2. r = [at |-> "site", kind |-> "upsertDomain", site |-> s, host |-> h, part |-> None,
               active |-> active, create |-> FALSE]
      BY <3>1 DEF S!Idle
    <3>. QED BY <1>1, <3>1, <3>2 DEF S!Request, S!Kinds, NamesRows, S!OnDomain
  <2>3. ASSUME NEW kind \in {"deleteDomain", "restoreDomain"},
         S!Ask(p, [S!Idle EXCEPT !.at = "find", !.kind = kind, !.host = h])
        PROVE SitesInv'
    <3>1. PICK r : r = [S!Idle EXCEPT !.at = "find", !.kind = kind, !.host = h] /\ S!Ask(p, r)
      BY <2>3
    <3>2. r = [at |-> "find", kind |-> kind, site |-> None, host |-> h, part |-> None,
               active |-> FALSE, create |-> FALSE]
      BY <3>1 DEF S!Idle
    <3>. QED BY <1>1, <3>1, <3>2 DEF S!Request, S!Kinds, NamesRows, S!OnDomain
  <2>4. ASSUME NEW kind \in {"verify", "mark"},
         S!Ask(p, [S!Idle EXCEPT !.at = "get", !.kind = kind, !.host = h])
        PROVE SitesInv'
    <3>1. PICK r : r = [S!Idle EXCEPT !.at = "get", !.kind = kind, !.host = h] /\ S!Ask(p, r)
      BY <2>4
    <3>2. r = [at |-> "get", kind |-> kind, site |-> None, host |-> h, part |-> None,
               active |-> FALSE, create |-> FALSE]
      BY <3>1 DEF S!Idle
    <3>. QED BY <1>1, <3>1, <3>2 DEF S!Request, S!Kinds, NamesRows, S!OnDomain
  <2>. QED BY <2>1, <2>2, <2>3, <2>4
<1>4. CASE S!AskPart(p)
  <2>1. PICK s \in SiteIds, k \in Parts, active \in BOOLEAN :
          S!Ask(p, [S!Idle EXCEPT !.at = "site", !.kind = "upsertPart", !.site = s, !.part = k,
                                  !.active = active])
    BY <1>4 DEF S!AskPart
  <2>2. PICK r : /\ r = [S!Idle EXCEPT !.at = "site", !.kind = "upsertPart", !.site = s, !.part = k,
                                       !.active = active]
                 /\ S!Ask(p, r)
    BY <2>1
  <2>3. r = [at |-> "site", kind |-> "upsertPart", site |-> s, host |-> None, part |-> k,
             active |-> active, create |-> FALSE]
    BY <2>2 DEF S!Idle
  <2>. QED BY <1>1, <2>2, <2>3 DEF S!Request, S!Kinds, NamesRows, S!OnDomain
<1>. QED BY <1>2, <1>3, <1>4

(* The other steps of a request that leave the rows alone: each check of a row is of
   the row as it is.                                                       *)
LEMMA SitesCheck ==
  ASSUME SitesInv, NEW p \in Workers,
         S!CheckSite(p) \/ S!GetDomain(p) \/ S!LookupTxt(p) \/ S!Find(p) \/ S!Throws(p)
  PROVE  SitesInv'
<1>. DEFINE r == siteRequest[p]
<1>. USE RequestIdle
<1>1. r \in S!Request /\ Aware(r) /\ NamesRows(r)
  BY DEF SitesInv, SitesTyped
<1>2. UNCHANGED <<site, domain, part, late>>
  BY DEF S!CheckSite, S!GetDomain, S!LookupTxt, S!Find, S!Throws
<1>3. ASSUME S!Finish(p) PROVE SitesInv'
  BY <1>2, <1>3, SitesRead DEF S!Finish
<1>4. ASSUME NEW step \in {"find", "lookup", "write"}, S!Goto(p, step),
             step = "lookup" => r.kind = "verify", step = "find" => r.kind \in S!OnSite \cup S!OnDomain,
             Aware([r EXCEPT !.at = step])
      PROVE  SitesInv'
  <2>1. siteRequest' = [siteRequest EXCEPT ![p] = [r EXCEPT !.at = step]]
    BY <1>4 DEF S!Goto
  <2>2. [r EXCEPT !.at = step] \in S!Request
    BY <1>1, <1>4 DEF S!Request
  <2>3. NamesRows([r EXCEPT !.at = step])
    BY <1>1, <1>4 DEF NamesRows, S!Request
  <2>. QED BY <1>2, <1>4, <2>1, <2>2, <2>3, SitesRead
<1>5. CASE S!CheckSite(p)
  <2>1. CASE S!Writable(r.site) /\ S!Goto(p, IF r.kind = "upsertPart" THEN "write" ELSE "find")
    <3>1. PICK step \in {"find", "write"} : S!Goto(p, step) /\ step = (IF r.kind = "upsertPart" THEN "write" ELSE "find")
      BY <2>1
    <3>2. r.kind \in {"upsertDomain", "upsertPart"}
      BY <1>1, <1>5 DEF NamesRows, S!CheckSite, S!At
    <3>3. Aware([r EXCEPT !.at = step])
      BY <1>1, <2>1, <3>1, <3>2 DEF Aware, S!Writable, S!Request
    <3>. QED BY <1>4, <3>1, <3>2, <3>3 DEF S!OnDomain
  <2>. QED BY <1>3, <1>5, <2>1 DEF S!CheckSite
<1>6. CASE S!GetDomain(p)
  <2>1. CASE S!Goto(p, IF r.kind = "verify" THEN "lookup" ELSE "find")
    <3>1. PICK step \in {"find", "lookup"} : S!Goto(p, step) /\ step = (IF r.kind = "verify" THEN "lookup" ELSE "find")
      BY <2>1
    <3>2. r.kind \in {"verify", "mark"}
      BY <1>1, <1>6 DEF NamesRows, S!GetDomain, S!At
    <3>3. Aware([r EXCEPT !.at = step])
      BY <1>1, <3>1, <3>2 DEF Aware, S!Request
    <3>. QED BY <1>4, <3>1, <3>2, <3>3 DEF S!OnDomain
  <2>. QED BY <1>3, <1>6, <2>1 DEF S!GetDomain
<1>7. CASE S!LookupTxt(p)
  <2>1. CASE S!Goto(p, "find")
    <3>1. r.kind = "verify"
      BY <1>1, <1>7 DEF NamesRows, S!LookupTxt, S!At
    <3>2. Aware([r EXCEPT !.at = "find"])
      BY <1>1, <3>1 DEF Aware, S!Request
    <3>. QED BY <1>4, <2>1, <3>1, <3>2 DEF S!OnDomain
  <2>. QED BY <1>3, <1>7, <2>1 DEF S!LookupTxt
<1>8. CASE S!Find(p)
  <2>1. CASE S!Allows(r.kind, S!Found(p))
              /\ siteRequest' = [siteRequest EXCEPT ![p].at = "write", ![p].create = S!Found(p) = "none"]
    <3>1. PICK create \in BOOLEAN : create = (S!Found(p) = "none")
      OBVIOUS
    <3>2. PICK t : t = [r EXCEPT !.at = "write", !.create = create]
      OBVIOUS
    <3>3. siteRequest' = [siteRequest EXCEPT ![p] = t]
      BY <2>1, <3>1, <3>2
    <3>4. t \in S!Request /\ t.at = "write" /\ t.kind = r.kind /\ t.site = r.site /\ t.host = r.host /\ t.part = r.part
      BY <1>1, <3>2 DEF S!Request
    <3>5. NamesRows(t)
      BY <1>1, <3>4 DEF NamesRows
    <3>6. r.at = "find"
      BY <1>8 DEF S!Find, S!At
    <3>7. r.kind = "upsertSite" => site[r.site].status # "deleted"
      BY <2>1 DEF S!Allows, S!Found, S!OnSite, S!OnDomain
    <3>8. r.kind \in {"upsertDomain", "verify", "mark"} => domain[r.host].status # "deleted"
      BY <2>1 DEF S!Allows, S!Found, S!OnSite, S!OnDomain
    <3>9. r.kind # "upsertPart"
      BY <1>1, <3>6 DEF NamesRows, S!OnSite, S!OnDomain
    <3>10. Aware(t)
      BY <1>1, <3>4, <3>6, <3>7, <3>8, <3>9 DEF Aware
    <3>. QED BY <1>2, <3>3, <3>4, <3>5, <3>10, SitesRead
  <2>. QED BY <1>3, <1>8, <2>1 DEF S!Find
<1>9. CASE S!Throws(p)
  BY <1>3, <1>9 DEF S!Throws
<1>. QED BY <1>5, <1>6, <1>7, <1>8, <1>9

(* The rows that the other requests have checked: late keeps them, and learns of the
   one that is deleted now.                                                *)
LEMMA LateKnows ==
  ASSUME NEW p \in Workers, NEW q \in Workers, q # p, NEW row, NEW x,
         late' = S!Caught(p, row), x \in S!Checked(q)
  PROVE  (x \in late => x \in late') /\ (x = row => x \in late')
BY DEF S!Caught

(* What a request that is not the one that writes knows: a row is deleted by the write
   only with late' = Caught.                                               *)
LEMMA OthersAware ==
  ASSUME SitesInv, NEW p \in Workers, siteRequest' = [siteRequest EXCEPT ![p] = S!Idle],
         NEW row, late' = late \/ late' = S!Caught(p, row),
         \A s \in SiteIds : site'[s].status = "deleted" =>
            site[s].status = "deleted" \/ (s = row /\ late' = S!Caught(p, row)),
         \A h \in Hosts : domain'[h].status = "deleted" =>
            domain[h].status = "deleted" \/ (h = row /\ late' = S!Caught(p, row))
  PROVE  \A q \in Workers : Aware(siteRequest[q])' /\ NamesRows(siteRequest[q])'
<1>. USE RequestIdle
<1>1. ASSUME NEW q \in Workers, q # p PROVE Aware(siteRequest[q])' /\ NamesRows(siteRequest[q])'
  <2>1. PICK t : t = siteRequest[q]
    OBVIOUS
  <2>2. siteRequest'[q] = t /\ t \in S!Request /\ Aware(t) /\ NamesRows(t)
    BY <1>1, <2>1 DEF SitesInv, SitesTyped
  <2>3. /\ t.at = "write" => t.site \in S!Checked(q) /\ t.host \in S!Checked(q)
        /\ t.at = "find" /\ t.kind = "upsertDomain" => t.site \in S!Checked(q)
    BY <2>1 DEF S!Checked, S!At
  <2>4. \A x \in S!Checked(q) : (x \in late => x \in late') /\ (x = row /\ late' = S!Caught(p, row) => x \in late')
    BY <1>1, LateKnows
  <2>5. /\ t.kind \in {"upsertSite", "upsertDomain", "upsertPart"} => t.site \in SiteIds
        /\ t.kind \in {"upsertDomain", "verify", "mark"} => t.host \in Hosts
    BY <2>2 DEF NamesRows, S!OnDomain
  <2>6. /\ t.at = "write" /\ t.kind \in {"upsertSite", "upsertPart"} =>
             (site'[t.site].status = "deleted" => t.site \in late')
        /\ t.at \in {"find", "write"} /\ t.kind = "upsertDomain" =>
             (site'[t.site].status = "deleted" => t.site \in late')
    BY <2>2, <2>3, <2>4, <2>5 DEF Aware
  <2>7. t.at = "write" /\ t.kind \in {"upsertDomain", "verify", "mark"} =>
             (domain'[t.host].status = "deleted" => t.host \in late')
    BY <2>2, <2>3, <2>4, <2>5 DEF Aware
  <2>. QED BY <2>2, <2>6, <2>7 DEF Aware, NamesRows
<1>2. Aware(siteRequest[p])' /\ NamesRows(siteRequest[p])'
  <2>1. siteRequest'[p] = S!Idle
    BY DEF SitesInv, SitesTyped
  <2>. QED BY <2>1 DEF Aware, NamesRows, S!Idle, S!OnDomain
<1>. QED BY <1>1, <1>2

(* The writes, in a state where every request knows what it must.          *)
LEMMA SiteWritten ==
  ASSUME SitesInv, NEW p \in Workers, S!WriteSite(p)
  PROVE  /\ SitesInv'
         /\ \A s \in SiteIds \ late : site[s].status = "deleted" /\ site'[s].status = "deleted" => site'[s] = site[s]
<1>. DEFINE r == siteRequest[p]
            row == site[r.site]
<1>1. r \in S!Request /\ Aware(r) /\ NamesRows(r) /\ r.at = "write" /\ r.site \in SiteIds
  BY DEF SitesInv, SitesTyped, NamesRows, S!WriteSite, S!OnSite, S!At
<1>2. siteRequest' = [siteRequest EXCEPT ![p] = S!Idle] /\ UNCHANGED <<domain, part>>
  BY DEF S!WriteSite, S!Finish
<1>3. siteRequest' \in [Workers -> S!Request]
  BY <1>2, RequestIdle DEF SitesInv, SitesTyped
<1>4. row \in S!SiteRow
  BY <1>1 DEF SitesInv, SitesTyped
<1>5. PICK new \in S!SiteRow :
        /\ site' = [site EXCEPT ![r.site] = new]
        /\ \/ /\ new.status # "deleted" /\ row.status # "deleted" /\ late' = late
           \/ /\ r.kind = "upsertSite" /\ new.status = row.status /\ late' = late
           \/ /\ new.status = "deleted" /\ late' = S!Caught(p, r.site)
              /\ row.status = "deleted" => new = row
           \/ /\ new.status = "live" /\ late' = late
  <2>1. CASE r.kind = "upsertSite"
    <3>1. CASE r.create
      <4>1. [status |-> "live", active |-> r.active] \in S!SiteRow
        BY <1>1 DEF S!SiteRow, S!Lifecycle, S!Request
      <4>. QED BY <2>1, <3>1, <4>1 DEF S!WriteSite
    <3>2. CASE ~r.create
      <4>1. PICK new : new = [row EXCEPT !.active = r.active]
        OBVIOUS
      <4>2. new \in S!SiteRow /\ new.status = row.status
        BY <1>1, <1>4, <4>1 DEF S!SiteRow, S!Lifecycle, S!Request
      <4>. QED BY <2>1, <3>2, <4>1, <4>2 DEF S!WriteSite
    <3>. QED BY <3>1, <3>2
  <2>2. CASE r.kind = "deleteSite"
    <3>1. PICK new : new = [row EXCEPT !.status = "deleted"]
      OBVIOUS
    <3>2. new \in S!SiteRow /\ new.status = "deleted" /\ (row.status = "deleted" => new = row)
      BY <1>4, <3>1 DEF S!SiteRow, S!Lifecycle
    <3>. QED BY <2>2, <3>1, <3>2 DEF S!WriteSite
  <2>3. CASE r.kind = "restoreSite"
    <3>1. PICK new : new = [row EXCEPT !.status = "live"]
      OBVIOUS
    <3>2. new \in S!SiteRow /\ new.status = "live"
      BY <1>4, <3>1 DEF S!SiteRow, S!Lifecycle
    <3>. QED BY <2>3, <3>1, <3>2 DEF S!WriteSite
  <2>. QED BY <2>1, <2>2, <2>3 DEF S!WriteSite
<1>6. site' \in [SiteIds -> S!SiteRow] /\ site'[r.site] = new /\ \A s \in SiteIds : s # r.site => site'[s] = site[s]
  BY <1>1, <1>5 DEF SitesInv, SitesTyped
<1>7. \A q \in Workers : Aware(siteRequest[q])' /\ NamesRows(siteRequest[q])'
  <2>1. \A s \in SiteIds : site'[s].status = "deleted" =>
            site[s].status = "deleted" \/ (s = r.site /\ late' = S!Caught(p, r.site))
    BY <1>5, <1>6
  <2>2. late' = late \/ late' = S!Caught(p, r.site)
    BY <1>5
  <2>. QED BY <1>2, <2>1, <2>2, OthersAware
<1>8. r.kind = "upsertSite" /\ row.status = "deleted" => r.site \in late
  BY <1>1 DEF Aware
<1>. QED BY <1>2, <1>3, <1>5, <1>6, <1>7, <1>8 DEF SitesInv, SitesTyped

(* The same of a domain: the row is kept, and the site that it is moved to.*)
LEMMA DomainWritten ==
  ASSUME SitesInv, NEW p \in Workers, S!WriteDomain(p)
  PROVE  /\ SitesInv'
         /\ \A s \in SiteIds \ late : site[s].status = "deleted" =>
               \A h \in Hosts : domain'[h].site = s => domain[h].site = s
         /\ \A h \in Hosts \ late :
              domain[h].status = "deleted" /\ domain'[h].status = "deleted" => domain'[h] = domain[h]
<1>. DEFINE r == siteRequest[p]
            row == domain[r.host]
<1>1. r \in S!Request /\ Aware(r) /\ NamesRows(r) /\ r.at = "write" /\ r.host \in Hosts
  BY DEF SitesInv, SitesTyped, NamesRows, S!WriteDomain, S!At
<1>2. siteRequest' = [siteRequest EXCEPT ![p] = S!Idle] /\ UNCHANGED <<site, part>>
  BY DEF S!WriteDomain, S!Finish
<1>3. siteRequest' \in [Workers -> S!Request]
  BY <1>2, RequestIdle DEF SitesInv, SitesTyped
<1>4. row \in S!DomainRow
  BY <1>1 DEF SitesInv, SitesTyped
<1>5. PICK new \in S!DomainRow :
        /\ domain' = [domain EXCEPT ![r.host] = new]
        /\ \/ /\ r.kind = "upsertDomain" /\ new.site = r.site /\ late' = late
              /\ new.status = row.status \/ (new.status = "live" /\ row.status = "none")
           \/ /\ new.site = row.site /\ r.kind \in {"verify", "mark"} /\ new.status = row.status /\ late' = late
           \/ /\ new.site = row.site /\ new.status = "deleted" /\ late' = S!Caught(p, r.host)
              /\ row.status = "deleted" => new = row
           \/ /\ new.site = row.site /\ new.status = "live" /\ late' = late
  <2>1. CASE r.kind = "upsertDomain"
    <3>1. CASE r.create
      <4>1. PICK new : new = [status |-> "live", active |-> r.active, verified |-> FALSE, site |-> r.site]
        OBVIOUS
      <4>2. new \in S!DomainRow /\ new.site = r.site /\ new.status = "live"
        BY <1>1, <4>1 DEF S!DomainRow, S!Lifecycle, S!Request
      <4>. QED BY <2>1, <3>1, <4>1, <4>2 DEF S!WriteDomain
    <3>2. CASE ~r.create
      <4>1. PICK new : new = [row EXCEPT !.active = r.active, !.site = r.site]
        OBVIOUS
      <4>2. new \in S!DomainRow /\ new.status = row.status /\ new.site = r.site
        BY <1>1, <1>4, <4>1 DEF S!DomainRow, S!Lifecycle, S!Request
      <4>. QED BY <2>1, <3>2, <4>1, <4>2 DEF S!WriteDomain
    <3>. QED BY <3>1, <3>2
  <2>2. CASE r.kind = "deleteDomain"
    <3>1. PICK new : new = [row EXCEPT !.status = "deleted"]
      OBVIOUS
    <3>2. new \in S!DomainRow /\ new.status = "deleted" /\ new.site = row.site /\ (row.status = "deleted" => new = row)
      BY <1>4, <3>1 DEF S!DomainRow, S!Lifecycle
    <3>. QED BY <2>2, <3>1, <3>2 DEF S!WriteDomain
  <2>3. CASE r.kind = "restoreDomain"
    <3>1. PICK new : new = [row EXCEPT !.status = "live"]
      OBVIOUS
    <3>2. new \in S!DomainRow /\ new.status = "live" /\ new.site = row.site
      BY <1>4, <3>1 DEF S!DomainRow, S!Lifecycle
    <3>. QED BY <2>3, <3>1, <3>2 DEF S!WriteDomain
  <2>4. CASE r.kind \in {"verify", "mark"}
    <3>1. PICK new : new = [row EXCEPT !.active = TRUE, !.verified = TRUE]
      OBVIOUS
    <3>2. new \in S!DomainRow /\ new.status = row.status /\ new.site = row.site
      BY <1>4, <3>1 DEF S!DomainRow, S!Lifecycle
    <3>. QED BY <2>4, <3>1, <3>2 DEF S!WriteDomain
  <2>. QED BY <2>1, <2>2, <2>3, <2>4 DEF S!WriteDomain
<1>6. domain' \in [Hosts -> S!DomainRow] /\ domain'[r.host] = new /\ \A h \in Hosts : h # r.host => domain'[h] = domain[h]
  BY <1>1, <1>5 DEF SitesInv, SitesTyped
<1>7. \A q \in Workers : Aware(siteRequest[q])' /\ NamesRows(siteRequest[q])'
  <2>1. \A h \in Hosts : domain'[h].status = "deleted" =>
            domain[h].status = "deleted" \/ (h = r.host /\ late' = S!Caught(p, r.host))
    BY <1>5, <1>6
  <2>2. late' = late \/ late' = S!Caught(p, r.host)
    BY <1>5
  <2>. QED BY <1>2, <2>1, <2>2, OthersAware
<1>8. /\ r.kind = "upsertDomain" /\ site[r.site].status = "deleted" => r.site \in late
      /\ r.kind \in {"upsertDomain", "verify", "mark"} /\ row.status = "deleted" => r.host \in late
  BY <1>1 DEF Aware
<1>9. \A s \in SiteIds \ late : site[s].status = "deleted" =>
        \A h \in Hosts : domain'[h].site = s => domain[h].site = s
  BY <1>5, <1>6, <1>8
<1>10. \A h \in Hosts \ late :
         domain[h].status = "deleted" /\ domain'[h].status = "deleted" => domain'[h] = domain[h]
  BY <1>5, <1>6, <1>8
<1>. QED BY <1>2, <1>3, <1>6, <1>7, <1>9, <1>10 DEF SitesInv, SitesTyped

(* The same of an app, a policy or a flag.                                 *)
LEMMA PartWritten ==
  ASSUME SitesInv, NEW p \in Workers, S!WritePart(p)
  PROVE  /\ SitesInv'
         /\ \A s \in SiteIds \ late : site[s].status = "deleted" => part'[s] = part[s]
<1>. DEFINE r == siteRequest[p]
<1>1. /\ r \in S!Request /\ Aware(r) /\ NamesRows(r) /\ r.at = "write" /\ r.kind = "upsertPart"
      /\ r.site \in SiteIds /\ r.part \in Parts
  BY DEF SitesInv, SitesTyped, NamesRows, S!WritePart, S!At
<1>2. siteRequest' = [siteRequest EXCEPT ![p] = S!Idle] /\ UNCHANGED <<site, domain, late>>
  BY DEF S!WritePart, S!Finish
<1>3. siteRequest' \in [Workers -> S!Request]
  BY <1>2, RequestIdle DEF SitesInv, SitesTyped
<1>4. PICK value \in S!Values : part' = [part EXCEPT ![r.site][r.part] = value]
  BY DEF S!WritePart, S!Values
<1>5. part' \in [SiteIds -> [Parts -> S!Values]] /\ \A s \in SiteIds : s # r.site => part'[s] = part[s]
  BY <1>1, <1>4 DEF SitesInv, SitesTyped
<1>6. \A q \in Workers : Aware(siteRequest[q])' /\ NamesRows(siteRequest[q])'
  BY <1>2, OthersAware
<1>7. site[r.site].status = "deleted" => r.site \in late
  BY <1>1 DEF Aware
<1>. QED BY <1>2, <1>3, <1>5, <1>6, <1>7 DEF SitesInv, SitesTyped

(* A step keeps what the requests know, and leaves what is deleted as it is. *)
LEMMA SitesNext ==
  ASSUME SitesInv, [S!Next]_S!vars
  PROVE  /\ SitesInv'
         /\ \A s \in SiteIds \ late :
              site[s].status = "deleted" /\ site'[s].status = "deleted" =>
                /\ site'[s] = site[s] /\ part'[s] = part[s]
                /\ \A h \in Hosts : domain'[h].site = s => domain[h].site = s
         /\ \A h \in Hosts \ late :
              domain[h].status = "deleted" /\ domain'[h].status = "deleted" => domain'[h] = domain[h]
<1>1. CASE UNCHANGED S!vars
  BY <1>1 DEF S!vars, SitesInv, SitesTyped, Aware, NamesRows
<1>2. ASSUME NEW p \in Workers, S!AskSite(p) \/ S!AskDomain(p) \/ S!AskPart(p)
      PROVE SitesInv' /\ UNCHANGED <<site, domain, part>>
  <2>1. UNCHANGED <<site, domain, part>>
    BY <1>2 DEF S!AskSite, S!AskDomain, S!AskPart, S!Ask
  <2>. QED BY <1>2, <2>1, SitesAsk
<1>3. ASSUME NEW p \in Workers, S!CheckSite(p) \/ S!GetDomain(p) \/ S!LookupTxt(p) \/ S!Find(p) \/ S!Throws(p)
      PROVE SitesInv' /\ UNCHANGED <<site, domain, part>>
  <2>1. UNCHANGED <<site, domain, part>>
    BY <1>3 DEF S!CheckSite, S!GetDomain, S!LookupTxt, S!Find, S!Throws
  <2>. QED BY <1>3, <2>1, SitesCheck
<1>4. ASSUME NEW p \in Workers, S!WriteSite(p) PROVE UNCHANGED <<domain, part>>
  BY <1>4 DEF S!WriteSite
<1>5. ASSUME NEW p \in Workers, S!WriteDomain(p) PROVE UNCHANGED <<site, part>>
  BY <1>5 DEF S!WriteDomain
<1>6. ASSUME NEW p \in Workers, S!WritePart(p) PROVE UNCHANGED <<site, domain>>
  BY <1>6 DEF S!WritePart
<1>7. ASSUME NEW p \in Workers,
             S!SiteRequests(p) \/ S!DomainRequests(p) \/ S!PartRequests(p) \/ S!CheckSite(p) \/ S!Find(p)
               \/ S!Throws(p)
      PROVE  \/ S!AskSite(p) \/ S!AskDomain(p) \/ S!AskPart(p)
             \/ S!CheckSite(p) \/ S!GetDomain(p) \/ S!LookupTxt(p) \/ S!Find(p) \/ S!Throws(p)
             \/ S!WriteSite(p) \/ S!WriteDomain(p) \/ S!WritePart(p)
  BY <1>7 DEF S!SiteRequests, S!DomainRequests, S!PartRequests
<1>8. CASE \E p \in Workers : S!WriteSite(p)
  BY <1>4, <1>8, SiteWritten
<1>9. CASE \E p \in Workers : S!WriteDomain(p)
  BY <1>5, <1>9, DomainWritten
<1>10. CASE \E p \in Workers : S!WritePart(p)
  BY <1>6, <1>10, PartWritten
<1>11. CASE SitesInv' /\ UNCHANGED <<site, domain, part>>
  BY <1>11
<1>. QED BY <1>1, <1>2, <1>3, <1>7, <1>8, <1>9, <1>10, <1>11 DEF S!Next

(* What is deleted stays as it is until it is restored, for any sites, domains and
   requests at once, but for a row that was deleted while a request was between its
   last check and its write (assertWritableSite, markSiteDomainVerified).  *)
THEOREM DeletedStays == S!Spec => DeletedIsFrozen
<1>1. S!Init => SitesInv
  BY RequestIdle DEF S!Init, SitesInv, SitesTyped, S!NoSite, S!NoDomain, S!SiteRow, S!DomainRow, S!Lifecycle,
       S!Values
<1>2. SitesInv /\ [S!Next]_S!vars =>
        [/\ \A s \in SiteIds \ late :
              site[s].status = "deleted" /\ site'[s].status = "deleted" =>
                /\ site'[s] = site[s] /\ part'[s] = part[s]
                /\ \A h \in Hosts : domain'[h].site = s => domain[h].site = s
         /\ \A h \in Hosts \ late :
              domain[h].status = "deleted" /\ domain'[h].status = "deleted" =>
                domain'[h] = domain[h]]_S!vars
  BY SitesNext
<1>3. SitesInv /\ [S!Next]_S!vars => SitesInv'
  BY SitesNext
<1>. QED BY <1>1, <1>2, <1>3, PTL DEF S!Spec, DeletedIsFrozen, S!DeletedIsFrozen
-----------------------------------------------------------------------------
(* Models.                                                                 *)

(* What a request that reads knows at each of its steps, against what was withheld from
   its site ever since it began: what it read was in service, and a catalog leaves out
   what was hidden.                                                        *)
Serves(p) ==
  LET j == modelJob[p]
  IN  /\ j.at \in {"bindings", "hidden", "labels"} => j.kind \in {"resolve", "catalog"}
      /\ j.at = "bindings" => j.kind = "resolve" /\ j.seen = {}
      /\ j.at = "hidden" => \A r \in j.seen : r.binding \notin barred[p]
      /\ j.at = "hidden" /\ j.kind = "catalog" => j.seen = {}
      /\ j.at = "labels" => j.seen = {} /\ veiled[p] \subseteq j.labels
      /\ j.at \notin {"hidden", "answered"} => j.seen = {}
      /\ j.at # "answered" => j.shown = {}
      /\ j.at = "answered" =>
           /\ \A r \in j.seen : r.binding \notin barred[p] /\ r.labels \cap veiled[p] = {}
           /\ j.shown \cap veiled[p] = {}
ModelsInv == D!TypeOK /\ \A p \in Workers : Serves(p)

(* A request that has ended is a request.                                  *)
LEMMA JobIdle == D!Idle \in D!Job
BY DEF D!Idle, D!Job, D!Kinds

(* A step of one request moves no other.                                   *)
LEMMA OneJob ==
  ASSUME modelJob \in [Workers -> D!Job], NEW p \in Workers, NEW j \in D!Job,
         modelJob' = [modelJob EXCEPT ![p] = j]
  PROVE  /\ modelJob' \in [Workers -> D!Job] /\ modelJob'[p] = j
         /\ \A q \in Workers : q # p => modelJob'[q] = modelJob[q]
OBVIOUS

(* What is withheld all the time a request runs only becomes less while it does, and is
   withheld when the request has taken a step.                             *)
LEMMA ObservedLess ==
  ASSUME D!TypeOK, D!Observe, NEW p \in Workers
  PROVE  /\ veiled' \in [Workers -> SUBSET Labels] /\ barred' \in [Workers -> SUBSET Bindings] 
         /\ modelJob[p].kind \in {"resolve", "catalog"} /\ modelJob'[p].kind \in {"resolve", "catalog"} =>
              veiled'[p] \subseteq veiled[p] /\ barred'[p] \subseteq barred[p]
         /\ modelJob[p].kind \in {"resolve", "catalog"} /\ modelJob'[p].kind \in {"resolve", "catalog"}
              /\ modelJob[p].at # "answered" =>
              /\ veiled'[p] \subseteq D!HiddenFrom(modelJob[p].site)'
              /\ \A b \in barred'[p] : D!OutOfService(b)'
         /\ modelJob'[p].kind \notin {"resolve", "catalog"} => veiled'[p] = {} /\ barred'[p] = {}
<1> DEFINE v(q) == IF ~D!Reads(q)' THEN {} ELSE IF ~D!Reads(q) THEN D!HiddenFrom(modelJob[q].site)'
       ELSE IF D!At(q, "answered") THEN veiled[q] ELSE veiled[q] \cap D!HiddenFrom(modelJob[q].site)'
           b(q) == IF ~D!Reads(q)' THEN {} ELSE IF ~D!Reads(q) THEN {c \in Bindings : D!OutOfService(c)'}
       ELSE IF D!At(q, "answered") THEN barred[q] ELSE {c \in barred[q] : D!OutOfService(c)'}
<1>1. veiled' = [q \in Workers |-> v(q)] /\ barred' = [q \in Workers |-> b(q)]
  BY DEF D!Observe
<1>2. veiled'[p] = v(p) /\ barred'[p] = b(p)
  BY <1>1
<1>. HIDE DEF v, b
<1>3. veiled' \in [Workers -> SUBSET Labels]
  <2>1. ASSUME NEW q \in Workers PROVE v(q) \in SUBSET Labels
    BY DEF v, D!TypeOK, D!HiddenFrom
  <2>. QED BY <1>1, <2>1
<1>4. barred' \in [Workers -> SUBSET Bindings]
  <2>1. ASSUME NEW q \in Workers PROVE b(q) \in SUBSET Bindings
    BY DEF b, D!TypeOK
  <2>. QED BY <1>1, <2>1
<1>5. D!Reads(p) <=> modelJob[p].kind \in {"resolve", "catalog"}
  BY DEF D!Reads
<1>6. D!Reads(p)' <=> modelJob'[p].kind \in {"resolve", "catalog"}
  BY DEF D!Reads
<1>7. D!At(p, "answered") <=> modelJob[p].at = "answered"
  BY DEF D!At
<1>8. CASE ~D!Reads(p)'
  BY <1>2, <1>3, <1>4, <1>5, <1>6, <1>8 DEF v, b
<1>9. CASE D!Reads(p)' /\ ~D!Reads(p)
  BY <1>2, <1>3, <1>4, <1>5, <1>6, <1>9 DEF v, b
<1>10. CASE D!Reads(p)' /\ D!Reads(p)
  BY <1>2, <1>3, <1>4, <1>5, <1>6, <1>7, <1>10 DEF v, b
<1>. QED BY <1>8, <1>9, <1>10

(* A request that does not move keeps what it knows: less is withheld from it.  *)
LEMMA StillServes ==
  ASSUME D!TypeOK, D!Observe, NEW p \in Workers, Serves(p), modelJob'[p] = modelJob[p]
  PROVE  Serves(p)'
<1>1. CASE modelJob[p].kind \in {"resolve", "catalog"}
  <2>1. veiled'[p] \subseteq veiled[p] /\ barred'[p] \subseteq barred[p]
    BY <1>1, ObservedLess
  <2>. QED BY <2>1 DEF Serves
<1>2. CASE modelJob[p].kind \notin {"resolve", "catalog"}
  <2>1. veiled'[p] = {} /\ barred'[p] = {}
    BY <1>2, ObservedLess
  <2>. QED BY <1>2, <2>1 DEF Serves
<1>. QED BY <1>1, <1>2

(* The data keep their types in every step.                                *)
LEMMA ModelsTyped ==
  ASSUME D!TypeOK, (\E p \in Workers : D!Step(p)) \/ D!Administer
  PROVE  /\ account' \in [Accounts -> D!AccountRow] /\ binding' \in [Bindings -> D!BindingRow]
         /\ label' \in [Labels -> {"none", "active", "disabled"}]
         /\ hidden' \in SUBSET (Tenants \X Labels)
<1>1. CASE D!Administer
  <2>. USE <1>1 DEF D!TypeOK
  <2>1. CASE D!SetProviderAccountStatus
    BY <2>1 DEF D!SetProviderAccountStatus, D!AccountRow
  <2>2. CASE D!SetModelBindingStatus
    BY <2>2 DEF D!SetModelBindingStatus, D!BindingRow
  <2>3. CASE D!EnsureModelLabel
    BY <2>3 DEF D!EnsureModelLabel
  <2>4. CASE D!UpsertSiteModelPolicy
    BY <2>4 DEF D!UpsertSiteModelPolicy
  <2>. QED BY <2>1, <2>2, <2>3, <2>4 DEF D!Administer
<1>2. ASSUME NEW p \in Workers, D!Step(p)
      PROVE  /\ account' \in [Accounts -> D!AccountRow] /\ binding' \in [Bindings -> D!BindingRow]
             /\ label' \in [Labels -> {"none", "active", "disabled"}]
             /\ hidden' \in SUBSET (Tenants \X Labels)
  <2>1. CASE UNCHANGED D!data
    BY <2>1 DEF D!TypeOK, D!data
  <2>2. CASE D!WriteAccount(p)
    <3>. DEFINE row == modelJob[p].row
                new == [status |-> D!Kept(account[row].status), active |-> TRUE]
    <3>1. account' = [account EXCEPT ![row] = new] /\ UNCHANGED <<binding, label, hidden>>
      BY <2>2 DEF D!WriteAccount
    <3>2. row \in Accounts => new \in D!AccountRow
      BY DEF D!TypeOK, D!AccountRow, D!Lifecycle, D!Kept
    <3>. HIDE DEF new, row
    <3>. QED BY <3>1, <3>2 DEF D!TypeOK
  <2>3. CASE D!WriteBinding(p)
    <3>. DEFINE row == modelJob[p].row
                new == [status |-> D!Kept(binding[row].status), active |-> TRUE, labels |-> modelJob[p].labels]
    <3>1. binding' = [binding EXCEPT ![row] = new] /\ UNCHANGED <<account, label, hidden>>
      BY <2>3 DEF D!WriteBinding
    <3>2. row \in Bindings => new \in D!BindingRow
      BY DEF D!TypeOK, D!BindingRow, D!Lifecycle, D!Kept, D!Job
    <3>. HIDE DEF new, row
    <3>. QED BY <3>1, <3>2 DEF D!TypeOK
  <2>4. CASE D!WriteChanged(p)
    <3>1. PICK status \in {"deleted", "live"} : D!SetStatus(modelJob[p].row, status)
      BY <2>4 DEF D!WriteChanged
    <3>2. status \in D!Lifecycle
      BY DEF D!Lifecycle
    <3>3. PICK row : row = modelJob[p].row
      OBVIOUS
    <3>4. CASE row \in Accounts /\ account' = [account EXCEPT ![row].status = status]
                 /\ UNCHANGED <<binding, label, hidden>>
      <4>1. [account[row] EXCEPT !.status = status] \in D!AccountRow
        BY <3>2, <3>4 DEF D!TypeOK, D!AccountRow
      <4>. QED BY <3>4, <4>1 DEF D!TypeOK
    <3>5. CASE row \in Bindings /\ binding' = [binding EXCEPT ![row].status = status]
                 /\ UNCHANGED <<account, label, hidden>>
      <4>1. [binding[row] EXCEPT !.status = status] \in D!BindingRow
        BY <3>2, <3>5 DEF D!TypeOK, D!BindingRow
      <4>. QED BY <3>5, <4>1 DEF D!TypeOK
    <3>. QED BY <3>1, <3>3, <3>4, <3>5 DEF D!SetStatus
  <2>5. D!WriteAccount(p) \/ D!WriteBinding(p) \/ D!WriteChanged(p) \/ UNCHANGED D!data
    BY <1>2 DEF D!Step, D!Ensure, D!Change, D!Resolve, D!AskEnsure, D!FindAccount, D!FindEnsured,
         D!AskChange, D!ChangeAccount, D!ChangeBinding, D!FindChanged, D!AskRead, D!ReadBindings, D!ReadHidden,
         D!ReadLabels, D!Close, D!Throws, D!Begin
  <2>. QED BY <2>1, <2>2, <2>3, <2>4, <2>5
<1>. QED BY <1>1, <1>2

(* A request moves to a job of its type, and the others stay where they are. *)
LEMMA ModelsMoves ==
  ASSUME D!TypeOK, NEW p \in Workers, D!Step(p)
  PROVE  /\ modelJob' \in [Workers -> D!Job]
         /\ \A q \in Workers : q # p => modelJob'[q] = modelJob[q]
<1>. USE JobIdle
<1>1. modelJob \in [Workers -> D!Job] /\ modelJob[p] \in D!Job
  BY DEF D!TypeOK
<1>2. ASSUME NEW j, modelJob' = [modelJob EXCEPT ![p] = j], j \in D!Job
      PROVE  /\ modelJob' \in [Workers -> D!Job]
             /\ \A q \in Workers : q # p => modelJob'[q] = modelJob[q]
  BY <1>1, <1>2, OneJob
<1>3. ASSUME NEW step \in {"account", "find", "write", "answered"}, D!Goto(p, step)
      PROVE \E j \in D!Job : modelJob' = [modelJob EXCEPT ![p] = j]
  <2>1. [modelJob[p] EXCEPT !.at = step] \in D!Job
    BY <1>1, <1>3 DEF D!Job
  <2>. QED BY <1>3, <2>1 DEF D!Goto
<1>4. ASSUME D!Finish(p) PROVE \E j \in D!Job : modelJob' = [modelJob EXCEPT ![p] = j]
  BY <1>4 DEF D!Finish
<1>5. \E j \in D!Job : modelJob' = [modelJob EXCEPT ![p] = j]
  <2>1. CASE D!AskEnsure(p)
    <3>1. CASE \E a \in Accounts : D!Begin(p, [D!Idle EXCEPT !.at = "find", !.kind = "ensureAccount", !.row = a])
      BY <3>1 DEF D!Begin, D!Idle, D!Job, D!Kinds
    <3>2. CASE \E b \in Bindings, ls \in SUBSET Labels :
       D!Begin(p, [D!Idle EXCEPT !.at = "account", !.kind = "ensureBinding", !.row = b, !.labels = ls])
      BY <3>2 DEF D!Begin, D!Idle, D!Job, D!Kinds
    <3>. QED BY <2>1, <3>1, <3>2 DEF D!AskEnsure
  <2>2. CASE D!AskChange(p)
    BY <2>2 DEF D!AskChange, D!Begin, D!Idle, D!Job, D!Kinds
  <2>3. CASE D!AskRead(p)
    <3>1. PICK s \in Tenants :
         \/ \E l \in Labels \cup {None} :
              D!Begin(p, [D!Idle EXCEPT !.at = "bindings", !.kind = "resolve", !.site = s, !.label = l])
         \/ D!Begin(p, [D!Idle EXCEPT !.at = "hidden", !.kind = "catalog", !.site = s])
      BY <2>3 DEF D!AskRead
    <3>. QED BY <3>1 DEF D!Begin, D!Idle, D!Job, D!Kinds
  <2>4. CASE D!ReadBindings(p)
    <3>. DEFINE seen == {[binding |-> b, labels |-> binding[b].labels] : b \in {c \in Bindings : D!Selected(c)}}
    <3>1. seen \in SUBSET D!Seen
      BY DEF D!Seen, D!TypeOK, D!BindingRow
    <3>2. [modelJob[p] EXCEPT !.at = "hidden", !.seen = seen] \in D!Job
      <4>. HIDE DEF seen
      <4>. QED BY <1>1, <3>1 DEF D!Job
    <3>3. modelJob' = [modelJob EXCEPT ![p] = [modelJob[p] EXCEPT !.at = "hidden", !.seen = seen]]
      BY <1>1, <2>4 DEF D!ReadBindings
    <3>. QED BY <3>2, <3>3
  <2>5. CASE D!ReadHidden(p)
    <3>1. D!Filtered(p) \in SUBSET D!Seen
      BY <1>1 DEF D!Filtered, D!Job
    <3>2. D!HiddenFrom(modelJob[p].site) \in SUBSET Labels
      BY DEF D!HiddenFrom
    <3>3. /\ [modelJob[p] EXCEPT !.at = "answered", !.seen = D!Filtered(p)] \in D!Job
          /\ [modelJob[p] EXCEPT !.at = "labels", !.labels = D!HiddenFrom(modelJob[p].site)] \in D!Job
      BY <1>1, <3>1, <3>2 DEF D!Job
    <3>4. \/ modelJob' = [modelJob EXCEPT ![p] = [modelJob[p] EXCEPT !.at = "answered", !.seen = D!Filtered(p)]]
          \/ modelJob' = [modelJob EXCEPT ![p] = [modelJob[p] EXCEPT !.at = "labels",
                                                  !.labels = D!HiddenFrom(modelJob[p].site)]]
      BY <1>1, <2>5 DEF D!ReadHidden
    <3>. QED BY <3>3, <3>4
  <2>6. CASE D!ReadLabels(p)
    <3>. DEFINE shown == {l \in Labels \ modelJob[p].labels : label[l] = "active"}
    <3>1. shown \in SUBSET Labels
      OBVIOUS
    <3>2. [modelJob[p] EXCEPT !.at = "answered", !.shown = shown] \in D!Job
      <4>. HIDE DEF shown
      <4>. QED BY <1>1, <3>1 DEF D!Job
    <3>3. modelJob' = [modelJob EXCEPT ![p] = [modelJob[p] EXCEPT !.at = "answered", !.shown = shown]]
      BY <1>1, <2>6 DEF D!ReadLabels
    <3>. QED BY <3>2, <3>3
  <2>7. D!Finish(p) \/ (\E step \in {"account", "find", "write", "answered"} : D!Goto(p, step))
          \/ D!AskEnsure(p) \/ D!AskChange(p) \/ D!AskRead(p) \/ D!ReadBindings(p) \/ D!ReadHidden(p)
          \/ D!ReadLabels(p)
    BY DEF D!Step, D!Ensure, D!Change, D!Resolve, D!FindAccount, D!FindEnsured, D!Ensured,
         D!ChangeAccount, D!ChangeBinding, D!FindChanged, D!Close, D!Throws, D!WriteAccount, D!WriteBinding,
         D!WriteChanged
  <2>. QED BY <1>3, <1>4, <2>1, <2>2, <2>3, <2>4, <2>5, <2>6, <2>7
<1>. QED BY <1>2, <1>5

(* The request that moves: what it reads is not withheld from it now, so neither is it
   withheld all the time.                                                  *)
LEMMA MovesServe ==
  ASSUME D!TypeOK, D!Observe, NEW p \in Workers, D!Step(p), Serves(p)
  PROVE  Serves(p)'
<1>. DEFINE j == modelJob[p]
<1>1. modelJob \in [Workers -> D!Job] /\ j \in D!Job
  BY DEF D!TypeOK
<1>2. CASE D!Finish(p)
  <2>1. modelJob'[p] = D!Idle
    BY <1>1, <1>2 DEF D!Finish
  <2>. QED BY <2>1 DEF Serves, D!Idle
<1>3. CASE j.at \in {"account", "find", "write"} /\ \E step \in {"find", "write", "answered"} : D!Goto(p, step)
  <2>1. PICK step \in {"find", "write", "answered"} : modelJob'[p] = [j EXCEPT !.at = step]
    BY <1>1, <1>3 DEF D!Goto
  <2>2. modelJob'[p].at = step /\ modelJob'[p].seen = j.seen /\ modelJob'[p].shown = j.shown
    BY <1>1, <2>1 DEF D!Job
  <2>3. j.seen = {} /\ j.shown = {}
    BY <1>3 DEF Serves
  <2>. QED BY <2>2, <2>3 DEF Serves
<1>4. CASE D!AskEnsure(p) \/ D!AskChange(p)
  <2>1. PICK new : modelJob'[p] = new /\ new.at \in {"find", "account"} /\ new.seen = {} /\ new.shown = {}
    <3>1. CASE \E a \in Accounts : D!Begin(p, [D!Idle EXCEPT !.at = "find", !.kind = "ensureAccount", !.row = a])
      BY <1>1, <3>1 DEF D!Begin, D!Idle
    <3>2. CASE \E b \in Bindings, ls \in SUBSET Labels :
       D!Begin(p, [D!Idle EXCEPT !.at = "account", !.kind = "ensureBinding", !.row = b, !.labels = ls])
      BY <1>1, <3>2 DEF D!Begin, D!Idle
    <3>3. CASE D!AskChange(p)
      BY <1>1, <3>3 DEF D!AskChange, D!Begin, D!Idle
    <3>. QED BY <1>4, <3>1, <3>2, <3>3 DEF D!AskEnsure
  <2>. QED BY <2>1 DEF Serves
<1>5. CASE D!AskRead(p)
  <2>1. PICK new : /\ modelJob'[p] = new /\ new.at \in {"bindings", "hidden"} /\ new.seen = {} /\ new.shown = {}
                   /\ new.kind \in {"resolve", "catalog"}
                   /\ (new.at = "bindings" => new.kind = "resolve")
    <3>1. PICK s \in Tenants :
         \/ \E l \in Labels \cup {None} :
              D!Begin(p, [D!Idle EXCEPT !.at = "bindings", !.kind = "resolve", !.site = s, !.label = l])
         \/ D!Begin(p, [D!Idle EXCEPT !.at = "hidden", !.kind = "catalog", !.site = s])
      BY <1>5 DEF D!AskRead
    <3>2. CASE \E l \in Labels \cup {None} :
              D!Begin(p, [D!Idle EXCEPT !.at = "bindings", !.kind = "resolve", !.site = s, !.label = l])
      <4>0. PICK l \in Labels \cup {None} :
              D!Begin(p, [D!Idle EXCEPT !.at = "bindings", !.kind = "resolve", !.site = s, !.label = l])
        BY <3>2
      <4>1. PICK new :
              /\ new = [D!Idle EXCEPT !.at = "bindings", !.kind = "resolve", !.site = s, !.label = l]
              /\ modelJob'[p] = new
        BY <1>1, <4>0 DEF D!Begin
      <4>2. new.at = "bindings" /\ new.kind = "resolve" /\ new.seen = {} /\ new.shown = {}
        BY <4>1 DEF D!Idle
      <4>. QED BY <4>1, <4>2
    <3>3. CASE D!Begin(p, [D!Idle EXCEPT !.at = "hidden", !.kind = "catalog", !.site = s])
      <4>1. PICK new :
              /\ new = [D!Idle EXCEPT !.at = "hidden", !.kind = "catalog", !.site = s]
              /\ modelJob'[p] = new
        BY <1>1, <3>3 DEF D!Begin
      <4>2. new.at = "hidden" /\ new.kind = "catalog" /\ new.seen = {} /\ new.shown = {}
        BY <4>1 DEF D!Idle
      <4>. QED BY <4>1, <4>2
    <3>. QED BY <3>1, <3>2, <3>3
  <2>. QED BY <2>1 DEF Serves
<1>6. CASE D!ReadBindings(p)
  <2>. DEFINE seen == {[binding |-> b, labels |-> binding[b].labels] : b \in {c \in Bindings : D!Selected(c)}}
  <2>1. modelJob'[p] = [j EXCEPT !.at = "hidden", !.seen = seen] /\ j.at = "bindings" /\ UNCHANGED D!data
    BY <1>1, <1>6 DEF D!ReadBindings, D!At
  <2>2. j.kind = "resolve" /\ j.shown = {}
    BY <2>1 DEF Serves
  <2>3. \A r \in seen : D!Selected(r.binding)
    OBVIOUS
  <2>. HIDE DEF seen
  <2>4. /\ modelJob'[p].at = "hidden" /\ modelJob'[p].seen = seen /\ modelJob'[p].shown = {}
        /\ modelJob'[p].kind = j.kind
    BY <1>1, <2>1, <2>2 DEF D!Job
  <2>5. \A b \in barred'[p] : D!OutOfService(b)'
    BY <2>1, <2>2, <2>4, ObservedLess
  <2>6. \A r \in seen : r.binding \notin barred'[p]
    BY <2>1, <2>3, <2>5 DEF D!Selected, D!OutOfService, D!data
  <2>. QED BY <2>2, <2>4, <2>6 DEF Serves
<1>7. CASE D!ReadHidden(p)
  <2>1. j.at = "hidden" /\ UNCHANGED D!data
    BY <1>7 DEF D!ReadHidden, D!At
  <2>2. j.kind \in {"resolve", "catalog"} /\ j.shown = {} /\ (\A r \in j.seen : r.binding \notin barred[p])
        /\ (j.kind = "catalog" => j.seen = {})
    BY <2>1 DEF Serves
  <2>3. CASE j.kind = "resolve"
    <3>1. modelJob'[p] = [j EXCEPT !.at = "answered", !.seen = D!Filtered(p)]
      BY <1>1, <1>7, <2>3 DEF D!ReadHidden
    <3>2. /\ modelJob'[p].at = "answered" /\ modelJob'[p].seen = D!Filtered(p) /\ modelJob'[p].shown = {}
          /\ modelJob'[p].kind = j.kind /\ modelJob'[p].site = j.site
      BY <1>1, <2>2, <3>1 DEF D!Job
    <3>3. barred'[p] \subseteq barred[p] /\ veiled'[p] \subseteq D!HiddenFrom(modelJob[p].site)'
      BY <2>1, <2>2, <3>2, ObservedLess
    <3>4. D!HiddenFrom(modelJob[p].site)' = D!HiddenFrom(j.site)
      BY <2>1, <3>2 DEF D!HiddenFrom, D!data
    <3>5. \A r \in D!Filtered(p) : r \in j.seen /\ r.labels \cap D!HiddenFrom(j.site) = {}
      BY DEF D!Filtered
    <3>. QED BY <2>2, <3>2, <3>3, <3>4, <3>5 DEF Serves
  <2>4. CASE j.kind = "catalog"
    <3>1. modelJob'[p] = [j EXCEPT !.at = "labels", !.labels = D!HiddenFrom(j.site)]
      BY <1>1, <1>7, <2>4 DEF D!ReadHidden
    <3>2. /\ modelJob'[p].at = "labels" /\ modelJob'[p].seen = {} /\ modelJob'[p].shown = {}
          /\ modelJob'[p].kind = j.kind /\ modelJob'[p].site = j.site
          /\ modelJob'[p].labels = D!HiddenFrom(j.site)
      BY <1>1, <2>2, <2>4, <3>1 DEF D!Job
    <3>3. veiled'[p] \subseteq D!HiddenFrom(modelJob[p].site)'
      BY <2>1, <2>2, <3>2, ObservedLess
    <3>4. D!HiddenFrom(modelJob[p].site)' = D!HiddenFrom(j.site)
      BY <2>1, <3>2 DEF D!HiddenFrom, D!data
    <3>. QED BY <2>2, <3>2, <3>3, <3>4 DEF Serves
  <2>. QED BY <2>2, <2>3, <2>4
<1>8. CASE D!ReadLabels(p)
  <2>. DEFINE shown == {l \in Labels \ j.labels : label[l] = "active"}
  <2>1. modelJob'[p] = [j EXCEPT !.at = "answered", !.shown = shown] /\ j.at = "labels"
    BY <1>1, <1>8 DEF D!ReadLabels, D!At
  <2>2. shown \cap j.labels = {}
    OBVIOUS
  <2>. HIDE DEF shown
  <2>3. j.kind \in {"resolve", "catalog"} /\ j.seen = {} /\ veiled[p] \subseteq j.labels
    BY <2>1 DEF Serves
  <2>4. /\ modelJob'[p].at = "answered" /\ modelJob'[p].seen = {} /\ modelJob'[p].shown = shown
        /\ modelJob'[p].kind = j.kind
    BY <1>1, <2>1, <2>3 DEF D!Job
  <2>5. veiled'[p] \subseteq veiled[p]
    BY <2>3, <2>4, ObservedLess
  <2>. QED BY <2>2, <2>3, <2>4, <2>5 DEF Serves
<1>9. \/ D!Finish(p)
      \/ j.at \in {"account", "find", "write"} /\ \E step \in {"find", "write", "answered"} : D!Goto(p, step)
      \/ D!AskEnsure(p) \/ D!AskChange(p) \/ D!AskRead(p) \/ D!ReadBindings(p) \/ D!ReadHidden(p)
      \/ D!ReadLabels(p)
  BY DEF D!Step, D!Ensure, D!Change, D!Resolve, D!FindAccount, D!FindEnsured, D!Ensured, D!At,
       D!ChangeAccount, D!ChangeBinding, D!FindChanged, D!Close, D!Throws, D!WriteAccount, D!WriteBinding,
       D!WriteChanged
<1>. QED BY <1>2, <1>3, <1>4, <1>5, <1>6, <1>7, <1>8, <1>9

(* The type of the directory and what its requests know are kept by every step, other
   than the steps that change none of it.                                  *)
LEMMA ModelsNext ==
  ASSUME ModelsInv, [D!Next]_D!vars PROVE ModelsInv'
<1>. USE DEF ModelsInv
<1>1. CASE UNCHANGED D!vars
  BY <1>1 DEF D!vars, D!TypeOK, Serves
<1>2. CASE D!Next
  <2>1. D!Observe /\ ((\E p \in Workers : D!Step(p)) \/ D!Administer)
    BY <1>2 DEF D!Next
  <2>2. CASE D!Administer
    <3>1. UNCHANGED modelJob
      BY <2>2 DEF D!Administer, D!SetProviderAccountStatus, D!SetModelBindingStatus, D!EnsureModelLabel,
           D!UpsertSiteModelPolicy
    <3>2. \A p \in Workers : Serves(p)'
      BY <2>1, <3>1, StillServes
    <3>3. veiled' \in [Workers -> SUBSET Labels] /\ barred' \in [Workers -> SUBSET Bindings]
      <4>1. CASE Workers = {}
        BY <2>1, <4>1 DEF D!Observe
      <4>. QED BY <2>1, <4>1, ObservedLess
    <3>. QED BY <2>1, <3>1, <3>2, <3>3, ModelsTyped DEF D!TypeOK
  <2>3. ASSUME NEW p \in Workers, D!Step(p) PROVE ModelsInv'
    <3>1. modelJob' \in [Workers -> D!Job] /\ \A q \in Workers : q # p => modelJob'[q] = modelJob[q]
      BY <2>3, ModelsMoves
    <3>2. \A q \in Workers : Serves(q)'
      BY <2>1, <2>3, <3>1, StillServes, MovesServe
    <3>3. veiled' \in [Workers -> SUBSET Labels] /\ barred' \in [Workers -> SUBSET Bindings]
      BY <2>1, <2>3, ObservedLess
    <3>. QED BY <2>1, <3>1, <3>2, <3>3, ModelsTyped DEF D!TypeOK
  <2>. QED BY <2>1, <2>2, <2>3
<1>. QED BY <1>1, <1>2

(* No request serves a site what was withheld from it all the time the request ran,
   for any accounts, bindings, labels and sites and any requests at once, though a
   request reads in two queries (resolveModelBindings, listSiteModelCatalog). *)
THEOREM WithheldIsNotServed == D!Spec => []HiddenIsNotServed
<1>1. D!Init => ModelsInv
  BY JobIdle DEF D!Init, ModelsInv, D!TypeOK, Serves, D!Idle, D!NoAccount, D!NoBinding, D!AccountRow,
       D!BindingRow, D!Lifecycle
<1>2. ModelsInv => HiddenIsNotServed
  BY DEF ModelsInv, Serves, HiddenIsNotServed, D!HiddenIsNotServed, D!At
<1>. QED BY <1>1, <1>2, ModelsNext, PTL DEF D!Spec
=============================================================================
