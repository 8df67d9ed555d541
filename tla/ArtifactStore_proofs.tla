------------------------ MODULE ArtifactStore_proofs ------------------------
(***************************************************************************)
(* Proofs about the artifact store for any number of writers, cleaners,    *)
(* names and sizes.  StoreInv is the inductive invariant of the            *)
(* publications: what is below the root is a finite set of whole files and *)
(* of temporary files of writers at work, and a publication that was       *)
(* reported is there until somebody cleans up.  CeilingInv is that of the  *)
(* ceilings: of the publications that may still succeed, one has counted   *)
(* all the others.  The first section is about sums over finite sets, by   *)
(* which the bytes below the root are counted.                             *)
(***************************************************************************)
EXTENDS ArtifactStore, TLAPS, FiniteSetTheorems

\* A finite set has no infinite descent into its subsets: of the subsets with
\* some property one is minimal.  This is the induction over finite sets used below.
LEMMA MinimalSubset ==
    ASSUME NEW S, IsFiniteSet(S), NEW Bad \in SUBSET SUBSET S, Bad # {}
    PROVE  \E U \in Bad : \A V \in SUBSET U : V # U => V \notin Bad
<1>1. IsWellFoundedOn(StrictSubsetOrdering(S), FiniteSubsetsOf(S))
  BY FS_StrictSubsetOrderingWellFounded
<1>2. FiniteSubsetsOf(S) = SUBSET S
  BY FS_FiniteSubsetsOfFinite
<1>3. \E U \in Bad : \A V \in Bad : ~(<<V, U>> \in StrictSubsetOrdering(S))
  BY <1>1, <1>2, WFMin
<1> QED
  BY <1>3 DEF StrictSubsetOrdering

\* The recursion behind MapThenSumSet, over a function.
Adds(it, size, S) ==
    it = [s \in SUBSET S |-> IF s = {} THEN 0
                             ELSE size[CHOOSE x \in s : TRUE] + it[s \ {CHOOSE x \in s : TRUE}]]

Total(size, S) == (CHOOSE it : Adds(it, size, S))[S]

\* Two such recursions agree where both are defined.
LEMMA AddsUnique ==
    ASSUME NEW size, NEW S, NEW T, NEW f, NEW g, IsFiniteSet(S), Adds(f, size, S), Adds(g, size, T)
    PROVE  \A s \in SUBSET (S \cap T) : f[s] = g[s]
<1> DEFINE Bad == {s \in SUBSET (S \cap T) : f[s] # g[s]}
<1> SUFFICES ASSUME Bad # {} PROVE FALSE
  OBVIOUS
<1>1. Bad \in SUBSET SUBSET S
  OBVIOUS
<1>2. PICK U \in Bad : \A V \in SUBSET U : V # U => V \notin Bad
  <2> HIDE DEF Bad
  <2> QED BY <1>1, MinimalSubset
<1> DEFINE c == CHOOSE x \in U : TRUE
<1>3. U # {}
  BY <1>2 DEF Adds
<1>4. c \in U
  BY <1>3
<1>5. f[U \ {c}] = g[U \ {c}]
  BY <1>2, <1>4
<1>6. f[U] = size[c] + f[U \ {c}] /\ g[U] = size[c] + g[U \ {c}]
  BY <1>2, <1>3 DEF Adds
<1> QED
  BY <1>2, <1>5, <1>6

LEMMA AddsExists ==
    ASSUME NEW size, NEW S, IsFiniteSet(S)
    PROVE  \E it : Adds(it, size, S)
<1> DEFINE Bad == {s \in SUBSET S : ~\E it : Adds(it, size, s)}
<1> SUFFICES ASSUME Bad # {} PROVE FALSE
  OBVIOUS
<1>1. Bad \in SUBSET SUBSET S
  OBVIOUS
<1>2. PICK U \in Bad : \A V \in SUBSET U : V # U => V \notin Bad
  <2> HIDE DEF Bad
  <2> QED BY <1>1, MinimalSubset
<1> DEFINE c(s) == CHOOSE x \in s : TRUE
           Of(s) == CHOOSE it : Adds(it, size, s)
           new == [s \in SUBSET U |-> IF s = {} THEN 0 ELSE size[c(s)] + Of(s \ {c(s)})[s \ {c(s)}]]
<1>3. \A V \in SUBSET U : V # U => Adds(Of(V), size, V)
  BY <1>2
<1>4. \A V \in SUBSET U : V # U => Of(V)[V] = new[V]
  <2> SUFFICES ASSUME NEW V \in SUBSET U, V # U PROVE Of(V)[V] = new[V]
    OBVIOUS
  <2>1. CASE V = {}
    <3>1. Adds(Of(V), size, V)
      BY <1>3
    <3> HIDE DEF Of
    <3> QED BY <2>1, <3>1 DEF Adds
  <2>2. CASE V # {}
    <3>1. c(V) \in V
      BY <2>2
    <3> DEFINE W == V \ {c(V)}
    <3>2. W \in SUBSET U /\ W # U /\ W \in SUBSET (V \cap W)
      BY <3>1
    <3>3. Adds(Of(V), size, V) /\ Adds(Of(W), size, W)
      BY <1>3, <3>2
    <3>4. IsFiniteSet(V)
      BY FS_Subset
    <3>5. Of(V)[W] = Of(W)[W]
      <4> HIDE DEF W, Of
      <4> QED BY <3>2, <3>3, <3>4, AddsUnique
    <3>6. Of(V)[V] = size[c(V)] + Of(V)[W]
      <4> HIDE DEF Of
      <4> QED BY <3>3, <2>2 DEF Adds
    <3> QED
      BY <3>5, <3>6, <2>2
  <2> QED
    BY <2>1, <2>2
<1>5. Adds(new, size, U)
  <2>1. \A s \in SUBSET U : s # {} => c(s) \in s
    OBVIOUS
  <2>2. \A s \in SUBSET U : s # {} => Of(s \ {c(s)})[s \ {c(s)}] = new[s \ {c(s)}]
    <3> SUFFICES ASSUME NEW s \in SUBSET U, s # {}
                 PROVE Of(s \ {c(s)})[s \ {c(s)}] = new[s \ {c(s)}]
      OBVIOUS
    <3> DEFINE W == s \ {c(s)}
    <3>1. W \in SUBSET U /\ W # U
      BY <2>1
    <3> HIDE DEF W, Of, new
    <3>2. Of(W)[W] = new[W]
      BY <3>1, <1>4
    <3> QED
      BY <3>2 DEF W
  <2>3. new = [s \in SUBSET U |-> IF s = {} THEN 0 ELSE size[c(s)] + new[s \ {c(s)}]]
    <3> HIDE DEF Of, c
    <3>1. \A s \in SUBSET U :
            new[s] = IF s = {} THEN 0 ELSE size[c(s)] + Of(s \ {c(s)})[s \ {c(s)}]
      OBVIOUS
    <3>2. \A s \in SUBSET U :
            new[s] = IF s = {} THEN 0 ELSE size[c(s)] + new[s \ {c(s)}]
      <4> SUFFICES ASSUME NEW s \in SUBSET U
                   PROVE new[s] = IF s = {} THEN 0 ELSE size[c(s)] + new[s \ {c(s)}]
        OBVIOUS
      <4> HIDE DEF new
      <4> QED BY <2>2, <3>1
    <3>3. new = [s \in SUBSET U |-> new[s]]
      OBVIOUS
    <3> HIDE DEF new
    <3> QED BY <3>2, <3>3
  <2> HIDE DEF new
  <2> QED
    BY <2>3 DEF Adds
<1> QED
  BY <1>2, <1>5

LEMMA TotalRule ==
    ASSUME NEW size, NEW S, IsFiniteSet(S)
    PROVE  /\ Total(size, {}) = 0
           /\ S # {} => LET c == CHOOSE x \in S : TRUE
                        IN  Total(size, S) = size[c] + Total(size, S \ {c})
<1> DEFINE Of(s) == CHOOSE it : Adds(it, size, s)
<1>1. \A s \in SUBSET S : Adds(Of(s), size, s)
  BY AddsExists, FS_Subset
<1>2. Total(size, {}) = 0
  <2>1. Adds(Of({}), size, {})
    BY <1>1
  <2> HIDE DEF Of
  <2>2. Of({})[{}] = 0
    BY <2>1 DEF Adds
  <2> QED BY <2>2 DEF Total, Of
<1>3. ASSUME S # {}
      PROVE  LET c == CHOOSE x \in S : TRUE
             IN  Total(size, S) = size[c] + Total(size, S \ {c})
  <2> DEFINE c == CHOOSE x \in S : TRUE
             W == S \ {c}
  <2>1. Of(S)[S] = size[c] + Of(S)[W]
    <3>1. Adds(Of(S), size, S)
      BY <1>1
    <3> HIDE DEF Of
    <3> QED BY <3>1, <1>3 DEF Adds
  <2>2. Of(S)[W] = Of(W)[W]
    <3>1. Adds(Of(S), size, S) /\ Adds(Of(W), size, W) /\ W \in SUBSET (S \cap W)
      BY <1>1
    <3> HIDE DEF Of, W
    <3> QED BY <3>1, AddsUnique
  <2> QED
    BY <2>1, <2>2 DEF Total
<1> QED
  BY <1>2, <1>3

LEMMA TotalType ==
    ASSUME NEW S, IsFiniteSet(S), NEW size, \A x \in S : size[x] \in Nat
    PROVE  Total(size, S) \in Nat
<1> DEFINE Bad == {s \in SUBSET S : Total(size, s) \notin Nat}
<1> SUFFICES ASSUME Bad # {} PROVE FALSE
  OBVIOUS
<1>1. PICK U \in Bad : \A V \in SUBSET U : V # U => V \notin Bad
  <2>1. Bad \in SUBSET SUBSET S
    OBVIOUS
  <2> HIDE DEF Bad
  <2> QED BY <2>1, MinimalSubset
<1> DEFINE c == CHOOSE x \in U : TRUE
<1>2. IsFiniteSet(U)
  BY FS_Subset
<1>3. U # {}
  <2>1. Total(size, {}) = 0
    BY TotalRule
  <2>2. {} \notin Bad
    BY <2>1
  <2> QED BY <1>1, <2>2
<1>4. c \in U /\ Total(size, U) = size[c] + Total(size, U \ {c})
  BY <1>2, <1>3, TotalRule
<1>5. Total(size, U \ {c}) \in Nat
  BY <1>1, <1>4
<1> QED
  BY <1>1, <1>4, <1>5

\* The order does not matter: any element can be taken out first.
LEMMA TotalRemove ==
    ASSUME NEW S, IsFiniteSet(S), NEW size, \A x \in S : size[x] \in Nat, NEW e \in S
    PROVE  Total(size, S) = size[e] + Total(size, S \ {e})
<1> DEFINE Bad == {s \in SUBSET S : \E x \in s : Total(size, s) # size[x] + Total(size, s \ {x})}
<1> SUFFICES ASSUME Bad # {} PROVE FALSE
  OBVIOUS
<1>1. PICK U \in Bad : \A V \in SUBSET U : V # U => V \notin Bad
  <2>1. Bad \in SUBSET SUBSET S
    OBVIOUS
  <2> HIDE DEF Bad
  <2> QED BY <2>1, MinimalSubset
<1>2. PICK x \in U : Total(size, U) # size[x] + Total(size, U \ {x})
  BY <1>1
<1> DEFINE c == CHOOSE y \in U : TRUE
<1>3. IsFiniteSet(U) /\ U \subseteq S
  BY FS_Subset
<1>4. c \in U /\ Total(size, U) = size[c] + Total(size, U \ {c})
  BY <1>2, <1>3, TotalRule
<1>5. c # x
  BY <1>2, <1>4
<1> HIDE DEF c
<1>6. Total(size, U \ {c}) = size[x] + Total(size, (U \ {c}) \ {x})
  BY <1>1, <1>4, <1>5, <1>2
<1>7. Total(size, U \ {x}) = size[c] + Total(size, (U \ {x}) \ {c})
  BY <1>1, <1>4, <1>5, <1>2
<1>8. (U \ {c}) \ {x} = (U \ {x}) \ {c} /\ Total(size, (U \ {x}) \ {c}) \in Nat
  <2>1. IsFiniteSet((U \ {x}) \ {c})
    BY <1>3, FS_RemoveElement
  <2> QED BY <1>3, <2>1, TotalType
<1>9. size[x] \in Nat /\ size[c] \in Nat
  BY <1>3, <1>4, <1>2
<1> DEFINE rest == Total(size, (U \ {x}) \ {c})
<1>10. /\ Total(size, U) = size[c] + (size[x] + rest)
       /\ size[x] + Total(size, U \ {x}) = size[x] + (size[c] + rest)
  BY <1>4, <1>6, <1>7, <1>8
<1>11. rest \in Nat
  BY <1>8
<1> HIDE DEF rest
<1>12. size[c] + (size[x] + rest) = size[x] + (size[c] + rest)
  BY <1>9, <1>11
<1> QED
  BY <1>2, <1>10, <1>12

\* What is matched one to one with something at least as large adds up to no more.
LEMMA TotalInjection ==
    ASSUME NEW S, IsFiniteSet(S), NEW T, IsFiniteSet(T), NEW small, NEW large, NEW to,
           \A x \in S : /\ small[x] \in Nat /\ to[x] \in T /\ small[x] <= large[to[x]]
                        /\ \A y \in S : to[x] = to[y] => x = y,
           \A y \in T : large[y] \in Nat
    PROVE  Total(small, S) <= Total(large, T)
<1> DEFINE Image(s) == {to[x] : x \in s}
           Bad == {s \in SUBSET S : ~(Total(small, s) <= Total(large, Image(s)))}
<1>1. \A s \in SUBSET S : IsFiniteSet(s) /\ IsFiniteSet(Image(s)) /\ Image(s) \subseteq T
  <2>1. \A s \in SUBSET S : IsFiniteSet(s) /\ Image(s) \subseteq T
    BY FS_Subset
  <2> QED BY <2>1, FS_Subset
<1>2. Bad = {}
  <2> SUFFICES ASSUME Bad # {} PROVE FALSE
    OBVIOUS
  <2>1. PICK U \in Bad : \A V \in SUBSET U : V # U => V \notin Bad
    <3>1. Bad \in SUBSET SUBSET S
      OBVIOUS
    <3> HIDE DEF Bad
    <3> QED BY <3>1, MinimalSubset
  <2>2. U # {}
    <3>1. Total(small, {}) = 0 /\ Total(large, {}) = 0
      BY TotalRule
    <3>2. Image({}) = {}
      OBVIOUS
    <3>3. Total(small, {}) <= Total(large, Image({}))
      <4>1. Total(large, Image({})) = Total(large, {})
        BY <3>2
      <4> HIDE DEF Image
      <4> QED BY <3>1, <4>1
    <3>4. {} \notin Bad
      BY <3>3
    <3> QED BY <2>1, <3>4
  <2>3. PICK x \in U : TRUE
    BY <2>2
  <2>4. Total(small, U) = small[x] + Total(small, U \ {x})
    BY <1>1, TotalRemove
  <2>5. Total(large, Image(U)) = large[to[x]] + Total(large, Image(U) \ {to[x]})
    <3>1. to[x] \in Image(U) /\ IsFiniteSet(Image(U)) /\ \A y \in Image(U) : large[y] \in Nat
      BY <1>1
    <3> HIDE DEF Image
    <3> QED BY <3>1, TotalRemove
  <2>6. Image(U) \ {to[x]} = Image(U \ {x})
    OBVIOUS
  <2>7. Total(small, U \ {x}) <= Total(large, Image(U \ {x}))
    BY <2>1
  <2>8. Total(small, U \ {x}) \in Nat /\ Total(large, Image(U \ {x})) \in Nat
    <3>1. U \ {x} \in SUBSET S
      OBVIOUS
    <3>2. IsFiniteSet(U \ {x}) /\ IsFiniteSet(Image(U \ {x})) /\ Image(U \ {x}) \subseteq T
      BY <1>1, <3>1
    <3> HIDE DEF Image
    <3> QED BY <3>1, <3>2, TotalType
  <2>9. small[x] \in Nat /\ large[to[x]] \in Nat /\ small[x] <= large[to[x]]
    OBVIOUS
  <2>10. Total(small, U) <= Total(large, Image(U))
    <3> DEFINE a == Total(small, U \ {x})
               b == Total(large, Image(U \ {x}))
    <3>1. Total(small, U) = small[x] + a /\ Total(large, Image(U)) = large[to[x]] + b
      BY <2>4, <2>5, <2>6
    <3>2. a \in Nat /\ b \in Nat /\ a <= b
      BY <2>7, <2>8
    <3> HIDE DEF Image, a, b
    <3>3. small[x] + a <= large[to[x]] + b
      BY <2>9, <3>2
    <3> QED BY <3>1, <3>3
  <2> QED
    BY <2>1, <2>10
<1>3. Total(large, Image(S)) <= Total(large, T)
  <2> DEFINE I == Image(S)
             Worse == {t \in SUBSET T : I \subseteq t /\ ~(Total(large, I) <= Total(large, t))}
  <2> SUFFICES ASSUME Worse # {} PROVE FALSE
    BY <1>1
  <2>1. PICK U \in Worse : \A V \in SUBSET U : V # U => V \notin Worse
    <3>1. Worse \in SUBSET SUBSET T
      OBVIOUS
    <3> HIDE DEF Worse
    <3> QED BY <3>1, MinimalSubset
  <2>2. IsFiniteSet(I) /\ I \subseteq T
    BY <1>1
  <2> HIDE DEF I
  <2>3. Total(large, I) \in Nat
    BY <2>2, TotalType
  <2>4. PICK x \in U : x \notin I
    <3>1. I \subseteq U /\ ~(Total(large, I) <= Total(large, U))
      BY <2>1
    <3>2. Total(large, I) <= Total(large, I)
      BY <2>3
    <3>3. U # I
      BY <3>1, <3>2
    <3> QED BY <3>1, <3>3
  <2>5. IsFiniteSet(U) /\ IsFiniteSet(U \ {x})
    BY FS_Subset, FS_RemoveElement
  <2>6. Total(large, U) = large[x] + Total(large, U \ {x})
    BY <2>5, TotalRemove
  <2>7. Total(large, I) <= Total(large, U \ {x}) /\ Total(large, U \ {x}) \in Nat /\ large[x] \in Nat
    BY <2>1, <2>4, <2>5, TotalType
  <2> QED
    BY <2>1, <2>3, <2>6, <2>7
<1>4. /\ Total(small, S) \in Nat /\ Total(large, T) \in Nat /\ Total(large, Image(S)) \in Nat
      /\ Total(small, S) <= Total(large, Image(S))
  <2>1. S \in SUBSET S /\ IsFiniteSet(Image(S)) /\ Image(S) \subseteq T
    BY <1>1
  <2>2. Total(small, S) \in Nat /\ Total(large, T) \in Nat
    BY TotalType
  <2>3. Total(small, S) <= Total(large, Image(S))
    BY <1>2, <2>1
  <2> HIDE DEF Image
  <2>4. Total(large, Image(S)) \in Nat
    BY <2>1, TotalType
  <2> QED BY <2>2, <2>3, <2>4
<1> HIDE DEF Image
<1> QED
  BY <1>3, <1>4

\* Of finitely many numbers one is the largest.
LEMMA LargestExists ==
    ASSUME NEW S, IsFiniteSet(S), S # {}, NEW rank, \A x \in S : rank[x] \in Int
    PROVE  \E m \in S : \A x \in S : rank[x] <= rank[m]
<1> DEFINE Bad == {s \in SUBSET S : s # {} /\ ~\E m \in s : \A x \in s : rank[x] <= rank[m]}
<1> SUFFICES ASSUME Bad # {} PROVE FALSE
  OBVIOUS
<1>1. PICK U \in Bad : \A V \in SUBSET U : V # U => V \notin Bad
  <2>1. Bad \in SUBSET SUBSET S
    OBVIOUS
  <2> HIDE DEF Bad
  <2> QED BY <2>1, MinimalSubset
<1>2. PICK e \in U : TRUE
  BY <1>1
<1>3. CASE U \ {e} = {}
  BY <1>1, <1>2, <1>3
<1>4. CASE U \ {e} # {}
  <2>1. PICK m \in U \ {e} : \A x \in U \ {e} : rank[x] <= rank[m]
    <3>1. U \ {e} \in SUBSET U /\ U \ {e} # U /\ U \ {e} \in SUBSET S
      BY <1>2
    <3>2. U \ {e} \notin Bad
      BY <1>1, <3>1
    <3> QED BY <1>4, <3>1, <3>2
  <2>2. \E n \in {m, e} : rank[m] <= rank[n] /\ rank[e] <= rank[n]
    BY <1>1
  <2>3. \A x, m1, n \in U : rank[x] <= rank[m1] /\ rank[m1] <= rank[n] => rank[x] <= rank[n]
    BY <1>1
  <2> QED
    BY <1>1, <2>1, <2>2, <2>3
<1> QED
  BY <1>3, <1>4

\* The sum of the sizes of files, as the model writes it, is their total.
LEMMA SumIsTotal ==
    ASSUME NEW S \in SUBSET Paths, IsFiniteSet(S)
    PROVE  MapThenSumSet(LAMBDA p : files[p].size, S) = Total([p \in Paths |-> files[p].size], S)
<1> DEFINE size == [p \in Paths |-> files[p].size]
           Sums(it) == it = [s \in SUBSET S |-> IF s = {} THEN 0
                                ELSE files[CHOOSE x \in s : TRUE].size + it[s \ {CHOOSE x \in s : TRUE}]]
<1>1. MapThenSumSet(LAMBDA p : files[p].size, S) = (CHOOSE it : Sums(it))[S]
  BY DEF MapThenSumSet, MapThenFoldSet
<1>2. \A it : Sums(it) <=> Adds(it, size, S)
  <2> SUFFICES ASSUME NEW it PROVE Sums(it) <=> Adds(it, size, S)
    OBVIOUS
  <2>1. \A s \in SUBSET S : s # {} => size[CHOOSE x \in s : TRUE] = files[CHOOSE x \in s : TRUE].size
    OBVIOUS
  <2>2. [s \in SUBSET S |-> IF s = {} THEN 0
              ELSE files[CHOOSE x \in s : TRUE].size + it[s \ {CHOOSE x \in s : TRUE}]]
        = [s \in SUBSET S |-> IF s = {} THEN 0
              ELSE size[CHOOSE x \in s : TRUE] + it[s \ {CHOOSE x \in s : TRUE}]]
    <3> HIDE DEF size
    <3> QED BY <2>1
  <2> HIDE DEF size
  <2> QED
    BY <2>2 DEF Adds
<1> HIDE DEF Sums, size
<1>3. \E it : Adds(it, size, S)
  BY AddsExists
<1>4. Adds(CHOOSE it : Sums(it), size, S)
  <2>1. \E it : Sums(it)
    BY <1>2, <1>3
  <2> QED
    BY <1>2, <2>1
<1>5. Adds(CHOOSE it : Adds(it, size, S), size, S)
  BY <1>3
<1>6. (CHOOSE it : Sums(it))[S] = (CHOOSE it : Adds(it, size, S))[S]
  BY <1>4, <1>5, AddsUnique
<1> QED
  BY <1>1, <1>6 DEF Total, size
-----------------------------------------------------------------------------
\* What is true of the store at every step.

Steps == {"idle", "start", "look", "create", "write", "scan", "move", "over"}

StoreTypes ==
    /\ wants \in [Writers -> Wishes]
    /\ files \in [Paths -> Contents]
    /\ at \in [Writers -> Steps]
    /\ unread \in [Writers -> SUBSET Directories]
    /\ listed \in [Writers -> SUBSET Paths]
    /\ counted \in [Writers -> [files : Nat, bytes : Nat]]
    /\ result \in [Writers -> {"none", "published", "refused", "died"}]
    /\ cleaning \in [Cleaners -> {"none", "start", "removing", "over"}]

New(w) == wants[w].manner = "new"

\* Reports and the outputs of the one analysis do not meet.
Apart ==
    /\ \A w \in Writers : New(w) => wants[w].path.dir # "analysis"
    /\ \A w \in Writers : ~New(w) => wants[w].path.dir = "analysis"
    /\ \A v, w \in Writers : ~New(v) /\ ~New(w) => v = w

\* Only its writer has a temporary file, and what has another name is whole.
FileInv(p) ==
    /\ files[p].owner = "none" => ~Exists(p)
    /\ p.name \in Writers /\ Exists(p) => files[p].owner = p.name /\ p = Temporary(p.name)
    /\ p.name \notin Writers /\ Exists(p) => files[p].whole
    /\ p.name \notin Writers => \A w \in Writers :
          New(w) /\ files[p].owner = w =>
              p = wants[w].path /\ result[w] = "published" /\ files[p].size = wants[w].size

Unread(w) == unread[w] = {} /\ listed[w] = {}

Uncounted(w) == Unread(w) /\ counted[w] = [files |-> 0, bytes |-> 0]

WriterInv(w) ==
    /\ at[w] # "idle" => ValidName(w)
    /\ (at[w] = "over") <=> (result[w] # "none")
    /\ at[w] \in {"look", "scan"} => New(w)
    /\ at[w] = "write" => files[Temporary(w)].owner = w
    /\ at[w] \in {"scan", "move"} /\ Exists(Temporary(w)) =>
          files[Temporary(w)].whole /\ files[Temporary(w)].size = wants[w].size
    /\ ValidName(w) /\ (at[w] \in {"idle", "start", "look", "create"} \/ result[w] = "published") =>
          ~Exists(Temporary(w))
    /\ at[w] \in {"idle", "start", "look", "create", "write"} \/ ~New(w) => Uncounted(w)
    /\ at[w] = "move" \/ result[w] = "published" => Unread(w)
    \* A name is its writer's only when the writer was told so, and then until a clean-up.
    /\ ValidName(w) /\ files[wants[w].path].owner = w => result[w] = "published"

Untouched == \A c \in Cleaners : cleaning[c] \in {"none", "start"}

Kept == Untouched => \A w \in Writers : result[w] = "published" => files[wants[w].path].owner = w

StoreInv ==
    /\ StoreTypes /\ Apart /\ Kept
    /\ \A p \in Paths : FileInv(p)
    /\ \A w \in Writers : WriterInv(w)

-----------------------------------------------------------------------------
\* What a step of one writer leaves alone.

\* A step of w that changes no file but its temporary one, and publishes nothing.
OwnStep(w) ==
    /\ wants' = wants /\ cleaning' = cleaning
    /\ files' \in [Paths -> Contents]
    /\ \A p \in Paths : p # Temporary(w) => files'[p] = files[p]
    /\ at' \in [Writers -> Steps] /\ unread' \in [Writers -> SUBSET Directories]
    /\ listed' \in [Writers -> SUBSET Paths]
    /\ counted' \in [Writers -> [files : Nat, bytes : Nat]]
    /\ result' \in [Writers -> {"none", "published", "refused", "died"}]
    /\ \A v \in Writers \ {w} :
          /\ at'[v] = at[v] /\ unread'[v] = unread[v] /\ listed'[v] = listed[v]
          /\ counted'[v] = counted[v] /\ result'[v] = result[v]
    /\ result[w] # "published" /\ result'[w] # "published"

\* The temporary file of a writer is below the root once the name is valid.
LEMMA TemporaryPath ==
    ASSUME StoreTypes, NEW w \in Writers, ValidName(w)
    PROVE  /\ Temporary(w) \in Paths /\ Temporary(w).name = w /\ wants[w].path \in Paths
           /\ \A v \in Writers : wants[v].path # Temporary(w)
           /\ \A v \in Writers : Temporary(v) = Temporary(w) => v = w
BY WritersAssumption DEF StoreTypes, Wishes, Paths, Temporary, ValidName

\* A writer keeps its part of the invariant while others work, also when a clean-up takes
\* a file of its that is not open.
LEMMA WriterStays ==
    ASSUME NEW w \in Writers, StoreTypes, WriterInv(w),
           wants'[w] = wants[w], at'[w] = at[w], result'[w] = result[w], unread'[w] = unread[w],
           listed'[w] = listed[w], counted'[w] = counted[w],
           ValidName(w) => \/ files'[Temporary(w)] = files[Temporary(w)]
                           \/ files'[Temporary(w)] = NoFile /\ at[w] # "write",
           ValidName(w) /\ files'[wants[w].path].owner = w => files[wants[w].path].owner = w
    PROVE  WriterInv(w)'
<1>1. Temporary(w)' = Temporary(w) /\ ValidName(w)' = ValidName(w) /\ New(w)' = New(w)
  BY DEF Temporary, ValidName, New
<1>2. ValidName(w) /\ Exists(Temporary(w))' =>
         Exists(Temporary(w)) /\ files'[Temporary(w)] = files[Temporary(w)]
  BY <1>1 DEF Exists
<1>3. Unread(w)' = Unread(w) /\ Uncounted(w)' = Uncounted(w)
  BY DEF Unread, Uncounted
<1> QED
  BY <1>1, <1>2, <1>3 DEF WriterInv

\* A file that nobody touches keeps its part while what is published stays published.
LEMMA FileStays ==
    ASSUME NEW p \in Paths, StoreTypes, FileInv(p), files'[p] = files[p] \/ files'[p] = NoFile,
           \A v \in Writers :
               /\ wants'[v] = wants[v] \/ (~New(v) /\ ~New(v)' /\ Temporary(v)' = Temporary(v))
               /\ New(v) /\ result[v] = "published" => result'[v] = "published"
    PROVE  FileInv(p)'
<1>1. files[p] \in Contents /\ \A v \in Writers : New(v)' = New(v) /\ Temporary(v)' = Temporary(v)
  BY DEF StoreTypes, New, Temporary
<1>2. CASE files'[p] = NoFile
  BY <1>2, WritersAssumption DEF FileInv, Exists, NoFile
<1>3. CASE files'[p] = files[p]
  <2>1. Exists(p)' = Exists(p)
    BY <1>3 DEF Exists
  <2>2. \A v \in Writers : New(v) => wants'[v] = wants[v]
    OBVIOUS
  <2> QED
    BY <1>1, <1>3, <2>1, <2>2 DEF FileInv
<1> QED
  BY <1>2, <1>3

LEMMA OwnStepKeeps ==
    ASSUME NEW w \in Writers, StoreInv, OwnStep(w), ValidName(w),
           \A p \in Paths : p = Temporary(w) => FileInv(p)', WriterInv(w)'
    PROVE  StoreInv'
<1>1. StoreTypes' /\ Apart'
  BY DEF StoreInv, StoreTypes, Apart, OwnStep, New
<1>2. \A p \in Paths : FileInv(p)'
  <2> SUFFICES ASSUME NEW p \in Paths, p # Temporary(w) PROVE FileInv(p)'
    OBVIOUS
  <2> QED
    BY FileStays DEF StoreInv, OwnStep
<1>3. \A v \in Writers : WriterInv(v)'
  <2> SUFFICES ASSUME NEW v \in Writers \ {w} PROVE WriterInv(v)'
    OBVIOUS
  <2>1. ValidName(v) => Temporary(v) \in Paths /\ Temporary(v) # Temporary(w)
                        /\ wants[v].path \in Paths /\ wants[v].path # Temporary(w)
    BY TemporaryPath DEF StoreInv
  <2> QED
    BY <2>1, WriterStays DEF StoreInv, OwnStep
<1>4. Kept'
  <2> SUFFICES ASSUME Untouched, NEW v \in Writers, result'[v] = "published"
               PROVE  files'[wants[v].path].owner = v
    BY DEF Kept, OwnStep, Untouched
  <2>1. v # w /\ result[v] = "published"
    BY DEF OwnStep
  <2>2. at[v] = "over" /\ ValidName(v)
    BY <2>1 DEF StoreInv, WriterInv
  <2>3. wants[v].path \in Paths /\ wants[v].path # Temporary(w)
    BY <2>2, TemporaryPath DEF StoreInv
  <2> QED
    BY <2>1, <2>3 DEF OwnStep, StoreInv, Kept
<1> QED
  BY <1>1, <1>2, <1>3, <1>4 DEF StoreInv

-----------------------------------------------------------------------------
\* The steps of a writer.

\* A step of w that leaves the files alone, or takes its temporary one away.
LEMMA NoNewFile ==
    ASSUME NEW w \in Writers, StoreInv, OwnStep(w), ValidName(w), WriterInv(w)',
           files' = files \/ Unlink(Temporary(w))
    PROVE  StoreInv'
<1>1. Temporary(w) \in Paths
  BY TemporaryPath DEF StoreInv
<1>2. \A p \in Paths : files'[p] = files[p] \/ files'[p] = NoFile
  BY <1>1 DEF Unlink, StoreInv, StoreTypes
<1>3. \A p \in Paths : FileInv(p)'
  BY <1>2, FileStays DEF StoreInv, OwnStep
<1> QED
  BY <1>3, OwnStepKeeps

LEMMA GoesOn ==
    ASSUME NEW w \in Writers, StoreTypes, NEW to \in Steps, at' = [at EXCEPT ![w] = to]
    PROVE  /\ at' \in [Writers -> Steps] /\ at'[w] = to
           /\ \A v \in Writers \ {w} : at'[v] = at[v]
BY DEF StoreTypes

LEMMA GivesBack ==
    ASSUME NEW w \in Writers, StoreTypes, NEW r \in {"refused", "died", "published"}, Returns(w, r)
    PROVE  /\ at' \in [Writers -> Steps] /\ at'[w] = "over" /\ result'[w] = r
           /\ result' \in [Writers -> {"none", "published", "refused", "died"}]
           /\ \A v \in Writers \ {w} : at'[v] = at[v] /\ result'[v] = result[v]
BY DEF StoreTypes, Returns, Steps

LEMMA PinKeeps ==
    ASSUME NEW w \in Writers, StoreInv, ValidName(w), PinDirectories(w)
    PROVE  StoreInv'
<1> USE DEF PinDirectories
<1>1. OwnStep(w)
  <2>1. CASE UNCHANGED result
    BY <2>1, GoesOn DEF StoreInv, StoreTypes, Steps, OwnStep, Goes, WriterInv, Returns
  <2>2. CASE Returns(w, "refused")
    BY <2>2, GivesBack DEF StoreInv, StoreTypes, OwnStep, WriterInv
  <2> QED BY <2>1, <2>2
<1>2. WriterInv(w)'
  BY DEF StoreInv, StoreTypes, WriterInv, Goes, Returns, ValidName, New, Temporary, Exists, Uncounted, Unread, Apart
<1> QED
  BY <1>1, <1>2, NoNewFile

LEMMA LookKeeps ==
    ASSUME NEW w \in Writers, StoreInv, LookAtDestination(w)
    PROVE  StoreInv'
<1> USE DEF LookAtDestination
<1>1. OwnStep(w) /\ ValidName(w)
  <2>1. CASE Goes(w, "look", "create") /\ UNCHANGED result
    BY <2>1, GoesOn DEF StoreInv, StoreTypes, Steps, OwnStep, Goes, WriterInv
  <2>2. CASE Returns(w, "refused")
    BY <2>2, GivesBack DEF StoreInv, StoreTypes, OwnStep, WriterInv
  <2> QED BY <2>1, <2>2
<1>2. WriterInv(w)'
  BY DEF StoreInv, StoreTypes, WriterInv, Goes, Returns, ValidName, New, Temporary, Exists, Uncounted, Unread
<1> QED
  BY <1>1, <1>2, NoNewFile

LEMMA CreateKeeps ==
    ASSUME NEW w \in Writers, StoreInv, CreateTemporary(w)
    PROVE  StoreInv'
<1> USE DEF CreateTemporary
<1> DEFINE t == Temporary(w)
<1>1. at[w] = "create" /\ ValidName(w) /\ wants' = wants
  BY DEF StoreInv, WriterInv, Goes
<1>2. t \in Paths /\ t.name = w /\ wants[w].path \in Paths /\ wants[w].path # t
  BY <1>1, TemporaryPath DEF StoreInv
<1>3. files' = [files EXCEPT ![t] = [owner |-> w, size |-> 0, whole |-> FALSE]]
      /\ [owner |-> w, size |-> 0, whole |-> FALSE] \in Contents
  BY DEF Contents
<1> HIDE DEF t
<1>4. OwnStep(w)
  BY <1>1, <1>2, <1>3 DEF StoreInv, StoreTypes, Steps, OwnStep, Goes, WriterInv, t
<1>5. files'[t] = [owner |-> w, size |-> 0, whole |-> FALSE] /\ Temporary(w)' = t
  BY <1>1, <1>2, <1>3 DEF StoreInv, StoreTypes, t, Temporary
<1>6. \A p \in Paths : p = t => FileInv(p)'
  BY <1>1, <1>2, <1>5, WritersAssumption DEF FileInv, Exists, NoFile, Temporary, t
<1>7. WriterInv(w)'
  <2>1. files'[wants[w].path] = files[wants[w].path]
    BY <1>2, <1>3 DEF StoreInv, StoreTypes
  <2>2. at'[w] = "write" /\ result'[w] = result[w]
    BY DEF Goes, StoreInv, StoreTypes
  <2> QED
    BY <1>1, <1>2, <1>5, <2>1, <2>2 DEF StoreInv, WriterInv, ValidName, New, Uncounted, Unread
<1> QED
  BY <1>1, <1>4, <1>6, <1>7, OwnStepKeeps DEF t

LEMMA WriteKeeps ==
    ASSUME NEW w \in Writers, StoreInv, WriteSome(w)
    PROVE  StoreInv'
<1> USE DEF WriteSome
<1> DEFINE t == Temporary(w)
<1>1. at[w] = "write" /\ ValidName(w) /\ wants' = wants /\ result[w] = "none" /\ files[t].owner = w
  BY DEF StoreInv, StoreTypes, WriterInv
<1>2. t \in Paths /\ t.name = w /\ wants[w].path \in Paths /\ wants[w].path # t
  BY <1>1, TemporaryPath DEF StoreInv
<1>3. CASE /\ ~Whole(w) /\ files[t].size = wants[w].limit
           /\ Unlink(t) /\ Returns(w, "refused") /\ UNCHANGED unread
  <2>1. OwnStep(w)
    BY <1>1, <1>2, <1>3, GivesBack DEF StoreInv, StoreTypes, OwnStep, Unlink, NoFile, Contents
  <2>2. files'[t] = NoFile /\ files'[wants[w].path] = files[wants[w].path]
    BY <1>2, <1>3 DEF StoreInv, StoreTypes, Unlink
  <2>3. WriterInv(w)'
    BY <1>1, <1>3, <2>2, GivesBack DEF StoreInv, WriterInv, ValidName, New, Temporary, Exists, Uncounted, Unread
  <2> QED
    BY <1>1, <1>3, <2>1, <2>3, NoNewFile
<1>4. CASE /\ ~Whole(w) /\ files' = [files EXCEPT ![t].size = @ + 1]
           /\ UNCHANGED <<at, unread, result>>
  <2>1. files'[t] = [files[t] EXCEPT !.size = @ + 1] /\ files'[t] \in Contents /\ files'[t].owner = w
    BY <1>1, <1>2, <1>4 DEF StoreInv, StoreTypes, Contents
  <2>2. OwnStep(w)
    BY <1>1, <1>2, <1>4, <2>1 DEF StoreInv, StoreTypes, OwnStep
  <2>3. \A p \in Paths : p = t => FileInv(p)'
    BY <1>1, <1>2, <2>1, WritersAssumption DEF FileInv, Temporary
  <2>4. files'[wants[w].path] = files[wants[w].path]
    BY <1>2, <1>4 DEF StoreInv, StoreTypes
  <2>5. WriterInv(w)'
    BY <1>1, <1>4, <2>1, <2>4 DEF StoreInv, WriterInv, ValidName, New, Temporary, Exists, Uncounted, Unread
  <2> QED
    BY <1>1, <2>2, <2>3, <2>5, OwnStepKeeps
<1>5. CASE /\ Whole(w) /\ files' = [files EXCEPT ![t].whole = TRUE]
           /\ at' = [at EXCEPT ![w] = IF wants[w].manner = "new" THEN "scan" ELSE "move"]
           /\ unread' = [unread EXCEPT ![w] = IF wants[w].manner = "new" THEN Directories ELSE {}]
           /\ UNCHANGED result
  <2>1. /\ files'[t] = [files[t] EXCEPT !.whole = TRUE] /\ files'[t] \in Contents
        /\ files'[t].owner = w /\ files'[t].whole /\ files'[t].size = wants[w].size
    <3>1. files[t] \in Contents /\ files'[t] = [files[t] EXCEPT !.whole = TRUE]
      BY <1>2, <1>5 DEF StoreInv, StoreTypes
    <3>2. files[t].owner = w /\ files[t].size = wants[w].size
      BY <1>1, <1>5 DEF Whole
    <3> QED
      BY <3>1, <3>2 DEF Contents
  <2>2. OwnStep(w)
    <3>1. files' \in [Paths -> Contents] /\ \A p \in Paths : p # t => files'[p] = files[p]
      BY <1>2, <1>5, <2>1 DEF StoreInv, StoreTypes
    <3>2. unread' \in [Writers -> SUBSET Directories] /\ \A v \in Writers \ {w} : unread'[v] = unread[v]
      BY <1>5 DEF StoreInv, StoreTypes
    <3>3. at' \in [Writers -> Steps] /\ \A v \in Writers \ {w} : at'[v] = at[v]
      BY <1>5 DEF StoreInv, StoreTypes, Steps
    <3> QED
      BY <1>1, <1>5, <3>1, <3>2, <3>3 DEF StoreInv, StoreTypes, OwnStep
  <2>3. \A p \in Paths : p = t => FileInv(p)'
    BY <1>1, <1>2, <2>1, WritersAssumption DEF FileInv, Temporary
  <2>4. files'[wants[w].path] = files[wants[w].path]
    BY <1>2, <1>5 DEF StoreInv, StoreTypes
  <2>5. WriterInv(w)'
    <3>1. at'[w] = IF New(w) THEN "scan" ELSE "move"
      BY <1>5 DEF StoreInv, StoreTypes, New
    <3>2. ~New(w) => Uncounted(w)'
      BY <1>5 DEF StoreInv, StoreTypes, WriterInv, New, Uncounted, Unread
    <3>3. Temporary(w)' = t /\ ValidName(w)' /\ New(w)' = New(w) /\ result'[w] = "none"
      BY <1>1, <1>5 DEF Temporary, ValidName, New
    <3>4. Uncounted(w)' => Unread(w)'
      BY DEF Uncounted
    <3>5. files'[wants'[w].path].owner # w
      BY <1>1, <2>4 DEF StoreInv, WriterInv
    <3> QED
      BY <1>1, <2>1, <3>1, <3>2, <3>3, <3>4, <3>5 DEF WriterInv
  <2> QED
    BY <1>1, <2>2, <2>3, <2>5, OwnStepKeeps
<1> QED
  BY <1>3, <1>4, <1>5

LEMMA ListKeeps ==
    ASSUME NEW w \in Writers, StoreInv, ListDirectory(w)
    PROVE  StoreInv'
<1> USE DEF ListDirectory
<1>1. at[w] = "scan" /\ ValidName(w) /\ New(w) /\ result[w] = "none"
  BY DEF StoreInv, StoreTypes, WriterInv
<1>2. OwnStep(w)
  BY <1>1 DEF StoreInv, StoreTypes, OwnStep, Existing
<1>3. WriterInv(w)'
  BY <1>1 DEF StoreInv, StoreTypes, WriterInv, ValidName, New, Temporary, Exists, Uncounted, Unread
<1> QED
  BY <1>1, <1>2, <1>3, NoNewFile

LEMMA CountKeeps ==
    ASSUME NEW w \in Writers, StoreInv, CountEntry(w)
    PROVE  StoreInv'
<1> USE DEF CountEntry
<1>1. at[w] = "scan" /\ ValidName(w) /\ New(w) /\ result[w] = "none"
  BY DEF StoreInv, StoreTypes, WriterInv
<1>2. PICK p \in listed[w] :
          LET count == [files |-> counted[w].files + 1, bytes |-> counted[w].bytes + files[p].size]
          IN  /\ listed' = [listed EXCEPT ![w] = @ \ {p}]
              /\ IF Exists(p) /\ Within(count)
                 THEN counted' = [counted EXCEPT ![w] = count] /\ UNCHANGED <<files, at, result>>
                 ELSE Unlink(Temporary(w)) /\ Returns(w, "refused") /\ UNCHANGED counted
  OBVIOUS
<1>3. p \in Paths /\ files[p].size \in Nat /\ counted[w].files \in Nat /\ counted[w].bytes \in Nat
  BY DEF StoreInv, StoreTypes, Contents
<1>4. CASE UNCHANGED <<files, at, result>>
  <2>1. counted' \in [Writers -> [files : Nat, bytes : Nat]] /\ \A v \in Writers \ {w} : counted'[v] = counted[v]
    BY <1>2, <1>3 DEF StoreInv, StoreTypes
  <2>2. OwnStep(w)
    BY <1>1, <1>2, <1>4, <2>1 DEF StoreInv, StoreTypes, OwnStep
  <2>3. WriterInv(w)'
    BY <1>1, <1>2, <1>4 DEF StoreInv, StoreTypes, WriterInv, ValidName, New, Temporary, Exists, Uncounted, Unread
  <2> QED
    BY <1>1, <1>4, <2>2, <2>3, NoNewFile
<1>5. CASE Unlink(Temporary(w)) /\ Returns(w, "refused") /\ UNCHANGED counted
  <2>1. Temporary(w) \in Paths /\ wants[w].path \in Paths /\ wants[w].path # Temporary(w)
    BY <1>1, TemporaryPath DEF StoreInv
  <2>2. OwnStep(w)
    BY <1>1, <1>2, <1>5, <2>1, GivesBack DEF StoreInv, StoreTypes, OwnStep, Unlink, NoFile, Contents
  <2>3. files'[wants[w].path] = files[wants[w].path]
    BY <2>1, <1>5 DEF StoreInv, StoreTypes, Unlink
  <2>4. WriterInv(w)'
    BY <1>1, <1>5, <2>3, GivesBack DEF StoreInv, WriterInv, ValidName, New, Temporary, Exists, Uncounted, Unread
  <2> QED
    BY <1>1, <1>5, <2>2, <2>4, NoNewFile
<1> QED
  BY <1>2, <1>4, <1>5

LEMMA AcceptKeeps ==
    ASSUME NEW w \in Writers, StoreInv, AcceptUsage(w)
    PROVE  StoreInv'
<1> USE DEF AcceptUsage
<1>1. at[w] = "scan" /\ ValidName(w) /\ New(w) /\ result[w] = "none" /\ at' = [at EXCEPT ![w] = "move"]
  BY DEF StoreInv, StoreTypes, WriterInv, Goes
<1>2. OwnStep(w)
  BY <1>1, GoesOn DEF StoreInv, StoreTypes, OwnStep, Steps
<1>3. WriterInv(w)'
  BY <1>1 DEF StoreInv, StoreTypes, WriterInv, ValidName, New, Temporary, Exists, Uncounted, Unread
<1> QED
  BY <1>1, <1>2, <1>3, NoNewFile

\* A call that fails, or the death of the process.
LEMMA FaultKeeps ==
    ASSUME NEW w \in Writers, StoreInv, FailToWrite(w) \/ DieWriting(w)
    PROVE  StoreInv'
<1> USE DEF FailToWrite, DieWriting
<1>1. at[w] \in PinnedSteps /\ ValidName(w) /\ result[w] = "none"
  BY DEF StoreInv, StoreTypes, WriterInv, PinnedSteps
<1>2. Temporary(w) \in Paths /\ wants[w].path \in Paths /\ wants[w].path # Temporary(w)
  BY <1>1, TemporaryPath DEF StoreInv
<1>3. PICK r \in {"refused", "died"} : Returns(w, r)
  OBVIOUS
<1>4. OwnStep(w)
  <2>1. files' \in [Paths -> Contents] /\ \A p \in Paths : p # Temporary(w) => files'[p] = files[p]
    <3>1. NoFile \in Contents
      BY DEF NoFile, Contents
    <3> QED
      BY <1>2, <3>1 DEF StoreInv, StoreTypes, Unlink
  <2> QED
    BY <1>1, <1>3, <2>1, GivesBack DEF StoreInv, StoreTypes, OwnStep
<1>5. files'[wants[w].path] = files[wants[w].path]
  BY <1>2 DEF StoreInv, StoreTypes, Unlink
<1>6. WriterInv(w)'
  BY <1>1, <1>3, <1>5, GivesBack DEF StoreInv, WriterInv, ValidName, New, Temporary, Exists, Uncounted, Unread, PinnedSteps
<1> QED
  BY <1>1, <1>4, <1>6, NoNewFile

\* Taking a file away from a writer that is not writing it.
LEMMA RefuseKeeps ==
    ASSUME NEW w \in Writers, StoreInv, at[w] = "move", Unlink(Temporary(w)), Returns(w, "refused"),
           UNCHANGED <<wants, unread, listed, counted, cleaning>>
    PROVE  StoreInv'
BY FaultKeeps DEF FailToWrite, PinnedSteps

LEMMA PublishKeeps ==
    ASSUME NEW w \in Writers, StoreInv, at[w] = "move",
           Exists(Temporary(w)), New(w) => ~Exists(wants[w].path),
           files' = [files EXCEPT ![wants[w].path] = files[Temporary(w)], ![Temporary(w)] = NoFile],
           Returns(w, "published"),
           UNCHANGED <<wants, unread, listed, counted, cleaning>>
    PROVE  StoreInv'
<1> DEFINE t == Temporary(w)
           d == wants[w].path
<1>1. ValidName(w) /\ files[t].whole /\ files[t].size = wants[w].size /\ Unread(w)
      /\ (~New(w) => Uncounted(w))
  BY DEF StoreInv, WriterInv
<1>2. t \in Paths /\ d \in Paths /\ d # t /\ t.name = w /\ (\A v \in Writers : wants[v].path # t)
      /\ (\A v \in Writers : Temporary(v) = t => v = w)
  BY <1>1, TemporaryPath DEF StoreInv
<1>3. d.name \notin Writers /\ \A v \in Writers : Temporary(v) # d
  BY <1>1, <1>2, WritersAssumption DEF StoreInv, StoreTypes, Wishes, Temporary
<1>4. files[t] \in Contents /\ files[t].owner = w
  BY <1>2 DEF StoreInv, StoreTypes, FileInv
<1>5. /\ files' \in [Paths -> Contents] /\ files'[d] = files[t] /\ files'[t] = NoFile
      /\ \A p \in Paths \ {d, t} : files'[p] = files[p]
  BY <1>2, <1>4 DEF StoreInv, StoreTypes, NoFile, Contents
<1> HIDE DEF t, d
<1>6. /\ at' \in [Writers -> Steps] /\ at'[w] = "over" /\ result'[w] = "published"
      /\ result' \in [Writers -> {"none", "published", "refused", "died"}]
      /\ \A v \in Writers \ {w} : at'[v] = at[v] /\ result'[v] = result[v]
  BY GivesBack DEF StoreInv
<1>7. \A v \in Writers : /\ Temporary(v)' = Temporary(v) /\ ValidName(v)' = ValidName(v)
                         /\ New(v)' = New(v) /\ Unread(v)' = Unread(v) /\ Uncounted(v)' = Uncounted(v)
  BY DEF Temporary, ValidName, New, Unread, Uncounted
<1>8. StoreTypes' /\ Apart'
  BY <1>5, <1>6, <1>7 DEF StoreInv, StoreTypes, Apart
<1>9. ASSUME NEW p \in Paths PROVE FileInv(p)'
  <2>1. CASE p = d
    <3>1. Exists(p)' /\ files'[p] = files[t] /\ p = wants'[w].path
      BY <1>4, <1>5, <2>1, WritersAssumption DEF Exists, NoFile, d
    <3>2. p.name \notin Writers /\ w # "none"
      BY <1>3, <2>1, WritersAssumption
    <3> QED
      BY <1>1, <1>4, <1>6, <3>1, <3>2 DEF FileInv
  <2>2. CASE p # d
    <3>1. files'[p] = files[p] \/ files'[p] = NoFile
      BY <1>5, <2>2
    <3> QED
      BY <1>6, <3>1, FileStays DEF StoreInv
  <2> QED
    BY <2>1, <2>2
<1>10. ASSUME NEW v \in Writers PROVE WriterInv(v)'
  <2>1. CASE v = w
    <3>1. ~Exists(Temporary(w))'
      BY <1>5, <1>7 DEF Exists, t, NoFile
    <3> QED
      BY <1>1, <1>6, <1>7, <2>1, <3>1 DEF WriterInv
  <2>2. CASE v # w
    <3>1. ValidName(v) => files'[Temporary(v)] = files[Temporary(v)]
      BY <1>2, <1>3, <1>5, <2>2, TemporaryPath DEF StoreInv
    <3>2. ValidName(v) /\ files'[wants[v].path].owner = v => files[wants[v].path].owner = v
      BY <1>2, <1>4, <1>5, <2>2, TemporaryPath DEF StoreInv
    <3> QED
      BY <1>6, <2>2, <3>1, <3>2, WriterStays DEF StoreInv
  <2> QED
    BY <2>1, <2>2
<1>11. Kept'
  <2> SUFFICES ASSUME Untouched, NEW v \in Writers, result'[v] = "published"
               PROVE  files'[wants[v].path].owner = v
    BY DEF Kept, Untouched
  <2>1. CASE v = w
    BY <1>4, <1>5, <2>1 DEF d
  <2>2. CASE v # w
    <3>1. result[v] = "published" /\ files[wants[v].path].owner = v /\ ValidName(v)
      BY <1>6, <2>2 DEF StoreInv, Kept, WriterInv
    <3>2. wants[v].path \in Paths
      BY <3>1, TemporaryPath DEF StoreInv
    <3>3. ASSUME wants[v].path = d PROVE FALSE
      <4>1. New(w)
        BY <2>2, <3>3 DEF StoreInv, Apart, d
      <4> QED
        BY <3>1, <3>3, <4>1, WritersAssumption DEF Exists, NoFile, d
    <3> QED
      BY <1>2, <1>5, <3>1, <3>2, <3>3
  <2> QED
    BY <2>1, <2>2
<1> QED
  BY <1>8, <1>9, <1>10, <1>11 DEF StoreInv

LEMMA MoveKeeps ==
    ASSUME NEW w \in Writers, StoreInv, MoveToName(w)
    PROVE  StoreInv'
<1>1. at[w] = "move" /\ UNCHANGED <<wants, unread, listed, counted, cleaning>>
  BY DEF MoveToName
<1>2. CASE ~Exists(Temporary(w)) \/ (wants[w].manner = "new" /\ Exists(wants[w].path))
  BY <1>1, <1>2, RefuseKeeps DEF MoveToName
<1>3. CASE ~(~Exists(Temporary(w)) \/ (wants[w].manner = "new" /\ Exists(wants[w].path)))
  BY <1>1, <1>3, PublishKeeps DEF MoveToName, New
<1> QED
  BY <1>2, <1>3

\* A clean-up takes any file that no writer has open.
LEMMA CleanKeeps ==
    ASSUME NEW c \in Cleaners, StoreInv, Clean(c)
    PROVE  StoreInv'
<1>1. UNCHANGED <<wants, at, unread, listed, counted, result>>
  BY DEF Clean, StartCleaning, RemoveOne, EndCleaning
<1>2. CASE UNCHANGED files /\ (StartCleaning(c) \/ EndCleaning(c))
  <2>1. cleaning' \in [Cleaners -> {"none", "start", "removing", "over"}] /\ (Untouched' => Untouched)
    BY <1>2 DEF StoreInv, StoreTypes, Untouched, StartCleaning, EndCleaning
  <2>2. \A p \in Paths : FileInv(p)'
    BY <1>1, <1>2, FileStays DEF StoreInv
  <2>3. \A w \in Writers : WriterInv(w)'
    BY <1>1, <1>2, WriterStays DEF StoreInv
  <2> QED
    BY <1>1, <1>2, <2>1, <2>2, <2>3 DEF StoreInv, StoreTypes, Apart, New, Kept
<1>3. CASE RemoveOne(c)
  <2>1. PICK q \in Paths : files' = [files EXCEPT ![q] = NoFile] /\ ~HeldOpen(q)
    BY <1>3 DEF RemoveOne, Unlink, Existing
  <2>2. files' \in [Paths -> Contents] /\ (\A p \in Paths : files'[p] = IF p = q THEN NoFile ELSE files[p])
    BY <2>1 DEF StoreInv, StoreTypes, NoFile, Contents
  <2>3. \A p \in Paths : FileInv(p)'
    BY <1>1, <2>2, FileStays DEF StoreInv
  <2>4. ASSUME NEW w \in Writers PROVE WriterInv(w)'
    <3>1. ValidName(w) => Temporary(w) \in Paths /\ wants[w].path \in Paths
      BY TemporaryPath DEF StoreInv
    <3>2. ValidName(w) => \/ files'[Temporary(w)] = files[Temporary(w)]
                          \/ files'[Temporary(w)] = NoFile /\ at[w] # "write"
      BY <2>1, <2>2, <3>1 DEF HeldOpen
    <3>3. ValidName(w) /\ files'[wants[w].path].owner = w => files[wants[w].path].owner = w
      BY <2>2, <3>1, WritersAssumption DEF NoFile
    <3> QED
      BY <1>1, <3>2, <3>3, WriterStays DEF StoreInv
  <2>5. cleaning' = cleaning /\ ~Untouched
    BY <1>3 DEF RemoveOne, Untouched
  <2> QED
    BY <1>1, <2>2, <2>3, <2>4, <2>5 DEF StoreInv, StoreTypes, Apart, New, Kept, Untouched
<1> QED
  BY <1>2, <1>3 DEF Clean, StartCleaning, EndCleaning

\* A publication begins: a report, or the next output of the analysis.
LEMMA StartKeeps ==
    ASSUME NEW w \in Writers, StoreInv, NEW name \in {"a", "b"},
           at[w] = "idle" \/ (result[w] = "published" /\ ~New(w)),
           ValidName(w), at' = [at EXCEPT ![w] = "start"],
           \/ wants' = wants /\ result' = result /\ at[w] = "idle"
           \/ /\ ~New(w) /\ wants' = [wants EXCEPT ![w].path = [dir |-> "analysis", name |-> name]]
              /\ result' = [result EXCEPT ![w] = "none"]
              /\ files[[dir |-> "analysis", name |-> name]].owner # w,
           UNCHANGED <<files, unread, listed, counted, cleaning>>
    PROVE  StoreInv'
<1>1. StoreTypes /\ Apart /\ wants[w] \in Wishes /\ ValidName(w)
      /\ (~New(w) => wants[w].path.dir = "analysis")
  BY DEF StoreInv, StoreTypes, Apart
<1>2. /\ at' \in [Writers -> Steps] /\ at'[w] = "start"
      /\ \A v \in Writers \ {w} : at'[v] = at[v]
  BY <1>1 DEF StoreTypes, Steps
<1>3. /\ result' \in [Writers -> {"none", "published", "refused", "died"}] /\ result'[w] = "none"
      /\ \A v \in Writers \ {w} : result'[v] = result[v]
  BY <1>1 DEF StoreTypes, StoreInv, WriterInv
<1>4. /\ wants' \in [Writers -> Wishes] /\ wants'[w].manner = wants[w].manner
      /\ wants'[w].path.dir = wants[w].path.dir
      /\ files[wants'[w].path].owner # w
      /\ \A v \in Writers \ {w} : wants'[v] = wants[v]
  <2>1. CASE wants' = wants /\ result' = result /\ at[w] = "idle"
    BY <1>1, <2>1 DEF StoreTypes, StoreInv, WriterInv
  <2>2. CASE ~New(w) /\ wants' = [wants EXCEPT ![w].path = [dir |-> "analysis", name |-> name]]
             /\ files[[dir |-> "analysis", name |-> name]].owner # w
    <3>1. "analysis" \in Directories \cup {"outside"}
      BY <1>1, <2>2 DEF Wishes
    <3>2. [dir |-> "analysis", name |-> name] \in [dir : Directories \cup {"outside"}, name : {"a", "b"}]
      BY <3>1
    <3>3. [wants[w] EXCEPT !.path = [dir |-> "analysis", name |-> name]] \in Wishes
      BY <1>1, <3>2 DEF Wishes
    <3>4. wants'[w] = [wants[w] EXCEPT !.path = [dir |-> "analysis", name |-> name]]
      BY <1>1, <2>2 DEF StoreTypes
    <3>5. wants'[w].path = [dir |-> "analysis", name |-> name] /\ wants'[w].manner = wants[w].manner
      BY <1>1, <3>4 DEF Wishes
    <3> QED
      BY <1>1, <2>2, <3>3, <3>4, <3>5 DEF StoreTypes
  <2> QED
    BY <2>1, <2>2
<1>5. \A v \in Writers : /\ Temporary(v)' = Temporary(v) /\ New(v)' = New(v) /\ ValidName(v)' = ValidName(v)
  BY <1>4 DEF Temporary, New, ValidName
<1>6. StoreTypes' /\ Apart'
  BY <1>2, <1>3, <1>4, <1>5 DEF StoreInv, StoreTypes, Apart
<1>7. \A p \in Paths : FileInv(p)'
  <2>1. \A v \in Writers :
           /\ wants'[v] = wants[v] \/ (~New(v) /\ ~New(v)' /\ Temporary(v)' = Temporary(v))
           /\ New(v) /\ result[v] = "published" => result'[v] = "published"
    BY <1>3, <1>4, <1>5 DEF StoreInv, WriterInv
  <2> QED
    BY <2>1, FileStays DEF StoreInv
<1>8. ASSUME NEW v \in Writers PROVE WriterInv(v)'
  <2>1. CASE v = w
    <3>1. ~Exists(Temporary(w))' /\ Uncounted(w)'
      BY <1>5 DEF StoreInv, WriterInv, Exists, Uncounted, Unread
    <3> QED
      BY <1>1, <1>2, <1>3, <1>4, <1>5, <2>1, <3>1 DEF WriterInv
  <2>2. CASE v # w
    BY <1>2, <1>3, <1>4, <2>2, WriterStays DEF StoreInv
  <2> QED
    BY <2>1, <2>2
<1>9. Kept'
  BY <1>3, <1>4 DEF StoreInv, Kept, Untouched
<1> QED
  BY <1>6, <1>7, <1>8, <1>9 DEF StoreInv

LEMMA PublishStepKeeps ==
    ASSUME NEW w \in Writers, StoreInv, Publish(w)
    PROVE  StoreInv'
<1>1. ValidName(w) \/ ~PinDirectories(w)
  BY DEF StoreInv, WriterInv, PinDirectories, Goes
<1> QED
  BY <1>1, PinKeeps, LookKeeps, CreateKeeps, WriteKeeps, ListKeeps, CountKeeps, AcceptKeeps, MoveKeeps DEF Publish

-----------------------------------------------------------------------------
\* Why the reports together stay within the ceilings.

\* Publications whose file is written and may become a report, or is one.
Admitted == {w \in Writers : New(w) /\ (at[w] \in {"scan", "move"} \/ result[w] = "published")}

\* Whatever v has below the root, w has counted it or is about to see it.
Sees(w, v, seen) ==
    \A p \in Paths : files[p].owner = v =>
        v \in seen[w] \/ p.dir \in unread[w] \/ p \in listed[w] \/ Temporary(v) \in listed[w]

Sizes == [w \in Writers |-> wants[w].size]

\* rank is the order in which they began to look at what is there, seen those whose file
\* they counted: each sees the files of all that began before it.
Covers(clock, rank, seen) ==
    /\ clock \in Nat /\ rank \in [Writers -> Nat] /\ seen \in [Writers -> SUBSET Writers]
    /\ \A w \in Admitted : rank[w] < clock
    /\ \A v, w \in Admitted : rank[v] <= rank[w] => Sees(w, v, seen)
    /\ \A w \in Admitted :
          /\ Cardinality(seen[w]) <= counted[w].files
          /\ Total(Sizes, seen[w]) <= counted[w].bytes
          /\ Within(counted[w])

CeilingInv == \E clock, rank, seen : Covers(clock, rank, seen)

\* Who has begun to look and what belongs to whom stays: so does the order.
LEMMA CoversStays ==
    ASSUME StoreInv, NEW clock, NEW rank, NEW seen, Covers(clock, rank, seen),
           \A w \in Writers : /\ New(w)' = New(w) /\ wants'[w].size = wants[w].size
                              /\ Temporary(w)' = Temporary(w),
           \A w \in Admitted' :
               /\ w \in Admitted
               /\ unread'[w] = unread[w] /\ listed'[w] = listed[w] /\ counted'[w] = counted[w],
           \A p \in Paths : files'[p].owner \in Admitted' => files[p].owner = files'[p].owner
    PROVE  CeilingInv'
<1>1. Sizes' = Sizes
  BY DEF Sizes
<1>2. \A v, w \in Admitted' : rank[v] <= rank[w] => Sees(w, v, seen)'
  BY DEF Sees, Covers, Admitted
<1>3. \A w \in Admitted' : /\ rank[w] < clock /\ Cardinality(seen[w]) <= counted'[w].files
                           /\ Total(Sizes', seen[w]) <= counted'[w].bytes /\ Within(counted'[w])
  BY <1>1 DEF Covers
<1>4. Covers(clock, rank, seen)'
  BY <1>2, <1>3 DEF Covers
<1> QED
  BY <1>4 DEF CeilingInv

\* A writer that begins to look is the last of them: it sees every file there is.
LEMMA CoversNewcomer ==
    ASSUME StoreInv, StoreInv', NEW w \in Writers, at[w] = "write", at'[w] = "scan", New(w),
           NEW clock, NEW rank, NEW seen, Covers(clock, rank, seen),
           wants' = wants, counted' = counted, listed' = listed, unread'[w] = Directories,
           \A v \in Writers \ {w} : at'[v] = at[v] /\ unread'[v] = unread[v],
           result' = result, \A p \in Paths : files'[p].owner = files[p].owner
    PROVE  CeilingInv'
<1> DEFINE later == [rank EXCEPT ![w] = clock]
           saw == [seen EXCEPT ![w] = {}]
<1>1. /\ later \in [Writers -> Nat] /\ saw \in [Writers -> SUBSET Writers]
      /\ later[w] = clock /\ saw[w] = {} /\ clock \in Nat
      /\ \A v \in Writers \ {w} : later[v] = rank[v] /\ saw[v] = seen[v]
  BY DEF Covers
<1>2. w \notin Admitted /\ Admitted' = Admitted \cup {w} /\ Admitted \subseteq Writers
  <2>1. result[w] = "none"
    BY DEF StoreInv, WriterInv
  <2>2. \A v \in Writers : New(v)' = New(v)
    BY DEF New
  <2> QED
    BY <2>1, <2>2 DEF Admitted
<1>3. \A v \in Admitted : rank[v] < clock /\ rank[v] \in Nat
  BY <1>2 DEF Covers
<1> HIDE DEF later, saw
<1>4. \A v \in Admitted' : later[v] < clock + 1
  BY <1>1, <1>2, <1>3
<1>5. Sizes' = Sizes
  BY DEF Sizes
<1>6. ASSUME NEW u \in Admitted', NEW v \in Admitted', later[v] <= later[u] PROVE Sees(u, v, saw)'
  <2>1. CASE u = w
    BY <2>1 DEF Sees, Paths
  <2>2. CASE u # w
    <3>1. v # w /\ rank[v] <= rank[u] /\ u \in Admitted /\ v \in Admitted
      BY <1>1, <1>2, <1>3, <1>6, <2>2
    <3>2. Sees(u, v, seen)
      BY <3>1 DEF Covers
    <3>3. saw[u] = seen[u] /\ unread'[u] = unread[u] /\ Temporary(v)' = Temporary(v)
      BY <1>1, <1>2, <2>2, <3>1 DEF Temporary
    <3> QED
      BY <3>2, <3>3 DEF Sees
  <2> QED
    BY <2>1, <2>2
<1>7. ASSUME NEW u \in Admitted'
      PROVE  /\ Cardinality(saw[u]) <= counted'[u].files
             /\ Total(Sizes, saw[u]) <= counted'[u].bytes /\ Within(counted'[u])
  <2>1. CASE u = w
    <3>1. counted[w] = [files |-> 0, bytes |-> 0]
      BY DEF StoreInv, WriterInv, Uncounted
    <3>2. Cardinality({}) = 0 /\ Total(Sizes, {}) = 0
      BY FS_EmptySet, TotalRule
    <3> QED
      BY <1>1, <2>1, <3>1, <3>2, StoreAssumption DEF Within
  <2>2. CASE u # w
    BY <1>1, <1>2, <2>2 DEF Covers
  <2> QED
    BY <2>1, <2>2
<1>8. Covers(clock + 1, later, saw)'
  BY <1>1, <1>4, <1>5, <1>6, <1>7 DEF Covers
<1> QED
  BY <1>8 DEF CeilingInv

LEMMA CoversList ==
    ASSUME StoreInv, NEW w \in Writers, NEW clock, NEW rank, NEW seen, Covers(clock, rank, seen),
           ListDirectory(w)
    PROVE  CeilingInv'
<1> USE DEF ListDirectory
<1>1. PICK d \in unread[w] : /\ unread' = [unread EXCEPT ![w] = @ \ {d}]
                             /\ listed' = [listed EXCEPT ![w] = {p \in Existing : p.dir = d}]
  OBVIOUS
<1>2. Admitted' = Admitted /\ Admitted \subseteq Writers /\ Sizes' = Sizes
  BY DEF Admitted, New, Sizes
<1>3. ASSUME NEW u \in Admitted, NEW v \in Admitted, rank[v] <= rank[u] PROVE Sees(u, v, seen)'
  <2>1. Sees(u, v, seen) /\ Temporary(v)' = Temporary(v)
    BY <1>3 DEF Covers, Temporary
  <2>2. CASE u # w
    BY <1>1, <1>2, <2>1, <2>2 DEF Sees, StoreInv, StoreTypes
  <2>3. CASE u = w
    <3> SUFFICES ASSUME NEW p \in Paths, files[p].owner = v, v \notin seen[u], p.dir \notin unread'[u]
                 PROVE  p \in listed'[u]
      BY DEF Sees
    <3>1. p.dir \in unread[u] /\ p.dir = d
      BY <1>1, <2>1, <2>3 DEF Sees, StoreInv, StoreTypes
    <3>2. p \in Existing
      BY <1>2, WritersAssumption DEF StoreInv, FileInv, Existing, Exists, NoFile
    <3> QED
      BY <1>1, <2>3, <3>1, <3>2 DEF StoreInv, StoreTypes
  <2> QED
    BY <2>2, <2>3
<1>4. Covers(clock, rank, seen)'
  BY <1>2, <1>3 DEF Covers
<1> QED
  BY <1>4 DEF CeilingInv

\* An entry that is counted counts for its owner, with the size its report has or will have.
LEMMA CoversCount ==
    ASSUME StoreInv, NEW w \in Writers, NEW clock, NEW rank, NEW seen, Covers(clock, rank, seen),
           at[w] = "scan", NEW e \in listed[w], Exists(e), listed' = [listed EXCEPT ![w] = @ \ {e}],
           NEW count, count = [files |-> counted[w].files + 1, bytes |-> counted[w].bytes + files[e].size],
           Within(count), counted' = [counted EXCEPT ![w] = count],
           UNCHANGED <<wants, files, at, unread, result, cleaning>>
    PROVE  CeilingInv'
<1>o. PICK o : o = files[e].owner
  OBVIOUS
<1>s. PICK saw : saw = IF o \in Admitted THEN [seen EXCEPT ![w] = @ \cup {o}] ELSE seen
  OBVIOUS
<1>1. Admitted' = Admitted /\ Admitted \subseteq Writers /\ Sizes' = Sizes /\ w \in Admitted
  BY DEF Admitted, New, Sizes, StoreInv, WriterInv
<1>2. e \in Paths /\ files[e] \in Contents /\ counted[w] \in [files : Nat, bytes : Nat]
  BY DEF StoreInv, StoreTypes
<1>3. /\ saw \in [Writers -> SUBSET Writers] /\ (o \in Admitted => o \in saw[w])
      /\ saw[w] \subseteq seen[w] \cup {o} /\ (o \notin Admitted => saw[w] = seen[w])
      /\ \A u \in Writers : seen[u] \subseteq saw[u] /\ (u # w => saw[u] = seen[u])
  BY <1>1, <1>s DEF Covers
<1>4. o \in Admitted => files[e].size = Sizes[o]
  <2> SUFFICES ASSUME o \in Admitted PROVE files[e].size = wants[o].size
    BY <1>1 DEF Sizes
  <2>1. CASE e.name \in Writers
    <3>1. o = e.name /\ e = Temporary(o)
      BY <1>o, <1>2, <2>1 DEF StoreInv, FileInv
    <3>2. ValidName(o)
      BY <1>1 DEF Admitted, StoreInv, WriterInv
    <3> QED
      BY <1>1, <3>1, <3>2 DEF Admitted, StoreInv, WriterInv
  <2>2. CASE e.name \notin Writers
    BY <1>o, <1>1, <1>2, <2>2 DEF Admitted, StoreInv, FileInv
  <2> QED
    BY <2>1, <2>2
<1>5. counted'[w] = count /\ \A u \in Writers \ {w} : counted'[u] = counted[u] /\ listed'[u] = listed[u]
  BY DEF StoreInv, StoreTypes
<1>6. listed'[w] = listed[w] \ {e}
  BY DEF StoreInv, StoreTypes
<1>7. ASSUME NEW u \in Admitted, NEW v \in Admitted, rank[v] <= rank[u] PROVE Sees(u, v, saw)'
  <2>1. Sees(u, v, seen) /\ Temporary(v)' = Temporary(v)
    BY <1>7 DEF Covers, Temporary
  <2>2. CASE u # w
    BY <1>1, <1>3, <1>5, <2>1, <2>2 DEF Sees
  <2>3. CASE u = w
    <3> SUFFICES ASSUME NEW p \in Paths, files[p].owner = v, v \notin saw[w], p.dir \notin unread[w]
                 PROVE  p \in listed'[w] \/ Temporary(v) \in listed'[w]
      BY <2>1, <2>3 DEF Sees
    <3>1. v \notin seen[w] /\ v # o
      BY <1>1, <1>3
    <3>2. p # e
      BY <1>o, <3>1
    <3>3. Temporary(v) # e
      <4>1. SUFFICES ASSUME Temporary(v) = e PROVE FALSE
        OBVIOUS
      <4>2. e.name = v
        BY <4>1 DEF Temporary
      <4> QED
        BY <1>o, <1>1, <1>2, <3>1, <4>2 DEF StoreInv, FileInv
    <3> QED
      BY <1>6, <2>1, <2>3, <3>1, <3>2, <3>3 DEF Sees
  <2> QED
    BY <2>2, <2>3
<1>8. ASSUME NEW u \in Admitted
      PROVE  /\ Cardinality(saw[u]) <= counted'[u].files
             /\ Total(Sizes, saw[u]) <= counted'[u].bytes /\ Within(counted'[u])
  <2>1. CASE u # w
    BY <1>1, <1>3, <1>5, <2>1 DEF Covers
  <2>2. CASE u = w
    <3>1. /\ seen[w] \subseteq Writers /\ IsFiniteSet(seen[w]) /\ IsFiniteSet(saw[w])
          /\ \A x \in Writers : Sizes[x] \in Nat
      BY <1>1, <1>3, FS_Subset, WritersAssumption DEF Covers, Sizes, StoreInv, StoreTypes, Wishes
    <3>2. /\ Cardinality(seen[w]) <= counted[w].files /\ Total(Sizes, seen[w]) <= counted[w].bytes
          /\ Cardinality(seen[w]) \in Nat /\ Total(Sizes, seen[w]) \in Nat
      BY <1>1, <3>1, FS_CardinalityType, TotalType DEF Covers
    <3>3. files[e].size \in Nat /\ counted[w].files \in Nat /\ counted[w].bytes \in Nat
      BY <1>2 DEF Contents
    <3>a. /\ counted'[w].files = counted[w].files + 1 /\ Within(counted'[w])
          /\ counted'[w].bytes = counted[w].bytes + files[e].size
      BY <1>5
    <3>4. CASE saw[w] = seen[w]
      BY <2>2, <3>2, <3>3, <3>4, <3>a
    <3>5. CASE saw[w] # seen[w]
      <4>1. saw[w] = seen[w] \cup {o} /\ o \notin seen[w] /\ o \in Admitted
        BY <1>3, <1>1, <3>5
      <4>2. Cardinality(saw[w]) = Cardinality(seen[w]) + 1
        BY <3>1, <4>1, FS_AddElement
      <4>3. Total(Sizes, saw[w]) = Sizes[o] + Total(Sizes, saw[w] \ {o}) /\ saw[w] \ {o} = seen[w]
        BY <1>1, <1>3, <3>1, <4>1, TotalRemove
      <4>4. Total(Sizes, saw[w]) = files[e].size + Total(Sizes, seen[w])
        BY <1>4, <4>1, <4>3
      <4>5. Total(Sizes, saw[w]) <= counted'[w].bytes
        BY <3>2, <3>3, <3>a, <4>4
      <4> QED
        BY <2>2, <3>2, <3>3, <3>a, <4>2, <4>5
    <3> QED
      BY <3>4, <3>5
  <2> QED
    BY <2>1, <2>2
<1>9. Covers(clock, rank, saw)'
  BY <1>1, <1>3, <1>7, <1>8 DEF Covers
<1> QED
  BY <1>9 DEF CeilingInv

\* A report that takes its name is seen wherever its temporary file was.
LEMMA CoversMove ==
    ASSUME StoreInv, NEW w \in Writers, NEW clock, NEW rank, NEW seen, Covers(clock, rank, seen),
           at[w] = "move", New(w), Exists(Temporary(w)),
           files' = [files EXCEPT ![wants[w].path] = files[Temporary(w)], ![Temporary(w)] = NoFile],
           Returns(w, "published"), UNCHANGED <<wants, unread, listed, counted, cleaning>>
    PROVE  CeilingInv'
<1>1. /\ \A v \in Writers : New(v)' = New(v) /\ Temporary(v)' = Temporary(v)
      /\ Sizes' = Sizes
  BY DEF New, Temporary, Sizes
<1>2. Admitted' = Admitted /\ Admitted \subseteq Writers /\ w \in Admitted
  BY <1>1, GivesBack DEF Admitted, StoreInv
<1>3. ValidName(w) /\ Temporary(w) \in Paths /\ wants[w].path \in Paths /\ Temporary(w).name = w
  BY TemporaryPath DEF StoreInv, WriterInv
<1>4. files[Temporary(w)].owner = w
  BY <1>3 DEF StoreInv, FileInv
<1>5. \A p \in Paths : p # wants[w].path => files'[p] = files[p] \/ files'[p] = NoFile
  BY <1>3 DEF StoreInv, StoreTypes
<1>6. files'[wants[w].path].owner \in {w, "none"} /\ NoFile.owner = "none"
  BY <1>3, <1>4 DEF StoreInv, StoreTypes, NoFile
<1>7. ASSUME NEW u \in Admitted, NEW v \in Admitted, rank[v] <= rank[u] PROVE Sees(u, v, seen)'
  <2>1. Sees(u, v, seen)
    BY <1>7 DEF Covers
  <2> SUFFICES ASSUME NEW p \in Paths, files'[p].owner = v
               PROVE  v \in seen[u] \/ p.dir \in unread[u] \/ p \in listed[u] \/ Temporary(v) \in listed[u]
    BY <1>1, <1>2 DEF Sees
  <2>2. v # "none"
    BY <1>2, WritersAssumption
  <2>3. CASE p = wants[w].path
    <3>1. v = w
      BY <1>6, <2>2, <2>3
    <3>2. w \in seen[u] \/ Temporary(w).dir \in unread[u] \/ Temporary(w) \in listed[u]
      BY <1>3, <1>4, <2>1, <3>1 DEF Sees
    <3> QED
      BY <2>3, <3>1, <3>2 DEF Temporary
  <2>4. CASE p # wants[w].path
    BY <1>5, <1>6, <2>1, <2>2, <2>4 DEF Sees
  <2> QED
    BY <2>3, <2>4
<1>8. Covers(clock, rank, seen)'
  BY <1>1, <1>2, <1>7 DEF Covers
<1> QED
  BY <1>8 DEF CeilingInv

\* Nothing of what a writer does can get past the others.
LEMMA PublishCovers ==
    ASSUME StoreInv, StoreInv', CeilingInv, NEW w \in Writers, Publish(w)
    PROVE  CeilingInv'
<1>1. PICK clock, rank, seen : Covers(clock, rank, seen)
  BY DEF CeilingInv
<1>2. wants' = wants /\ cleaning' = cleaning
  BY DEF Publish, PinDirectories, LookAtDestination, CreateTemporary, WriteSome, ListDirectory,
         CountEntry, AcceptUsage, MoveToName
<1>3. \A v \in Writers : /\ New(v)' = New(v) /\ wants'[v].size = wants[v].size
                         /\ Temporary(v)' = Temporary(v)
  BY <1>2 DEF New, Temporary
<1>4. /\ at \in [Writers -> Steps] /\ result \in [Writers -> {"none", "published", "refused", "died"}]
      /\ files \in [Paths -> Contents] /\ unread \in [Writers -> SUBSET Directories]
  BY DEF StoreInv, StoreTypes
<1>5. \A v \in Writers : ValidName(v) => Temporary(v) \in Paths
  BY TemporaryPath DEF StoreInv
<1>6. at[w] # "idle" => ValidName(w)
  BY DEF StoreInv, WriterInv
<1>7. CASE PinDirectories(w) \/ LookAtDestination(w) \/ AcceptUsage(w)
  <2>1. UNCHANGED <<files, unread, listed, counted>>
    BY <1>7 DEF PinDirectories, LookAtDestination, AcceptUsage
  <2>2. Admitted' \subseteq Admitted
    BY <1>3, <1>4, <1>7 DEF PinDirectories, LookAtDestination, AcceptUsage, Admitted, Goes, Returns
  <2> QED
    BY <1>1, <1>3, <2>1, <2>2, CoversStays
<1>8. CASE CreateTemporary(w)
  <2>1. UNCHANGED <<unread, listed, counted, result>> /\ at[w] = "create" /\ at' = [at EXCEPT ![w] = "write"]
        /\ result[w] = "none"
    BY <1>8 DEF CreateTemporary, Goes, StoreInv, WriterInv
  <2>2. Admitted' \subseteq Admitted /\ w \notin Admitted'
    BY <1>3, <1>4, <2>1 DEF Admitted
  <2>3. \A p \in Paths : files'[p].owner \in Admitted' => files[p].owner = files'[p].owner
    BY <1>4, <1>8, <2>2 DEF CreateTemporary
  <2> QED
    BY <1>1, <1>3, <2>1, <2>2, <2>3, CoversStays
<1>9. CASE WriteSome(w)
  <2>1. UNCHANGED <<listed, counted>> /\ at[w] = "write" /\ result[w] = "none" /\ Temporary(w) \in Paths
    BY <1>5, <1>6, <1>9 DEF WriteSome, StoreInv, WriterInv
  <2>2. CASE \/ ~Whole(w) /\ files' = [files EXCEPT ![Temporary(w)].size = @ + 1] /\ UNCHANGED <<at, unread, result>>
             \/ ~Whole(w) /\ Unlink(Temporary(w)) /\ Returns(w, "refused") /\ UNCHANGED unread
    <3>1. Admitted' \subseteq Admitted /\ w \notin Admitted'
      BY <1>3, <1>4, <2>1, <2>2 DEF Admitted, Returns
    <3>2. \A p \in Paths : p # Temporary(w) => files'[p] = files[p]
      BY <1>4, <2>1, <2>2 DEF Unlink
    <3>3. files[Temporary(w)] \in Contents
      BY <1>4, <2>1
    <3>4. files'[Temporary(w)].owner = files[Temporary(w)].owner \/ files'[Temporary(w)].owner = "none"
      BY <1>4, <2>1, <2>2, <3>3 DEF Unlink, NoFile, Contents
    <3>5. "none" \notin Admitted'
      BY WritersAssumption DEF Admitted
    <3> QED
      BY <1>1, <1>3, <2>1, <2>2, <3>1, <3>2, <3>4, <3>5, CoversStays
  <2>3. CASE /\ files' = [files EXCEPT ![Temporary(w)].whole = TRUE]
             /\ at' = [at EXCEPT ![w] = IF wants[w].manner = "new" THEN "scan" ELSE "move"]
             /\ unread' = [unread EXCEPT ![w] = IF wants[w].manner = "new" THEN Directories ELSE {}]
             /\ UNCHANGED result
    <3>1. files[Temporary(w)] \in Contents
      BY <1>4, <2>1
    <3>2. files'[Temporary(w)].owner = files[Temporary(w)].owner
      BY <1>4, <2>1, <2>3, <3>1 DEF Contents
    <3>3. \A p \in Paths : files'[p].owner = files[p].owner
      BY <1>4, <2>3, <3>2
    <3>4. CASE New(w)
      <4>1. at'[w] = "scan" /\ unread'[w] = Directories
            /\ \A v \in Writers \ {w} : at'[v] = at[v] /\ unread'[v] = unread[v]
        BY <1>4, <2>3, <3>4 DEF New
      <4> QED
        BY <1>1, <1>2, <2>1, <2>3, <3>3, <3>4, <4>1, CoversNewcomer
    <3>5. CASE ~New(w)
      <4>1. Admitted' \subseteq Admitted /\ w \notin Admitted'
        BY <1>3, <1>4, <2>3, <3>5 DEF Admitted
      <4>2. \A v \in Writers \ {w} : unread'[v] = unread[v]
        BY <1>4, <2>3
      <4> QED
        BY <1>1, <1>3, <2>1, <3>3, <4>1, <4>2, CoversStays DEF Admitted
    <3> QED
      BY <3>4, <3>5
  <2> QED
    BY <1>9, <2>2, <2>3 DEF WriteSome
<1>10. CASE ListDirectory(w)
  BY <1>1, <1>10, CoversList
<1>11. CASE CountEntry(w)
  <2>1. PICK e \in listed[w] :
          LET count == [files |-> counted[w].files + 1, bytes |-> counted[w].bytes + files[e].size]
          IN  /\ listed' = [listed EXCEPT ![w] = @ \ {e}]
              /\ IF Exists(e) /\ Within(count)
                 THEN counted' = [counted EXCEPT ![w] = count] /\ UNCHANGED <<files, at, result>>
                 ELSE Unlink(Temporary(w)) /\ Returns(w, "refused") /\ UNCHANGED counted
    BY <1>11 DEF CountEntry
  <2>2. UNCHANGED <<wants, unread, cleaning>> /\ at[w] = "scan"
    BY <1>11 DEF CountEntry
  <2>3. CASE Exists(e) /\ Within([files |-> counted[w].files + 1, bytes |-> counted[w].bytes + files[e].size])
    BY <1>1, <2>1, <2>2, <2>3, CoversCount
  <2>4. CASE Unlink(Temporary(w)) /\ Returns(w, "refused") /\ UNCHANGED counted
    <3>1. Admitted' \subseteq Admitted /\ w \notin Admitted'
      BY <1>3, <1>4, <2>4 DEF Admitted, Returns
    <3>2. \A v \in Writers \ {w} : listed'[v] = listed[v]
      BY <2>1 DEF StoreInv, StoreTypes
    <3>3. \A p \in Paths : files'[p].owner \in Admitted' => files[p].owner = files'[p].owner
      BY <1>4, <2>4, WritersAssumption DEF Unlink, NoFile, Admitted
    <3> QED
      BY <1>1, <1>3, <2>2, <2>4, <3>1, <3>2, <3>3, CoversStays DEF Admitted
  <2> QED
    BY <2>1, <2>3, <2>4
<1>12. CASE MoveToName(w)
  <2>1. UNCHANGED <<wants, unread, listed, counted, cleaning>> /\ at[w] = "move"
    BY <1>12 DEF MoveToName
  <2>2. CASE Unlink(Temporary(w)) /\ Returns(w, "refused")
    <3>1. Admitted' \subseteq Admitted
      BY <1>3, <1>4, <2>2 DEF Admitted, Returns
    <3>2. \A p \in Paths : files'[p].owner \in Admitted' => files[p].owner = files'[p].owner
      BY <1>4, <2>2, WritersAssumption DEF Unlink, NoFile, Admitted
    <3> QED
      BY <1>1, <1>3, <2>1, <3>1, <3>2, CoversStays
  <2>3. CASE /\ Exists(Temporary(w)) /\ Returns(w, "published")
             /\ files' = [files EXCEPT ![wants[w].path] = files[Temporary(w)], ![Temporary(w)] = NoFile]
    <3>1. CASE New(w)
      BY <1>1, <2>1, <2>3, <3>1, CoversMove
    <3>2. CASE ~New(w)
      <4>1. Admitted' \subseteq Admitted /\ w \notin Admitted'
        BY <1>3, <1>4, <2>3, <3>2 DEF Admitted, Returns
      <4>2. Temporary(w) \in Paths /\ Temporary(w).name = w
        BY <1>5, <1>6, <2>1 DEF Temporary
      <4>3. files[Temporary(w)].owner = w
        BY <2>3, <4>2 DEF StoreInv, FileInv
      <4>4. \A p \in Paths : files'[p].owner \in Admitted' => files[p].owner = files'[p].owner
        BY <1>4, <2>3, <4>1, <4>2, <4>3, WritersAssumption DEF NoFile, Admitted
      <4> QED
        BY <1>1, <1>3, <2>1, <4>1, <4>4, CoversStays
    <3> QED
      BY <3>1, <3>2
  <2> QED
    BY <1>12, <2>2, <2>3 DEF MoveToName
<1> QED
  BY <1>7, <1>8, <1>9, <1>10, <1>11, <1>12 DEF Publish

\* Failures, deaths and clean-ups only take files away.
LEMMA LossCovers ==
    ASSUME StoreInv, CeilingInv,
           (\E w \in Writers : FailToWrite(w) \/ DieWriting(w)) \/ (\E c \in Cleaners : Clean(c))
    PROVE  CeilingInv'
<1>1. PICK clock, rank, seen : Covers(clock, rank, seen)
  BY DEF CeilingInv
<1>2. UNCHANGED <<wants, unread, listed, counted>>
  BY DEF FailToWrite, DieWriting, Clean, StartCleaning, RemoveOne, EndCleaning
<1>3. \A v \in Writers : New(v)' = New(v) /\ Temporary(v)' = Temporary(v)
  BY <1>2 DEF New, Temporary
<1>4. UNCHANGED <<at, result>> \/ \E w \in Writers, r \in {"refused", "died"} : Returns(w, r)
  BY DEF FailToWrite, DieWriting, Clean, StartCleaning, RemoveOne, EndCleaning
<1>5. Admitted' \subseteq Admitted
  BY <1>3, <1>4 DEF Admitted, Returns, StoreInv, StoreTypes
<1>6. files' = files \/ \E p : Unlink(p)
  BY DEF FailToWrite, DieWriting, Clean, StartCleaning, RemoveOne, EndCleaning
<1>7. \A p \in Paths : files'[p].owner \in Admitted' => files[p].owner = files'[p].owner
  BY <1>6, WritersAssumption DEF Unlink, NoFile, Admitted, StoreInv, StoreTypes
<1> QED
  BY <1>1, <1>2, <1>3, <1>5, <1>7, CoversStays

\* The usage that the last of them to begin has counted bounds what all have published.
LEMMA CeilingFollows ==
    ASSUME StoreInv, CeilingInv
    PROVE  CeilingHolds
<1>1. PICK clock, rank, seen : Covers(clock, rank, seen)
  BY DEF CeilingInv
<1> DEFINE Owners == {files[p].owner : p \in Reports}
           owner == [p \in Paths |-> files[p].owner]
           size == [p \in Paths |-> files[p].size]
<1>2. ASSUME NEW p \in Reports
      PROVE  /\ p \in Paths /\ files[p].owner \in Admitted /\ p = wants[files[p].owner].path
             /\ result[files[p].owner] = "published"
             /\ files[p].size = wants[files[p].owner].size /\ files[p].size \in Nat
  BY DEF Reports, Existing, StoreInv, StoreTypes, Contents, FileInv, New, Admitted
<1>3. /\ Owners \subseteq Admitted /\ Admitted \subseteq Writers
      /\ IsFiniteSet(Owners) /\ IsFiniteSet(Writers)
  BY <1>2, FS_Subset, WritersAssumption DEF Admitted
<1>4. \A p, q \in Reports : files[p].owner = files[q].owner => p = q
  BY <1>2
<1>5. IsFiniteSet(Reports) /\ Cardinality(Reports) = Cardinality(Owners)
  <2> DEFINE path == [w \in Owners |-> wants[w].path]
  <2>1. \A p \in Reports : files[p].owner \in Owners /\ path[files[p].owner] = p
    BY <1>2
  <2>2. \A w \in Owners : path[w] \in Reports
    BY <1>2
  <2>3. path \in [Owners -> Reports] /\ DOMAIN path = Owners
    BY <2>2
  <2>4. \A v, w \in Owners : path[v] = path[w] => v = w
    BY <2>1
  <2>5. path \in Bijection(Owners, Reports)
    <3> HIDE DEF path
    <3>1. \A p \in Reports : \E w \in Owners : path[w] = p
      BY <2>1
    <3> HIDE DEF Owners
    <3> QED
      BY <2>3, <2>4, <3>1 DEF Bijection, Injection, Surjection, IsInjective
  <2>6. ExistsBijection(Owners, Reports)
    BY <2>5 DEF ExistsBijection
  <2> QED
    BY <1>3, <2>6, FS_Bijection
<1>6. MapThenSumSet(LAMBDA p : files[p].size, Reports) = Total(size, Reports)
  BY <1>2, <1>5, SumIsTotal
<1>7. CASE Reports = {}
  <2>1. Cardinality(Reports) = 0 /\ Total(size, Reports) = 0
    BY <1>7, FS_EmptySet, TotalRule
  <2> QED
    BY <1>6, <2>1, StoreAssumption DEF CeilingHolds
<1>8. CASE Reports # {}
  <2>1. Owners # {} /\ \A w \in Owners : rank[w] \in Nat
    BY <1>1, <1>3, <1>8 DEF Covers
  <2>2. PICK v \in Owners : \A w \in Owners : rank[w] <= rank[v]
    <3> HIDE DEF Owners
    <3> QED BY <1>3, <2>1, LargestExists
  <2>3. unread[v] = {} /\ listed[v] = {} /\ v \in Admitted
    BY <1>2, <1>3 DEF StoreInv, WriterInv, Unread
  <2>4. \A w \in Owners : w \in seen[v]
    BY <1>1, <1>2, <1>3, <2>2, <2>3 DEF Covers, Sees
  <2>5. seen[v] \subseteq Writers /\ IsFiniteSet(seen[v])
    BY <1>1, <1>3, <2>3, FS_Subset DEF Covers
  <2>6. Cardinality(Owners) <= Cardinality(seen[v]) /\ Cardinality(Owners) \in Nat /\ Cardinality(seen[v]) \in Nat
    BY <1>3, <2>4, <2>5, FS_Subset, FS_CardinalityType
  <2>7. \A w \in seen[v] : Sizes[w] \in Nat
    BY <2>5 DEF Sizes, StoreInv, StoreTypes, Wishes
  <2>8. \A p \in Reports : /\ size[p] \in Nat /\ owner[p] \in seen[v] /\ size[p] <= Sizes[owner[p]]
                           /\ \A q \in Reports : owner[p] = owner[q] => p = q
    <3>1. \A p \in Reports : /\ size[p] = files[p].size /\ owner[p] = files[p].owner
                             /\ Sizes[files[p].owner] = files[p].size
      BY <1>2, <1>3 DEF Sizes
    <3>2. \A p \in Reports : files[p].owner \in seen[v] /\ files[p].size \in Nat
      BY <1>2, <2>4
    <3> HIDE DEF size, owner, Owners
    <3> QED
      BY <1>4, <3>1, <3>2
  <2>9. Total(size, Reports) <= Total(Sizes, seen[v])
    <3> HIDE DEF size, owner, Owners
    <3> QED BY <1>5, <2>5, <2>7, <2>8, TotalInjection
  <2>10. Total(size, Reports) \in Nat /\ Total(Sizes, seen[v]) \in Nat
    <3> HIDE DEF size, owner, Owners
    <3> QED BY <1>5, <2>5, <2>7, <2>8, TotalType
  <2>11. /\ Cardinality(seen[v]) <= counted[v].files /\ counted[v].files <= MaxFiles
         /\ Total(Sizes, seen[v]) <= counted[v].bytes /\ counted[v].bytes <= MaxBytes
    BY <1>1, <2>3 DEF Covers, Within
  <2>12. counted[v].files \in Nat /\ counted[v].bytes \in Nat
    BY <1>3, <2>3 DEF StoreInv, StoreTypes
  <2> QED
    <3> HIDE DEF size, owner, Owners
    <3>1. Cardinality(Reports) <= MaxFiles
      BY <1>5, <2>6, <2>11, <2>12, StoreAssumption
    <3>2. Total(size, Reports) <= MaxBytes
      BY <2>9, <2>10, <2>11, <2>12, StoreAssumption
    <3> QED
      BY <1>6, <3>1, <3>2 DEF CeilingHolds
<1> QED
  BY <1>7, <1>8
=============================================================================
