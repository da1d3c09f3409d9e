------------------------ MODULE BuilderRuntimeProofs ------------------------
(***************************************************************************)
(* The builder runtime keeps every session's history an unbroken stack, its   *)
(* preview with its owner and its stop final, for any owners, ids, paths,      *)
(* contents and quotas, and whatever arguments callers pass.                    *)
(***************************************************************************)
EXTENDS BuilderSessionStack, FiniteSetTheorems, SequenceTheorems, TLAPS

-----------------------------------------------------------------------------
(* Files *)

(* A file map is a function from some of the paths to contents. *)
LEMMA FilesAreMaps ==
  ASSUME NEW f
  PROVE  f \in Files <=> DOMAIN f \subseteq Paths /\ f \in [DOMAIN f -> Contents]
BY DEF Files

(* No file is there at first. *)
LEMMA NoFilesAreFiles == NoFiles \in Files
BY FilesAreMaps DEF NoFiles

(* Writing a content at a path keeps a file map. *)
LEMMA WritingKeepsFiles ==
  ASSUME NEW f \in Files, NEW path \in Paths, NEW content \in Contents
  PROVE  With(f, path, content) \in Files
<1>1. DOMAIN f \subseteq Paths /\ f \in [DOMAIN f -> Contents]
  BY FilesAreMaps
<1>2. DOMAIN With(f, path, content) = DOMAIN f \cup {path}
  BY DEF With
<1>3. With(f, path, content) \in [DOMAIN f \cup {path} -> Contents]
  BY <1>1 DEF With
<1> QED
  BY <1>1, <1>2, <1>3, FilesAreMaps

(* Deleting files keeps a file map. *)
LEMMA DeletingKeepsFiles ==
  ASSUME NEW f \in Files, NEW D \in SUBSET DOMAIN f
  PROVE  Restrict(f, D) \in Files
<1>1. DOMAIN f \subseteq Paths /\ f \in [DOMAIN f -> Contents]
  BY FilesAreMaps
<1>2. Restrict(f, D) \in [D -> Contents] /\ DOMAIN Restrict(f, D) = D
  BY <1>1 DEF Restrict
<1> QED
  BY <1>1, <1>2, FilesAreMaps

-----------------------------------------------------------------------------
(***************************************************************************)
(* Sums over files: the fold behind SumFunction is a function that the        *)
(* recursion defines, and any one summand can be taken out of it.              *)
(***************************************************************************)

(* A non-empty family of subsets of a finite set has one with no member below. *)
LEMMA SmallestSubset ==
  ASSUME NEW S, IsFiniteSet(S), NEW Family \in SUBSET (SUBSET S), Family # {}
  PROVE  \E T \in Family : \A U \in Family : U \subseteq T => U = T
<1>1. IsWellFoundedOn(StrictSubsetOrdering(S), SUBSET S)
  BY FS_StrictSubsetOrderingWellFounded, FS_FiniteSubsetsOfFinite
<1>2. PICK T \in Family : \A U \in Family : ~ (<<U, T>> \in StrictSubsetOrdering(S))
  BY <1>1, WFMin
<1> QED
  BY <1>2 DEF StrictSubsetOrdering

SumStep(f, S, g) ==
  [s \in SUBSET S |-> IF s = {} THEN 0
     ELSE LET x == CHOOSE x \in s : TRUE IN f[x] + g[s \ {x}]]

SumOn(f, S) == CHOOSE g : g = SumStep(f, S, g)

(* SumFunction is the value of that function at the whole domain. *)
LEMMA SumIsRecursive ==
  ASSUME NEW f
  PROVE  SumFunction(f) = SumOn(f, DOMAIN f)[DOMAIN f]
BY DEF SumFunction, SumFunctionOnSet, FoldFunctionOnSet, MapThenFoldSet, SumOn, SumStep

IsSum(f, S) == SumOn(f, S) = SumStep(f, S, SumOn(f, S))

Pick(s) == CHOOSE x \in s : TRUE

(* What the equation says of one subset. *)
LEMMA SumUnfolds ==
  ASSUME NEW f, NEW S, IsSum(f, S), NEW s \in SUBSET S
  PROVE  /\ s = {} => SumOn(f, S)[s] = 0
         /\ s # {} => SumOn(f, S)[s] = f[Pick(s)] + SumOn(f, S)[s \ {Pick(s)}]
<1>1. SumOn(f, S)[s] = SumStep(f, S, SumOn(f, S))[s]
  BY DEF IsSum
<1> QED
  BY <1>1 DEF SumStep, Pick

(* Sums over a smaller set or of a function that agrees on it are the same. *)
LEMMA SumsAgree ==
  ASSUME NEW S, IsFiniteSet(S), NEW T, NEW f, NEW h,
         IsSum(f, S), IsSum(h, T), \A x \in S \cap T : f[x] = h[x]
  PROVE  \A s \in SUBSET (S \cap T) : SumOn(f, S)[s] = SumOn(h, T)[s]
<1> DEFINE Bad == {s \in SUBSET (S \cap T) : SumOn(f, S)[s] # SumOn(h, T)[s]}
<1> SUFFICES ASSUME Bad # {} PROVE FALSE
  OBVIOUS
<1>1. Bad \in SUBSET (SUBSET S)
  OBVIOUS
<1>2. PICK s \in Bad : \A u \in Bad : u \subseteq s => u = s
  <2> HIDE DEF Bad
  <2> QED
    BY <1>1, SmallestSubset
<1>3. s \in SUBSET S /\ s \in SUBSET T /\ s # {}
  BY SumUnfolds
<1>4. Pick(s) \in s
  BY <1>3 DEF Pick
<1>5. s \ {Pick(s)} \notin Bad
  BY <1>2, <1>4
<1>6. SumOn(f, S)[s \ {Pick(s)}] = SumOn(h, T)[s \ {Pick(s)}]
  BY <1>5, <1>3
<1> QED
  BY <1>3, <1>4, <1>6, SumUnfolds

(* The recursion defines a function on the subsets of every finite set. *)
LEMMA SumExists ==
  ASSUME NEW S, IsFiniteSet(S), NEW f
  PROVE  IsSum(f, S)
<1> DEFINE Bad == {T \in SUBSET S : ~ IsSum(f, T)}
<1> SUFFICES ASSUME Bad # {} PROVE FALSE
  OBVIOUS
<1>1. PICK T \in Bad : \A U \in Bad : U \subseteq T => U = T
  <2>1. Bad \in SUBSET (SUBSET S)
    OBVIOUS
  <2> HIDE DEF Bad
  <2> QED
    BY <2>1, SmallestSubset
<1>2. T \in SUBSET S /\ ~ IsSum(f, T)
  OBVIOUS
<1>3. \A U \in SUBSET T : U # T => IsSum(f, U) /\ IsFiniteSet(U)
  BY <1>1, FS_Subset
<1> DEFINE below(s) == SumOn(f, s \ {Pick(s)})[s \ {Pick(s)}]
<1> DEFINE g == [s \in SUBSET T |-> IF s = {} THEN 0 ELSE f[Pick(s)] + below(s)]
<1>4. ASSUME NEW s \in SUBSET T, s # {}
      PROVE  g[s \ {Pick(s)}] = below(s)
  <2> DEFINE u == s \ {Pick(s)}
  <2>1. u \in SUBSET T /\ u # T /\ IsSum(f, u) /\ IsFiniteSet(u)
    <3>1. Pick(s) \in s
      BY <1>4 DEF Pick
    <3> QED
      BY <3>1, <1>3
  <2>2. CASE u = {}
    BY <2>1, <2>2, SumUnfolds
  <2>3. CASE u # {}
    <3>1. Pick(u) \in u
      BY <2>3 DEF Pick
    <3> DEFINE w == u \ {Pick(u)}
    <3>2. w \in SUBSET T /\ w # T /\ IsSum(f, w) /\ IsFiniteSet(w) /\ w \in SUBSET (w \cap u)
      BY <2>1, <1>3
    <3>3. SumOn(f, w)[w] = SumOn(f, u)[w]
      <4> HIDE DEF w, u
      <4> QED
        BY <2>1, <3>2, SumsAgree
    <3>4. SumOn(f, u)[u] = f[Pick(u)] + SumOn(f, u)[w]
      <4>1. u \in SUBSET u
        OBVIOUS
      <4> HIDE DEF u
      <4> QED
        BY <2>1, <2>3, <4>1, SumUnfolds
    <3>5. g[u] = f[Pick(u)] + SumOn(f, w)[w]
      BY <2>1, <2>3
    <3> QED
      BY <3>3, <3>4, <3>5
  <2> QED
    BY <2>2, <2>3
<1>5. g = SumStep(f, T, g)
  <2>1. \A s \in SUBSET T : s # {} => g[s] = f[Pick(s)] + g[s \ {Pick(s)}]
    BY <1>4
  <2>2. \A s \in SUBSET T : s = {} => g[s] = 0
    OBVIOUS
  <2>3. g = [s \in SUBSET T |-> g[s]]
    OBVIOUS
  <2> HIDE DEF g
  <2> QED
    BY <2>1, <2>2, <2>3 DEF SumStep, Pick
<1> HIDE DEF g
<1>6. IsSum(f, T)
  BY <1>5 DEF IsSum, SumOn
<1> QED
  BY <1>2, <1>6

(* One summand taken out, with the type of what is left. *)
LEMMA SumTakesOut ==
  ASSUME NEW S, IsFiniteSet(S), NEW f, \A y \in S : f[y] \in Nat
  PROVE  \A s \in SUBSET S :
           /\ SumOn(f, S)[s] \in Nat
           /\ \A x \in s : SumOn(f, S)[s] = f[x] + SumOn(f, S)[s \ {x}]
<1> DEFINE G == SumOn(f, S)
<1> DEFINE Ok(s) == G[s] \in Nat /\ \A x \in s : G[s] = f[x] + G[s \ {x}]
<1> DEFINE Bad == {s \in SUBSET S : ~ Ok(s)}
<1> SUFFICES ASSUME Bad # {} PROVE FALSE
  OBVIOUS
<1>0. \A s \in SUBSET S :
        /\ s = {} => G[s] = 0
        /\ s # {} => G[s] = f[Pick(s)] + G[s \ {Pick(s)}]
  BY SumExists, SumUnfolds
<1> HIDE DEF G, Ok
<1>1. PICK s \in Bad : \A u \in Bad : u \subseteq s => u = s
  <2>1. Bad \in SUBSET (SUBSET S)
    OBVIOUS
  <2> HIDE DEF Bad
  <2> QED
    BY <2>1, SmallestSubset
<1>2. s \in SUBSET S /\ ~ Ok(s)
  OBVIOUS
<1>3. \A u \in SUBSET s : u # s => Ok(u)
  BY <1>1
<1>4. s # {}
  <2>1. ASSUME s = {} PROVE Ok(s)
    <3>1. G[s] = 0 /\ \A x : x \notin s
      BY <1>0, <1>2, <2>1
    <3> QED
      BY <3>1 DEF Ok
  <2> QED
    BY <1>2, <2>1
<1> DEFINE p == Pick(s)
<1>5. p \in s
  BY <1>4 DEF Pick
<1>6. G[s] = f[p] + G[s \ {p}]
  BY <1>0, <1>2, <1>4 DEF p
<1> HIDE DEF p, Bad
<1>7. Ok(s \ {p})
  BY <1>3, <1>5
<1>8. G[s] \in Nat
  BY <1>2, <1>5, <1>6, <1>7 DEF Ok
<1>9. ASSUME NEW x \in s PROVE G[s] = f[x] + G[s \ {x}]
  <2>1. CASE x = p
    BY <1>6, <2>1
  <2>2. CASE x # p
    <3>1. x \in s \ {p} /\ p \in s \ {x}
      BY <1>5, <1>9, <2>2
    <3>2. G[s \ {p}] = f[x] + G[(s \ {p}) \ {x}]
      BY <1>7, <3>1 DEF Ok
    <3>3. Ok(s \ {x})
      BY <1>3, <1>9
    <3>5. (s \ {x}) \ {p} = (s \ {p}) \ {x}
      OBVIOUS
    <3>4. G[s \ {x}] = f[p] + G[(s \ {p}) \ {x}]
      BY <3>1, <3>3, <3>5 DEF Ok
    <3>6. Ok((s \ {p}) \ {x})
      <4>1. (s \ {p}) \ {x} \in SUBSET s /\ (s \ {p}) \ {x} # s
        BY <1>5
      <4> QED
        BY <1>3, <4>1
    <3>7. f[x] \in Nat /\ f[p] \in Nat /\ G[(s \ {p}) \ {x}] \in Nat
      BY <1>2, <1>5, <1>9, <3>6 DEF Ok
    <3> DEFINE rest == G[(s \ {p}) \ {x}]
    <3> DEFINE allButX == G[s \ {x}]
    <3>8. /\ G[s] = f[p] + (f[x] + rest) /\ allButX = f[p] + rest
          /\ f[x] \in Nat /\ f[p] \in Nat /\ rest \in Nat
      BY <1>6, <3>2, <3>4, <3>7
    <3> HIDE DEF rest, allButX
    <3>9. G[s] = f[x] + allButX
      BY <3>8
    <3> QED
      BY <3>9 DEF allButX
  <2> QED
    BY <2>1, <2>2
<1> QED
  BY <1>2, <1>8, <1>9 DEF Ok

(* The bytes of a file map: one file and the others. *)
LEMMA BytesOfOneAndRest ==
  ASSUME NEW f \in Files, IsFiniteSet(DOMAIN f), NEW path \in DOMAIN f
  PROVE  LET rest == Restrict(f, DOMAIN f \ {path})
         IN  /\ BytesUsed(rest) \in Nat
             /\ BytesUsed(f) = Size[f[path]] + BytesUsed(rest)
<1> DEFINE D == DOMAIN f
<1> DEFINE E == D \ {path}
<1> DEFINE w == [p \in D |-> Size[f[p]]]
<1> DEFINE v == [p \in E |-> Size[f[p]]]
<1>1. f \in [D -> Contents] /\ \A p \in D : Size[f[p]] \in Nat
  BY FilesAreMaps, QuotaAssumption
<1>2. BytesUsed(f) = SumOn(w, D)[D]
  BY SumIsRecursive DEF BytesUsed
<1>3. BytesUsed(Restrict(f, E)) = SumOn(v, E)[E]
  <2>1. DOMAIN Restrict(f, E) = E /\ \A p \in E : Restrict(f, E)[p] = f[p]
    BY DEF Restrict
  <2>2. [p \in DOMAIN Restrict(f, E) |-> Size[Restrict(f, E)[p]]] = v
    BY <2>1
  <2>3. DOMAIN v = E
    OBVIOUS
  <2> HIDE DEF v, E
  <2> QED
    BY <2>2, <2>3, SumIsRecursive DEF BytesUsed
<1>4. IsFiniteSet(D) /\ IsFiniteSet(E)
  BY FS_RemoveElement
<1>5. \A p \in D : w[p] \in Nat
  BY <1>1
<1>6. \A p \in E : v[p] \in Nat /\ v[p] = w[p]
  BY <1>1
<1>7. D \in SUBSET D /\ E \in SUBSET E /\ E \in SUBSET (D \cap E) /\ path \in D /\ E = D \ {path}
  OBVIOUS
<1>8. w[path] = Size[f[path]]
  OBVIOUS
<1> HIDE DEF D, E, w, v
<1>9. SumOn(w, D)[D] = w[path] + SumOn(w, D)[E]
  BY <1>4, <1>5, <1>7, SumTakesOut
<1>10. SumOn(w, D)[E] = SumOn(v, E)[E]
  <2>1. \A p \in D \cap E : w[p] = v[p]
    BY <1>6
  <2> QED
    BY <1>4, <1>7, <2>1, SumExists, SumsAgree
<1>11. SumOn(v, E)[E] \in Nat
  BY <1>4, <1>6, <1>7, SumTakesOut
<1> QED
  BY <1>2, <1>3, <1>8, <1>9, <1>10, <1>11 DEF D, E

(* The bytes of any finite file map are a natural number. *)
LEMMA BytesType ==
  ASSUME NEW f \in Files, IsFiniteSet(DOMAIN f)
  PROVE  BytesUsed(f) \in Nat
<1> DEFINE w == [p \in DOMAIN f |-> Size[f[p]]]
<1>1. \A p \in DOMAIN f : w[p] \in Nat
  BY FilesAreMaps, QuotaAssumption
<1>2. BytesUsed(f) = SumOn(w, DOMAIN f)[DOMAIN f]
  BY SumIsRecursive DEF BytesUsed
<1> HIDE DEF w
<1> QED
  BY <1>1, <1>2, SumTakesOut

(* What the quotas need besides: files that can be counted. *)
FilesFit(f) == IsFiniteSet(DOMAIN f) /\ FilesWithinQuota(f)

(* No files fit. *)
LEMMA NoFilesFit == FilesFit(NoFiles)
<1>1. DOMAIN NoFiles = {}
  BY DEF NoFiles
<1>2. BytesUsed(NoFiles) = 0
  <2> DEFINE w == [p \in DOMAIN NoFiles |-> Size[NoFiles[p]]]
  <2>1. BytesUsed(NoFiles) = SumOn(w, DOMAIN w)[DOMAIN w] /\ DOMAIN w = {}
    BY <1>1, SumIsRecursive DEF BytesUsed
  <2> HIDE DEF w
  <2> QED
    BY <2>1, FS_EmptySet, SumExists, SumUnfolds
<1> QED
  BY <1>1, <1>2, FS_EmptySet, QuotaAssumption DEF FilesFit, FilesWithinQuota

(* A write that has space fits: the file it replaces is discounted once. *)
LEMMA WritingFits ==
  ASSUME NEW s, s.files \in Files, FilesFit(s.files), NEW path \in Paths,
         NEW content \in Contents, Size[content] <= MaxFileBytes, HasSpace(s, path, content)
  PROVE  FilesFit(With(s.files, path, content))
<1> DEFINE f == s.files
<1> DEFINE g == With(f, path, content)
<1> DEFINE others == DOMAIN f \ {path}
<1>1. g \in Files /\ DOMAIN g = DOMAIN f \cup {path}
      /\ g[path] = content /\ \A p \in others : g[p] = f[p]
  BY WritingKeepsFiles DEF With
<1>2. IsFiniteSet(DOMAIN f) /\ IsFiniteSet(DOMAIN g)
  BY <1>1, FS_AddElement DEF FilesFit
<1>3. Cardinality(DOMAIN g) <= MaxSessionFiles
  <2>1. CASE path \in DOMAIN f
    <3>1. DOMAIN g = DOMAIN f
      BY <1>1, <2>1
    <3> QED
      BY <3>1 DEF FilesFit, FilesWithinQuota
  <2>2. CASE path \notin DOMAIN f
    <3>1. Cardinality(DOMAIN g) = Cardinality(DOMAIN f) + 1 /\ Cardinality(DOMAIN f) \in Nat
      BY <1>1, <1>2, <2>2, FS_AddElement, FS_CardinalityType
    <3>2. Cardinality(DOMAIN f) < MaxSessionFiles
      BY <2>2 DEF HasSpace
    <3> QED
      BY <3>1, <3>2, QuotaAssumption
  <2> QED
    BY <2>1, <2>2
<1>4. Restrict(g, DOMAIN g \ {path}) = Restrict(f, others)
  <2>1. DOMAIN g \ {path} = others
    BY <1>1
  <2> QED
    BY <1>1, <2>1 DEF Restrict
<1>5. BytesUsed(g) = Size[content] + BytesUsed(Restrict(f, others))
  <2>1. path \in DOMAIN g
    BY <1>1
  <2> HIDE DEF g
  <2> QED
    BY <1>1, <1>2, <1>4, <2>1, BytesOfOneAndRest
<1>6. BytesUsed(g) <= MaxSessionBytes
  <2>1. BytesUsed(Restrict(f, others)) \in Nat /\ Size[content] \in Nat
    <3>1. Restrict(f, others) \in Files /\ DOMAIN Restrict(f, others) = others
      BY DeletingKeepsFiles DEF Restrict
    <3>2. IsFiniteSet(others)
      BY <1>2, FS_RemoveElement
    <3> QED
      BY <3>1, <3>2, BytesType, QuotaAssumption
  <2> QED
    BY <1>5, <2>1, QuotaAssumption DEF HasSpace
<1>7. \A p \in DOMAIN g : Size[g[p]] <= MaxFileBytes
  <2>1. \A p \in DOMAIN g : p = path \/ p \in others
    BY <1>1
  <2> QED
    BY <1>1, <2>1 DEF FilesFit, FilesWithinQuota
<1> QED
  BY <1>2, <1>3, <1>6, <1>7 DEF FilesFit, FilesWithinQuota

(* A deletion makes room. *)
LEMMA DeletingFits ==
  ASSUME NEW f \in Files, FilesFit(f), NEW path \in DOMAIN f
  PROVE  FilesFit(Restrict(f, DOMAIN f \ {path}))
<1> DEFINE g == Restrict(f, DOMAIN f \ {path})
<1>1. DOMAIN g = DOMAIN f \ {path} /\ \A p \in DOMAIN g : g[p] = f[p]
  BY DEF Restrict
<1>2. IsFiniteSet(DOMAIN f) /\ IsFiniteSet(DOMAIN g)
  BY <1>1, FS_RemoveElement DEF FilesFit
<1>3. Cardinality(DOMAIN g) <= Cardinality(DOMAIN f)
      /\ Cardinality(DOMAIN g) \in Nat /\ Cardinality(DOMAIN f) \in Nat
  BY <1>1, <1>2, FS_Subset, FS_CardinalityType
<1>4. BytesUsed(g) \in Nat /\ BytesUsed(f) = Size[f[path]] + BytesUsed(g)
      /\ Size[f[path]] \in Nat
  BY <1>2, BytesOfOneAndRest, FilesAreMaps, QuotaAssumption
<1> HIDE DEF g
<1> QED
  BY <1>1, <1>2, <1>3, <1>4, QuotaAssumption DEF FilesFit, FilesWithinQuota, g

-----------------------------------------------------------------------------
(* The inductive invariant *)

(* The conjuncts of QuotasHold about one session, of files that can be counted. *)
WithinQuotas(s) ==
  /\ FilesFit(s.files)
  /\ \A n \in DOMAIN s.snapshots : FilesFit(s.snapshots[n].files)
  /\ s.logs <= MaxLogEvents

(* What every step keeps of one session filed under sid: the conjuncts of      *)
(* TypeOK, HistoryContiguous, PreviewOwned and QuotasHold about it.             *)
SessionInv(s, sid) ==
  /\ IsSession(s)
  /\ DOMAIN s.snapshots = 0..s.checkpoint
  /\ s.checkpoint < MaxCheckpoints
  /\ \A m, n \in DOMAIN s.snapshots :
       m <= n => s.snapshots[m].log_len <= s.snapshots[n].log_len
  /\ \A n \in DOMAIN s.snapshots : s.snapshots[n].log_len <= s.logs
  /\ s.scope.builder_session_id = sid
  /\ s.preview_owner # NoOwner => s.preview_owner = s.scope /\ ~ s.stopped
  /\ WithinQuotas(s)

BuilderInv ==
  /\ DOMAIN sessions = Sids
  /\ \A sid \in Sids : sessions[sid] = NoSession \/ SessionInv(sessions[sid], sid)

-----------------------------------------------------------------------------
(* Operations on one session *)

(* A session that satisfies the invariant has its checkpoints as its history. *)
LEMMA SessionShape ==
  ASSUME NEW s, NEW sid, SessionInv(s, sid)
  PROVE  /\ s.checkpoint \in 0..(MaxCheckpoints - 1)
         /\ s \in Session(s.checkpoint)
<1>1. PICK n \in 0..(MaxCheckpoints - 1) : s \in Session(n)
  BY DEF SessionInv, IsSession
<1>2. s.checkpoint \in Nat /\ DOMAIN s.snapshots = 0..n
  BY <1>1 DEF Session
<1>3. 0..n = 0..s.checkpoint
  BY <1>2 DEF SessionInv
<1>4. s.checkpoint \in 0..(MaxCheckpoints - 1)
  BY <1>2, QuotaAssumption DEF SessionInv
<1> QED
  BY <1>1, <1>3, <1>4 DEF Session

(* The session that create makes. *)
LEMMA NewSessionKept ==
  ASSUME NEW scope \in Scope
  PROVE  SessionInv(NewSession(scope), scope.builder_session_id)
<1> DEFINE s == NewSession(scope)
<1>1. s \in Session(0)
  <2>1. s.snapshots \in [0..0 -> [files : Files, log_len : Nat]]
    <3>1. 0..0 = {0}
      OBVIOUS
    <3> QED
      BY <3>1, NoFilesAreFiles DEF NewSession
  <2> QED
    BY <2>1, NoFilesAreFiles DEF NewSession, Session
<1>2. 0 \in 0..(MaxCheckpoints - 1)
  BY QuotaAssumption
<1>3. DOMAIN s.snapshots = 0..s.checkpoint
  BY DEF NewSession
<1>4. \A n \in DOMAIN s.snapshots : s.snapshots[n].log_len = 0
  BY DEF NewSession
<1>5. WithinQuotas(s)
  BY NoFilesFit, QuotaAssumption DEF NewSession, WithinQuotas
<1> QED
  BY <1>1, <1>2, <1>3, <1>4, <1>5, QuotaAssumption DEF NewSession, SessionInv, IsSession

(* Everything of a session that is not its history or its scope. *)
Edited(s, f, logs, owner, stopped) ==
  [s EXCEPT !.files = f, !.logs = logs, !.preview_owner = owner, !.stopped = stopped]

(* Other files, a longer log, another preview or a stop: the history stays. *)
LEMMA EditKept ==
  ASSUME NEW s, NEW sid, SessionInv(s, sid),
         NEW f \in Files, FilesFit(f), NEW logs \in Nat, s.logs <= logs, logs <= MaxLogEvents,
         NEW owner, NEW stopped \in BOOLEAN,
         owner # NoOwner => owner = s.scope /\ ~ stopped
  PROVE  LET t == Edited(s, f, logs, owner, stopped)
         IN  SessionInv(t, sid) /\ t.scope = s.scope
<1> DEFINE t == Edited(s, f, logs, owner, stopped)
<1>1. s.checkpoint \in 0..(MaxCheckpoints - 1) /\ s \in Session(s.checkpoint)
  BY SessionShape
<1>0. s.scope \in Scope
  BY <1>1 DEF Session
<1>2. t \in Session(s.checkpoint)
  BY <1>0, <1>1 DEF Session, Edited
<1>3. /\ t.snapshots = s.snapshots /\ t.checkpoint = s.checkpoint /\ t.scope = s.scope
      /\ t.logs = logs /\ t.preview_owner = owner /\ t.stopped = stopped
  BY <1>1 DEF Session, Edited
<1>4. \A n \in DOMAIN s.snapshots : s.snapshots[n].log_len \in Nat
  BY <1>1 DEF Session
<1>5. \A n \in DOMAIN t.snapshots : t.snapshots[n].log_len <= t.logs
  BY <1>1, <1>3, <1>4 DEF SessionInv, Session
<1>6. WithinQuotas(t)
  <2>1. t.files = f
    BY <1>1 DEF Session, Edited
  <2> HIDE DEF t
  <2> QED
    BY <1>3, <2>1 DEF SessionInv, WithinQuotas
<1> QED
  BY <1>1, <1>2, <1>3, <1>5, <1>6 DEF SessionInv, IsSession

Checkpointed(s) ==
  [s EXCEPT !.checkpoint = s.checkpoint + 1,
            !.snapshots = With(@, s.checkpoint + 1, [files |-> s.files, log_len |-> s.logs])]

(* What a checkpoint leaves: one level more, on top of the history, which is   *)
(* not full.                                                                   *)
LEMMA CheckpointShape ==
  ASSUME NEW s, NEW sid, SessionInv(s, sid), Cardinality(DOMAIN s.snapshots) < MaxCheckpoints
  PROVE  LET t == Checkpointed(s)
             k == s.checkpoint
         IN  /\ k + 1 \in 0..(MaxCheckpoints - 1)
             /\ t = [scope |-> s.scope, checkpoint |-> k + 1, preview_owner |-> s.preview_owner,
                     stopped |-> s.stopped, files |-> s.files, logs |-> s.logs,
                     snapshots |-> With(s.snapshots, k + 1,
                                        [files |-> s.files, log_len |-> s.logs])]
             /\ DOMAIN t.snapshots = 0..(k + 1)
             /\ t.snapshots[k + 1] = [files |-> s.files, log_len |-> s.logs]
             /\ \A n \in 0..k : t.snapshots[n] = s.snapshots[n]
<1> DEFINE t == Checkpointed(s)
<1> DEFINE k == s.checkpoint
<1> DEFINE saved == [files |-> s.files, log_len |-> s.logs]
<1>1. k \in 0..(MaxCheckpoints - 1) /\ s \in Session(k) /\ DOMAIN s.snapshots = 0..k
  BY SessionShape DEF SessionInv
<1>2. Cardinality(0..k) = k + 1
  <2>1. 0 \in Int /\ k \in Int /\ 0 <= k
    BY <1>1, QuotaAssumption
  <2> HIDE DEF k
  <2>2. Cardinality(0..k) = IF 0 > k THEN 0 ELSE k - 0 + 1
    BY <2>1, FS_Interval, Zenon
  <2> QED
    BY <2>1, <2>2
<1>3. k + 1 \in 0..(MaxCheckpoints - 1)
  BY <1>1, <1>2, QuotaAssumption
<1>4. t = [scope |-> s.scope, checkpoint |-> k + 1, preview_owner |-> s.preview_owner,
           stopped |-> s.stopped, files |-> s.files, logs |-> s.logs,
           snapshots |-> With(s.snapshots, k + 1, saved)]
  <2> DEFINE more == With(s.snapshots, k + 1, saved)
  <2>1. t = [s EXCEPT !.checkpoint = k + 1, !.snapshots = more]
    BY DEF Checkpointed
  <2> HIDE DEF more, t
  <2>2. t = [scope |-> s.scope, checkpoint |-> k + 1, preview_owner |-> s.preview_owner,
             stopped |-> s.stopped, files |-> s.files, logs |-> s.logs, snapshots |-> more]
    BY <1>1, <2>1 DEF Session
  <2> QED
    BY <2>2 DEF more
<1>5. t.snapshots = With(s.snapshots, k + 1, saved)
  BY <1>4
<1>6. DOMAIN t.snapshots = 0..(k + 1)
  <2>1. 0..(k + 1) = (0..k) \cup {k + 1}
    BY <1>1
  <2> HIDE DEF t, k, saved
  <2> QED
    BY <1>1, <1>5, <2>1 DEF With
<1>7. t.snapshots[k + 1] = saved /\ \A n \in 0..k : t.snapshots[n] = s.snapshots[n]
  <2>1. \A n \in 0..k : n \in DOMAIN s.snapshots /\ n # k + 1
    BY <1>1
  <2> HIDE DEF t, k, saved
  <2> QED
    BY <1>1, <1>5, <2>1 DEF With
<1> QED
  BY <1>3, <1>4, <1>6, <1>7

(* A checkpoint keeps the invariant. *)
LEMMA CheckpointKept ==
  ASSUME NEW s, NEW sid, SessionInv(s, sid), Cardinality(DOMAIN s.snapshots) < MaxCheckpoints
  PROVE  SessionInv(Checkpointed(s), sid) /\ Checkpointed(s).scope = s.scope
<1> DEFINE t == Checkpointed(s)
<1> DEFINE k == s.checkpoint
<1> DEFINE saved == [files |-> s.files, log_len |-> s.logs]
<1>1. k \in 0..(MaxCheckpoints - 1) /\ s \in Session(k) /\ DOMAIN s.snapshots = 0..k
  BY SessionShape DEF SessionInv
<1>2. /\ k + 1 \in 0..(MaxCheckpoints - 1)
      /\ t = [scope |-> s.scope, checkpoint |-> k + 1, preview_owner |-> s.preview_owner,
              stopped |-> s.stopped, files |-> s.files, logs |-> s.logs,
              snapshots |-> With(s.snapshots, k + 1, saved)]
      /\ DOMAIN t.snapshots = 0..(k + 1)
      /\ t.snapshots[k + 1] = saved
      /\ \A n \in 0..k : t.snapshots[n] = s.snapshots[n]
  <2> HIDE DEF t
  <2> QED
    BY CheckpointShape DEF t
<1> HIDE DEF t
<1>4. /\ t.snapshots = With(s.snapshots, k + 1, saved) /\ t.checkpoint = k + 1
      /\ t.scope = s.scope /\ t.logs = s.logs /\ t.files = s.files
      /\ t.preview_owner = s.preview_owner /\ t.stopped = s.stopped
  BY <1>2
<1>6. \A n \in 0..(k + 1) : n \in 0..k \/ n = k + 1
  BY <1>1
<1>7. saved \in [files : Files, log_len : Nat]
  BY <1>1 DEF Session
<1>8. t \in Session(k + 1)
  <2>2. s.snapshots \in [0..k -> [files : Files, log_len : Nat]]
    BY <1>1 DEF Session
  <2>3. \A n \in 0..(k + 1) : t.snapshots[n] \in [files : Files, log_len : Nat]
    BY <1>2, <1>6, <1>7, <2>2
  <2>4. t.snapshots = [n \in 0..(k + 1) |-> t.snapshots[n]]
    BY <1>2, <1>4 DEF With
  <2>5. t.snapshots \in [0..(k + 1) -> [files : Files, log_len : Nat]]
    BY <2>3, <2>4
  <2> QED
    BY <1>1, <1>2, <2>5 DEF Session
<1>9. \A n \in DOMAIN t.snapshots : t.snapshots[n].log_len <= t.logs
  <2>1. s.logs \in Nat /\ \A n \in 0..k : s.snapshots[n].log_len <= s.logs
    BY <1>1 DEF SessionInv, Session
  <2>2. \A n \in 0..k : t.snapshots[n].log_len <= t.logs
    BY <1>2, <1>4, <2>1
  <2>3. t.snapshots[k + 1].log_len <= t.logs
    BY <1>2, <1>4, <2>1
  <2> QED
    BY <1>2, <1>6, <2>2, <2>3
<1>10. \A m, n \in DOMAIN t.snapshots :
         m <= n => t.snapshots[m].log_len <= t.snapshots[n].log_len
  <2> SUFFICES ASSUME NEW m \in 0..(k + 1), NEW n \in 0..(k + 1), m <= n
               PROVE  t.snapshots[m].log_len <= t.snapshots[n].log_len
    BY <1>2
  <2>1. CASE n \in 0..k
    <3>1. m \in 0..k
      BY <1>1, <2>1
    <3> QED
      BY <1>1, <1>2, <2>1, <3>1 DEF SessionInv
  <2>2. CASE n = k + 1
    BY <1>2, <1>4, <1>9, <2>2
  <2> QED
    BY <1>6, <2>1, <2>2
<1>11. WithinQuotas(t)
  <2>1. \A n \in 0..k : FilesFit(s.snapshots[n].files)
    BY <1>1 DEF SessionInv, WithinQuotas
  <2>2. \A n \in 0..(k + 1) : FilesFit(t.snapshots[n].files)
    BY <1>2, <1>6, <2>1 DEF SessionInv, WithinQuotas
  <2> QED
    BY <1>2, <1>4, <2>2 DEF SessionInv, WithinQuotas
<1>12. IsSession(t) /\ t.checkpoint < MaxCheckpoints
  BY <1>2, <1>4, <1>8, QuotaAssumption DEF IsSession
<1> QED
  BY <1>2, <1>4, <1>9, <1>10, <1>11, <1>12 DEF SessionInv, t

(* What a rollback leaves: the history up to the checkpoint gone back to. *)
LEMMA RollbackShape ==
  ASSUME NEW s, NEW sid, SessionInv(s, sid), NEW n \in DOMAIN s.snapshots
  PROVE  LET t == RolledBack(s, n)
         IN  /\ n \in 0..(MaxCheckpoints - 1)
             /\ t = [scope |-> s.scope, checkpoint |-> n, preview_owner |-> s.preview_owner,
                     stopped |-> s.stopped, files |-> s.snapshots[n].files,
                     logs |-> s.snapshots[n].log_len, snapshots |-> Restrict(s.snapshots, 0..n)]
             /\ t.snapshots = Restrict(s.snapshots, 0..n) /\ t.checkpoint = n
             /\ t.logs = s.snapshots[n].log_len /\ t.scope = s.scope
             /\ t.preview_owner = s.preview_owner /\ t.stopped = s.stopped
             /\ t.files = s.snapshots[n].files
             /\ DOMAIN t.snapshots = 0..n
             /\ \A m \in 0..n : t.snapshots[m] = s.snapshots[m]
<1> DEFINE t == RolledBack(s, n)
<1> DEFINE left == {m \in DOMAIN s.snapshots : m <= n}
<1>1. /\ s.checkpoint \in 0..(MaxCheckpoints - 1) /\ s \in Session(s.checkpoint)
      /\ DOMAIN s.snapshots = 0..s.checkpoint
  BY SessionShape DEF SessionInv
<1>2. n \in 0..(MaxCheckpoints - 1) /\ left = 0..n
  BY <1>1, QuotaAssumption
<1>3. /\ s.snapshots[n] \in [files : Files, log_len : Nat]
      /\ s.snapshots[n].log_len <= s.logs
      /\ s.logs \in Nat
  BY <1>1 DEF SessionInv, Session
<1>4. Min({s.logs, s.snapshots[n].log_len}) = s.snapshots[n].log_len
  BY <1>3 DEF Min
<1>5. t = [scope |-> s.scope, checkpoint |-> n, preview_owner |-> s.preview_owner,
           stopped |-> s.stopped, files |-> s.snapshots[n].files,
           logs |-> s.snapshots[n].log_len, snapshots |-> Restrict(s.snapshots, left)]
  <2>1. Forgetting(s, n) =
          [scope |-> s.scope, checkpoint |-> s.checkpoint, preview_owner |-> s.preview_owner,
           stopped |-> s.stopped, files |-> s.files, logs |-> s.logs,
           snapshots |-> Restrict(s.snapshots, left)]
    BY <1>1 DEF Forgetting, Session
  <2>2. Min({Forgetting(s, n).logs, s.snapshots[n].log_len}) = s.snapshots[n].log_len
    BY <1>4, <2>1
  <2> DEFINE r ==
        [scope |-> s.scope, checkpoint |-> s.checkpoint, preview_owner |-> s.preview_owner,
         stopped |-> s.stopped, files |-> s.files, logs |-> s.logs,
         snapshots |-> Restrict(s.snapshots, left)]
  <2>3. t = [r EXCEPT !.files = s.snapshots[n].files,
                      !.logs = s.snapshots[n].log_len, !.checkpoint = n]
    BY <2>1, <2>2, Zenon DEF RolledBack
  <2> HIDE DEF left, t
  <2> QED
    BY <2>3
<1>6. /\ t.snapshots = Restrict(s.snapshots, left) /\ t.checkpoint = n
      /\ t.logs = s.snapshots[n].log_len /\ t.scope = s.scope
      /\ t.preview_owner = s.preview_owner /\ t.stopped = s.stopped
      /\ t.files = s.snapshots[n].files
  BY <1>5
<1>7. /\ DOMAIN t.snapshots = 0..n
      /\ \A m \in 0..n : t.snapshots[m] = s.snapshots[m]
  BY <1>2, <1>6 DEF Restrict
<1> QED
  BY <1>2, <1>5, <1>6, <1>7

(* A rollback keeps the invariant. *)
LEMMA RollbackKept ==
  ASSUME NEW s, NEW sid, SessionInv(s, sid), NEW n \in DOMAIN s.snapshots
  PROVE  SessionInv(RolledBack(s, n), sid) /\ RolledBack(s, n).scope = s.scope
<1> DEFINE t == RolledBack(s, n)
<1>1. /\ s.checkpoint \in 0..(MaxCheckpoints - 1) /\ s \in Session(s.checkpoint)
      /\ DOMAIN s.snapshots = 0..s.checkpoint
  BY SessionShape DEF SessionInv
<1>2. n \in 0..(MaxCheckpoints - 1)
  BY <1>1, QuotaAssumption
<1>3. /\ s.snapshots[n] \in [files : Files, log_len : Nat]
      /\ s.snapshots[n].log_len <= s.logs
      /\ s.logs \in Nat
  BY <1>1 DEF SessionInv, Session
<1>5. /\ t = [scope |-> s.scope, checkpoint |-> n, preview_owner |-> s.preview_owner,
              stopped |-> s.stopped, files |-> s.snapshots[n].files,
              logs |-> s.snapshots[n].log_len, snapshots |-> Restrict(s.snapshots, 0..n)]
      /\ t.snapshots = Restrict(s.snapshots, 0..n) /\ t.checkpoint = n
      /\ t.logs = s.snapshots[n].log_len /\ t.scope = s.scope
      /\ t.preview_owner = s.preview_owner /\ t.stopped = s.stopped
      /\ t.files = s.snapshots[n].files
      /\ DOMAIN t.snapshots = 0..n
      /\ \A m \in 0..n : t.snapshots[m] = s.snapshots[m]
  <2> HIDE DEF t
  <2> QED
    BY RollbackShape DEF t
<1>6. /\ t.snapshots = Restrict(s.snapshots, 0..n) /\ t.checkpoint = n
      /\ t.logs = s.snapshots[n].log_len /\ t.scope = s.scope
      /\ t.preview_owner = s.preview_owner /\ t.stopped = s.stopped
      /\ t.files = s.snapshots[n].files
  BY <1>5
<1>7. DOMAIN t.snapshots = 0..n /\ \A m \in 0..n : t.snapshots[m] = s.snapshots[m]
  BY <1>5
<1> HIDE DEF t
<1>8. t \in Session(n)
  <2>1. s.snapshots \in [0..s.checkpoint -> [files : Files, log_len : Nat]]
    BY <1>1 DEF Session
  <2>2. t.snapshots \in [0..n -> [files : Files, log_len : Nat]]
    BY <1>1, <1>2, <1>6, <2>1 DEF Restrict
  <2>3. n \in Nat /\ t.snapshots = Restrict(s.snapshots, 0..n)
    BY <1>2, <1>6, QuotaAssumption
  <2> QED
    <3> HIDE DEF t
    <3> QED
      BY <1>1, <1>2, <1>3, <1>5, <2>2, <2>3 DEF Session
<1>9. 0..n \subseteq DOMAIN s.snapshots
  BY <1>1, <1>2, QuotaAssumption
<1>10. /\ DOMAIN t.snapshots = 0..t.checkpoint /\ t.checkpoint < MaxCheckpoints
       /\ t.scope.builder_session_id = sid
       /\ t.preview_owner # NoOwner => t.preview_owner = t.scope /\ ~ t.stopped
  BY <1>2, <1>6, <1>7, QuotaAssumption DEF SessionInv
<1>11. \A l, m \in DOMAIN t.snapshots :
         l <= m => t.snapshots[l].log_len <= t.snapshots[m].log_len
  BY <1>7, <1>9 DEF SessionInv
<1>12. \A m \in DOMAIN t.snapshots : t.snapshots[m].log_len <= t.logs
  BY <1>2, <1>6, <1>7, <1>9, QuotaAssumption DEF SessionInv
<1>13. IsSession(t)
  BY <1>2, <1>8 DEF IsSession
<1> HIDE DEF t
<1>14. WithinQuotas(t)
  <2>1. \A m \in 0..n : FilesFit(t.snapshots[m].files)
    BY <1>7, <1>9 DEF SessionInv, WithinQuotas
  <2>2. t.logs <= MaxLogEvents
    BY <1>2, <1>3, <1>6, QuotaAssumption DEF SessionInv, WithinQuotas
  <2> QED
    BY <1>6, <1>7, <2>1, <2>2 DEF SessionInv, WithinQuotas
<1>15. SessionInv(t, sid)
  BY <1>10, <1>11, <1>12, <1>13, <1>14 DEF SessionInv
<1> QED
  BY <1>6, <1>15 DEF t

-----------------------------------------------------------------------------
(* Steps *)

(* The ways a call moves the session s it finds to t: it opens it, edits it    *)
(* without touching its history, saves it or goes back to a checkpoint.         *)
Opens(s, t, scope) == s = NoSession /\ t = NewSession(scope)

Edits(s, t) ==
  \E f \in Files, logs \in Nat, owner \in {NoOwner, s.scope}, stopped \in BOOLEAN :
    /\ FilesFit(f) /\ s.logs <= logs /\ logs <= MaxLogEvents
    /\ stopped => owner = NoOwner /\ f = s.files /\ logs = s.logs
    /\ t = Edited(s, f, logs, owner, stopped)

Saves(s, t) == Cardinality(DOMAIN s.snapshots) < MaxCheckpoints /\ t = Checkpointed(s)

GoesBack(s, t) == \E n \in DOMAIN s.snapshots : t = RolledBack(s, n)

Moves(s, t, scope) ==
  \/ Opens(s, t, scope)
  \/ /\ s # NoSession /\ ~ s.stopped /\ s.scope = scope
     /\ Edits(s, t) \/ Saves(s, t) \/ GoesBack(s, t)

(* The session a call finds, if it is the caller's own. *)
LEMMA OwnedKept ==
  ASSUME BuilderInv, NEW scope, Owned(scope)
  PROVE  /\ scope \in Scope /\ scope.builder_session_id \in Sids
         /\ SessionInv(SessionOf(scope), scope.builder_session_id)
         /\ SessionOf(scope) # NoSession
         /\ SessionOf(scope).scope = scope /\ ~ SessionOf(scope).stopped
<1>1. scope \in Scope /\ scope.builder_session_id \in Sids
  BY DEF Owned, Valid, Scope
<1> QED
  BY <1>1 DEF BuilderInv, Owned, SessionOf

(* A session that satisfies the invariant may be edited within its quotas. *)
LEMMA EditsBy ==
  ASSUME NEW s, NEW sid, SessionInv(s, sid), NEW t, s.stopped = FALSE,
         NEW f, FilesFit(f), f \in Files, NEW logs \in Nat, s.logs <= logs, logs <= MaxLogEvents,
         NEW owner \in {NoOwner, s.scope, s.preview_owner}, NEW stopped \in BOOLEAN,
         stopped => owner = NoOwner /\ f = s.files /\ logs = s.logs,
         t = Edited(s, f, logs, owner, stopped)
  PROVE  Edits(s, t)
<1>1. owner \in {NoOwner, s.scope}
  BY DEF SessionInv
<1> QED
  BY <1>1 DEF Edits

(* Every call either changes nothing or moves the session of its scope. *)
LEMMA CallsMove ==
  ASSUME BuilderInv, NEW scope, Call(scope)
  PROVE  \/ UNCHANGED sessions
         \/ \E t : Valid(scope) /\ Update(scope, t) /\ Moves(SessionOf(scope), t, scope)
<1> DEFINE s == SessionOf(scope)
<1> DEFINE sid == scope.builder_session_id
<1> DEFINE Moved == \E t : Valid(scope) /\ Update(scope, t) /\ Moves(s, t, scope)
<1>1. ASSUME Owned(scope)
      PROVE  /\ s \in Session(s.checkpoint) /\ SessionInv(s, sid)
             /\ s # NoSession /\ s.scope = scope /\ s.stopped = FALSE /\ Valid(scope)
             /\ s.files \in Files /\ s.logs \in Nat
             /\ FilesFit(s.files) /\ s.logs <= MaxLogEvents /\ s.logs <= s.logs
  <2>1. SessionInv(s, sid) /\ s # NoSession /\ s.scope = scope /\ ~ s.stopped
    BY <1>1, OwnedKept
  <2>2. s \in Session(s.checkpoint)
    BY <2>1, SessionShape
  <2> QED
    BY <1>1, <2>1, <2>2 DEF Session, SessionInv, WithinQuotas, Owned
<1>2. ASSUME Owned(scope), NEW t, Update(scope, t), Edits(s, t) \/ Saves(s, t) \/ GoesBack(s, t)
      PROVE  Moved
  BY <1>1, <1>2 DEF Moves
<1>3. CASE Create(scope)
  BY <1>3 DEF Create, Moves, Opens
<1>4. ASSUME NEW path, NEW content \in Contents, WriteFile(scope, path, content)
      PROVE  Moved
  <2> DEFINE f == With(s.files, path, content)
  <2> DEFINE t == [s EXCEPT !.files = f]
  <2>1. /\ Owned(scope) /\ path \in Paths /\ Update(scope, t)
        /\ Size[content] <= MaxFileBytes /\ HasSpace(s, path, content)
    BY <1>4 DEF WriteFile, PathAccepted
  <2>2. f \in Files /\ FilesFit(f)
    <3> HIDE DEF s
    <3> QED
      BY <1>1, <2>1, WritingKeepsFiles, WritingFits
  <2>3. t = Edited(s, f, s.logs, s.preview_owner, FALSE)
    <3> HIDE DEF f
    <3> QED
      BY <1>1, <2>1 DEF Session, Edited
  <2>4. Edits(s, t)
    <3> HIDE DEF s, t, f, sid
    <3> QED
      BY <1>1, <2>1, <2>2, <2>3, EditsBy
  <2> QED
    BY <1>2, <2>1, <2>4
<1>5. ASSUME NEW path, DeleteFile(scope, path)
      PROVE  Moved
  <2> DEFINE f == Restrict(s.files, DOMAIN s.files \ {path})
  <2> DEFINE t == [s EXCEPT !.files = f]
  <2>1. Owned(scope) /\ path \in DOMAIN s.files /\ Update(scope, t)
    BY <1>5 DEF DeleteFile
  <2>2. f \in Files /\ FilesFit(f)
    <3> HIDE DEF s
    <3> QED
      BY <1>1, <2>1, DeletingKeepsFiles, DeletingFits
  <2>3. t = Edited(s, f, s.logs, s.preview_owner, FALSE)
    <3> HIDE DEF f
    <3> QED
      BY <1>1, <2>1 DEF Session, Edited
  <2>4. Edits(s, t)
    <3> HIDE DEF s, t, f, sid
    <3> QED
      BY <1>1, <2>1, <2>2, <2>3, EditsBy
  <2> QED
    BY <1>2, <2>1, <2>4
<1>6. CASE Run(scope)
  <2> DEFINE t == [s EXCEPT !.logs = @ + 1]
  <2>1. Owned(scope) /\ Update(scope, t) /\ s.logs < MaxLogEvents
    BY <1>6 DEF Run
  <2>2. s.logs + 1 \in Nat /\ s.logs <= s.logs + 1 /\ s.logs + 1 <= MaxLogEvents
    BY <1>1, <2>1, QuotaAssumption
  <2>3. t = Edited(s, s.files, s.logs + 1, s.preview_owner, FALSE)
    BY <1>1, <2>1 DEF Session, Edited
  <2>4. Edits(s, t)
    <3> HIDE DEF s, t, sid
    <3> QED
      BY <1>1, <2>1, <2>2, <2>3, EditsBy
  <2> QED
    BY <1>2, <2>1, <2>4
<1>7. CASE Checkpoint(scope)
  BY <1>2, <1>7 DEF Checkpoint, Saves, Checkpointed
<1>8. ASSUME NEW n, Rollback(scope, n)
      PROVE  Moved
  BY <1>2, <1>8 DEF Rollback, GoesBack
<1>9. CASE Preview(scope)
  <2> DEFINE t == [s EXCEPT !.preview_owner = scope]
  <2>1. Owned(scope) /\ Update(scope, t)
    BY <1>9 DEF Preview
  <2>2. t = Edited(s, s.files, s.logs, s.scope, FALSE)
    BY <1>1, <2>1 DEF Session, Edited
  <2>3. Edits(s, t)
    <3> HIDE DEF s, t, sid
    <3> QED
      BY <1>1, <2>1, <2>2, EditsBy
  <2> QED
    BY <1>2, <2>1, <2>3
<1>10. CASE Stop(scope)
  <2> DEFINE t == [s EXCEPT !.preview_owner = NoOwner, !.stopped = TRUE]
  <2>1. Owned(scope) /\ Update(scope, t)
    BY <1>10 DEF Stop
  <2>2. t = Edited(s, s.files, s.logs, NoOwner, TRUE)
    BY <1>1, <2>1 DEF Session, Edited
  <2>3. Edits(s, t)
    <3> HIDE DEF s, t, sid
    <3> QED
      BY <1>1, <2>1, <2>2, EditsBy
  <2> QED
    BY <1>2, <2>1, <2>3
<1> QED
  BY <1>3, <1>4, <1>5, <1>6, <1>7, <1>8, <1>9, <1>10 DEF Call

(* A move keeps what a session satisfies, and whose it is. *)
LEMMA MovesKeep ==
  ASSUME NEW s, NEW t, NEW scope \in Scope, Moves(s, t, scope),
         s = NoSession \/ SessionInv(s, scope.builder_session_id)
  PROVE  SessionInv(t, scope.builder_session_id) /\ (s # NoSession => t.scope = s.scope)
<1> DEFINE sid == scope.builder_session_id
<1>1. CASE Opens(s, t, scope)
  BY <1>1, NewSessionKept DEF Opens
<1>2. CASE s # NoSession /\ Edits(s, t)
  <2>1. PICK f \in Files, logs \in Nat, owner \in {NoOwner, s.scope}, stopped \in BOOLEAN :
          /\ FilesFit(f) /\ s.logs <= logs /\ logs <= MaxLogEvents
          /\ stopped => owner = NoOwner /\ f = s.files /\ logs = s.logs
          /\ t = Edited(s, f, logs, owner, stopped)
    BY <1>2 DEF Edits
  <2>2. SessionInv(s, sid)
    BY <1>2
  <2> HIDE DEF sid
  <2>3. SessionInv(t, sid) /\ t.scope = s.scope
    BY <2>1, <2>2, EditKept
  <2> QED
    BY <2>3 DEF sid
<1>3. CASE s # NoSession /\ Saves(s, t)
  BY <1>3, CheckpointKept DEF Saves
<1>4. CASE s # NoSession /\ GoesBack(s, t)
  BY <1>4, RollbackKept DEF GoesBack
<1> QED
  BY <1>1, <1>2, <1>3, <1>4 DEF Moves

-----------------------------------------------------------------------------
(* The invariant and what it implies *)

(* No session is there at first. *)
LEMMA BuilderInvInit == Init => BuilderInv
BY DEF Init, BuilderInv

(* What a step leaves of the sessions that are there: the action of           *)
(* StoppedForever.                                                             *)
Faithful ==
  \A sid \in Live :
    /\ sessions'[sid] # NoSession
    /\ sessions'[sid].scope = sessions[sid].scope
    /\ sessions[sid].stopped => sessions'[sid] = sessions[sid]

(* A move changes the session of its scope only, and keeps it its owner's. *)
LEMMA MovesOneSession ==
  ASSUME BuilderInv, NEW scope, Valid(scope), NEW t, Update(scope, t),
         Moves(SessionOf(scope), t, scope)
  PROVE  BuilderInv' /\ Faithful
<1> DEFINE sid == scope.builder_session_id
<1> DEFINE s == sessions[sid]
<1>1. sid \in Sids /\ scope \in Scope /\ DOMAIN sessions = Sids
  BY DEF Valid, Scope, BuilderInv
<1>2. /\ DOMAIN sessions' = Sids
      /\ sessions'[sid] = t
      /\ \A other \in Sids \ {sid} : sessions'[other] = sessions[other]
  BY <1>1 DEF Update
<1>3. s = NoSession \/ SessionInv(s, sid)
  BY <1>1 DEF BuilderInv
<1>4. Moves(s, t, scope)
  BY DEF SessionOf
<1>5. SessionInv(t, sid) /\ (s # NoSession => t.scope = s.scope)
  <2> HIDE DEF s
  <2> QED
    BY <1>1, <1>3, <1>4, MovesKeep
<1>6. BuilderInv'
  <2>1. \A id \in Sids : sessions'[id] = NoSession \/ SessionInv(sessions'[id], id)
    BY <1>2, <1>5 DEF BuilderInv
  <2> QED
    BY <1>2, <2>1 DEF BuilderInv, SessionInv, WithinQuotas, FilesFit
<1>7. t # NoSession
  BY <1>5, NullAssumption DEF SessionInv
<1>8. s = NoSession \/ ~ s.stopped
  BY <1>4 DEF Moves, Opens
<1>9. Faithful
  BY <1>2, <1>5, <1>7, <1>8 DEF Faithful, Live
<1> QED
  BY <1>6, <1>9

(* Every step keeps the invariant and every session that is there. *)
LEMMA BuilderInvNext == BuilderInv /\ [Next]_sessions => BuilderInv' /\ [Faithful]_sessions
<1> SUFFICES ASSUME BuilderInv, [Next]_sessions
             PROVE  BuilderInv' /\ [Faithful]_sessions
  OBVIOUS
<1>1. CASE UNCHANGED sessions
  BY <1>1 DEF BuilderInv, SessionInv
<1>2. ASSUME NEW scope, Call(scope)
      PROVE  BuilderInv' /\ [Faithful]_sessions
  BY <1>1, <1>2, CallsMove, MovesOneSession
<1> QED
  BY <1>1, <1>2 DEF Next

(* Every session always satisfies the invariant. *)
THEOREM BuilderInvAlways == Spec => []BuilderInv
BY BuilderInvInit, BuilderInvNext, PTL DEF Spec

(* Sessions are well-formed after any calls: files at accepted paths, a log and *)
(* checkpoints, whatever callers pass.                                          *)
THEOREM SessionsTypeCorrect == Spec => []TypeOK
<1>1. BuilderInv => TypeOK
  BY DEF BuilderInv, TypeOK, SessionInv
<1> QED
  BY <1>1, BuilderInvAlways, PTL

(* Checkpoints are always exactly 0..checkpoint, within the budget, and the log *)
(* never shrinks along them: checkpoint() overwrites nothing after rollbacks.   *)
THEOREM HistoryUnbroken == Spec => []HistoryContiguous
<1>1. BuilderInv => HistoryContiguous
  BY DEF BuilderInv, HistoryContiguous, SessionInv, Live
<1> QED
  BY <1>1, BuilderInvAlways, PTL

(* The file, byte and log quotas hold for the live files and every checkpoint   *)
(* after any writes, deletions and rollbacks, although rollback() checks none.  *)
THEOREM QuotasAlwaysHold == Spec => []QuotasHold
<1>1. BuilderInv => QuotasHold
  BY DEF BuilderInv, QuotasHold, SessionInv, WithinQuotas, FilesFit, Live
<1> QED
  BY <1>1, BuilderInvAlways, PTL

(* A preview always belongs to the scope of a live session filed under its id.  *)
THEOREM PreviewsStayOwned == Spec => []PreviewOwned
<1>1. BuilderInv => PreviewOwned
  BY DEF BuilderInv, PreviewOwned, SessionInv, Live
<1> QED
  BY <1>1, BuilderInvAlways, PTL

(* No sequence of calls hands a session on or wakes a stopped one.              *)
THEOREM StopIsFinal == Spec => StoppedForever
<1>1. BuilderInv /\ [Next]_sessions => [Faithful]_sessions
  BY BuilderInvNext
<1>2. [Faithful]_sessions <=>
        [ \A sid \in Live :
            /\ sessions'[sid] # NoSession
            /\ sessions'[sid].scope = sessions[sid].scope
            /\ sessions[sid].stopped => sessions'[sid] = sessions[sid] ]_sessions
  BY DEF Faithful
<1> QED
  BY <1>1, <1>2, BuilderInvAlways, PTL DEF Spec, StoppedForever

(* diff is empty exactly when the current checkpoint holds the live files: it   *)
(* never hides a change that a rollback would lose.                             *)
THEOREM DiffShowsUnsavedWork == Spec => []DiffIsUnsavedWork
<1>1. ASSUME BuilderInv, NEW sid \in Live
      PROVE  LET s == sessions[sid]
             IN  Diff(s) = {} <=> /\ s.checkpoint \in DOMAIN s.snapshots
                                  /\ s.snapshots[s.checkpoint].files = s.files
  <2> DEFINE s == sessions[sid]
  <2> DEFINE base == s.snapshots[s.checkpoint].files
  <2>1. SessionInv(s, sid)
    BY <1>1 DEF BuilderInv, Live
  <2>2. /\ s.checkpoint \in DOMAIN s.snapshots
        /\ base \in Files /\ s.files \in Files
    <3> HIDE DEF s
    <3>1. s.checkpoint \in 0..(MaxCheckpoints - 1) /\ s \in Session(s.checkpoint)
      BY <2>1, SessionShape
    <3>2. s.checkpoint \in 0..s.checkpoint
      BY <3>1, QuotaAssumption
    <3> QED
      BY <3>1, <3>2 DEF Session, base
  <2>3. Diff(s) = {p \in DOMAIN base \cup DOMAIN s.files :
                      ContentAt(base, p) # ContentAt(s.files, p)}
    BY <2>2 DEF Diff
  <2>4. base \in [DOMAIN base -> Contents] /\ s.files \in [DOMAIN s.files -> Contents]
    BY <2>2, FilesAreMaps
  <2> HIDE DEF base, s
  <2>5. ASSUME Diff(s) = {}
        PROVE  base = s.files
    <3>1. \A p \in DOMAIN base \cup DOMAIN s.files :
            ContentAt(base, p) = ContentAt(s.files, p)
      BY <2>3, <2>5
    <3>2. DOMAIN base = DOMAIN s.files
      BY <2>4, <3>1, NullAssumption DEF ContentAt
    <3>3. \A p \in DOMAIN base : base[p] = s.files[p]
      BY <3>1, <3>2 DEF ContentAt
    <3> QED
      BY <2>4, <3>2, <3>3
  <2>6. ASSUME base = s.files
        PROVE  Diff(s) = {}
    BY <2>3, <2>6
  <2> QED
    BY <2>2, <2>5, <2>6 DEF base, s
<1>2. BuilderInv => DiffIsUnsavedWork
  BY <1>1 DEF DiffIsUnsavedWork
<1> QED
  BY <1>2, BuilderInvAlways, PTL

-----------------------------------------------------------------------------
(* A session is a stack *)

(* The stack of a session has its checkpoints as its levels, and its work is   *)
(* within the quotas.                                                          *)
LEMMA SavedShape ==
  ASSUME NEW s, NEW sid, SessionInv(s, sid)
  PROVE  /\ s.checkpoint \in Nat
         /\ Saved(s) \in Seq([files : Files, logs : Nat])
         /\ Len(Saved(s)) = s.checkpoint + 1
         /\ \A i \in 1..(s.checkpoint + 1) :
              Saved(s)[i] = [files |-> s.snapshots[i - 1].files,
                             logs |-> s.snapshots[i - 1].log_len]
         /\ WorkOf(s) \in Works
<1>1. s.checkpoint \in Nat /\ s \in Session(s.checkpoint)
  BY SessionShape, QuotaAssumption
<1>2. \A i \in 1..(s.checkpoint + 1) :
        /\ i - 1 \in 0..s.checkpoint
        /\ s.snapshots[i - 1].files \in Files /\ s.snapshots[i - 1].log_len \in Nat
  BY <1>1 DEF Session
<1>3. Saved(s) \in [1..(s.checkpoint + 1) -> [files : Files, logs : Nat]]
  BY <1>2 DEF Saved
<1>4. WorkOf(s) \in Works
  <2>1. s.files \in {g \in Files : FilesWithinQuota(g)} /\ s.logs \in 0..MaxLogEvents
    BY <1>1, QuotaAssumption DEF Session, SessionInv, WithinQuotas, FilesFit
  <2> QED
    BY <2>1 DEF Works, WorkOf
<1>5. Saved(s) \in Seq([files : Files, logs : Nat]) /\ Len(Saved(s)) = s.checkpoint + 1
  <2> DEFINE n == s.checkpoint + 1
  <2>1. n \in Nat
    BY <1>1
  <2>2. Saved(s) \in [1..n -> [files : Files, logs : Nat]]
    BY <1>3
  <2>3. \A S : \A f \in [1..n -> S] : f \in Seq(S) /\ Len(f) = n
    <3> HIDE DEF n
    <3> QED
      BY <2>1
  <2> QED
    BY <2>2, <2>3
<1> QED
  BY <1>1, <1>4, <1>5 DEF Saved

(* What create opens is a stack of one level, with nothing done. *)
LEMMA OpenedStack ==
  ASSUME NEW scope
  PROVE  /\ WorkOf(NewSession(scope)) = [files |-> NoFiles, logs |-> 0]
         /\ Saved(NewSession(scope)) = << [files |-> NoFiles, logs |-> 0] >>
         /\ ~ NewSession(scope).stopped
BY DEF WorkOf, Saved, NewSession

(* An edit reaches no level of the stack. *)
LEMMA EditedStack ==
  ASSUME NEW s, NEW sid, SessionInv(s, sid),
         NEW f, NEW logs, NEW owner, NEW stopped
  PROVE  LET t == Edited(s, f, logs, owner, stopped)
         IN  /\ Saved(t) = Saved(s)
             /\ WorkOf(t) = [files |-> f, logs |-> logs]
             /\ t.stopped = stopped
<1> DEFINE t == Edited(s, f, logs, owner, stopped)
<1>1. s \in Session(s.checkpoint)
  BY SessionShape
<1>2. t.snapshots = s.snapshots /\ t.checkpoint = s.checkpoint
      /\ t.files = f /\ t.logs = logs /\ t.stopped = stopped
  BY <1>1 DEF Session, Edited
<1> HIDE DEF t
<1>3. Saved(t) = Saved(s) /\ WorkOf(t) = [files |-> f, logs |-> logs]
  BY <1>2 DEF Saved, WorkOf
<1> QED
  BY <1>2, <1>3 DEF t

(* A checkpoint pushes the work. *)
LEMMA CheckpointedStack ==
  ASSUME NEW s, NEW sid, SessionInv(s, sid), Cardinality(DOMAIN s.snapshots) < MaxCheckpoints
  PROVE  LET t == Checkpointed(s)
         IN  /\ Len(Saved(s)) < MaxCheckpoints
             /\ Saved(t) = Append(Saved(s), WorkOf(s))
             /\ WorkOf(t) = WorkOf(s)
             /\ t.stopped = s.stopped
<1> DEFINE t == Checkpointed(s)
<1> DEFINE k == s.checkpoint
<1>1. /\ k + 1 \in 0..(MaxCheckpoints - 1)
      /\ t.checkpoint = k + 1 /\ t.files = s.files /\ t.logs = s.logs /\ t.stopped = s.stopped
      /\ t.snapshots[k + 1] = [files |-> s.files, log_len |-> s.logs]
      /\ \A n \in 0..k : t.snapshots[n] = s.snapshots[n]
  <2> HIDE DEF t
  <2>1. t = [scope |-> s.scope, checkpoint |-> k + 1, preview_owner |-> s.preview_owner,
              stopped |-> s.stopped, files |-> s.files, logs |-> s.logs,
              snapshots |-> With(s.snapshots, k + 1,
                                 [files |-> s.files, log_len |-> s.logs])]
    BY CheckpointShape DEF t
  <2>2. /\ k + 1 \in 0..(MaxCheckpoints - 1)
        /\ t.snapshots[k + 1] = [files |-> s.files, log_len |-> s.logs]
        /\ \A n \in 0..k : t.snapshots[n] = s.snapshots[n]
    BY CheckpointShape DEF t
  <2>3. t.checkpoint = k + 1 /\ t.files = s.files /\ t.logs = s.logs /\ t.stopped = s.stopped
    BY <2>1
  <2> QED
    BY <2>2, <2>3
<1>2. /\ k \in Nat /\ Len(Saved(s)) = k + 1
      /\ Saved(s) \in Seq([files : Files, logs : Nat])
      /\ \A i \in 1..(k + 1) : Saved(s)[i] = [files |-> s.snapshots[i - 1].files,
                                              logs |-> s.snapshots[i - 1].log_len]
  BY SavedShape
<1> HIDE DEF t, k
<1>3. Saved(t) = [i \in 1..(k + 2) |-> [files |-> t.snapshots[i - 1].files,
                                        logs |-> t.snapshots[i - 1].log_len]]
  BY <1>1, <1>2 DEF Saved
<1> DEFINE S == [files : Files, logs : Nat]
<1>4. Saved(t) \in Seq(S) /\ Len(Saved(t)) = k + 2
  <2>1. SessionInv(t, sid)
    BY CheckpointKept DEF t
  <2> QED
    BY <1>1, <1>2, <2>1, SavedShape
<1>5. WorkOf(s) \in S
  BY SavedShape, QuotaAssumption DEF Works
<1> DEFINE pushed == Append(Saved(s), WorkOf(s))
<1>6. Saved(t) = pushed
  <2>1. /\ pushed \in Seq(S) /\ Len(pushed) = k + 2 /\ pushed[k + 2] = WorkOf(s)
        /\ \A i \in 1..(k + 1) : pushed[i] = Saved(s)[i]
    <3> HIDE DEF S
    <3>1. Saved(s) \in Seq(S)
      BY <1>2 DEF S
    <3>2. Len(pushed) = (k + 1) + 1 /\ pushed[(k + 1) + 1] = WorkOf(s) /\ pushed \in Seq(S)
          /\ \A i \in 1..(k + 1) : pushed[i] = Saved(s)[i]
      BY <1>2, <1>5, <3>1, AppendProperties
    <3>3. (k + 1) + 1 = k + 2
      BY <1>2
    <3> QED
      BY <3>2, <3>3
  <2>2. \A i \in 1..(k + 1) : Saved(t)[i] = Saved(s)[i]
    <3> SUFFICES ASSUME NEW i \in 1..(k + 1) PROVE Saved(t)[i] = Saved(s)[i]
      OBVIOUS
    <3>1. i - 1 \in 0..k /\ i \in 1..(k + 2)
      BY <1>2
    <3>2. t.snapshots[i - 1] = s.snapshots[i - 1]
      BY <1>1, <3>1
    <3> QED
      BY <1>2, <1>3, <3>1, <3>2
  <2>3. Saved(t)[k + 2] = WorkOf(s)
    <3>1. (k + 2) - 1 = k + 1 /\ k + 2 \in 1..(k + 2)
      BY <1>2
    <3> QED
      BY <1>1, <1>3, <3>1 DEF WorkOf
  <2>4. \A i \in 1..(k + 2) : i \in 1..(k + 1) \/ i = k + 2
    BY <1>2
  <2> HIDE DEF pushed, S
  <2>5. \A i \in 1..Len(Saved(t)) : Saved(t)[i] = pushed[i]
    BY <1>4, <2>1, <2>2, <2>3, <2>4
  <2> QED
    BY <1>4, <2>1, <2>5, SeqEqual
<1>7. Len(Saved(s)) < MaxCheckpoints /\ WorkOf(t) = WorkOf(s)
  BY <1>1, <1>2, QuotaAssumption DEF WorkOf
<1> QED
  BY <1>1, <1>6, <1>7 DEF t

(* A rollback pops down to its level and brings back the work saved there. *)
LEMMA RolledBackStack ==
  ASSUME NEW s, NEW sid, SessionInv(s, sid), NEW n \in DOMAIN s.snapshots
  PROVE  LET t == RolledBack(s, n)
         IN  /\ n + 1 \in 1..Len(Saved(s))
             /\ Saved(t) = SubSeq(Saved(s), 1, n + 1)
             /\ WorkOf(t) = Saved(s)[n + 1]
             /\ t.stopped = s.stopped
<1> DEFINE t == RolledBack(s, n)
<1> DEFINE k == s.checkpoint
<1>1. /\ k \in Nat /\ Len(Saved(s)) = k + 1 /\ n \in 0..k
      /\ \A i \in 1..(k + 1) : Saved(s)[i] = [files |-> s.snapshots[i - 1].files,
                                              logs |-> s.snapshots[i - 1].log_len]
  BY SavedShape DEF SessionInv
<1>2. /\ t.checkpoint = n /\ t.stopped = s.stopped
      /\ t.files = s.snapshots[n].files /\ t.logs = s.snapshots[n].log_len
      /\ \A m \in 0..n : t.snapshots[m] = s.snapshots[m]
  <2> HIDE DEF t
  <2> QED
    BY RollbackShape DEF t
<1> HIDE DEF t, k
<1>3. Saved(t) = [i \in 1..(n + 1) |-> Saved(s)[i]]
  <2>1. Saved(t) = [i \in 1..(n + 1) |-> [files |-> t.snapshots[i - 1].files,
                                          logs |-> t.snapshots[i - 1].log_len]]
    BY <1>2 DEF Saved
  <2>2. \A i \in 1..(n + 1) : i \in 1..(k + 1) /\ i - 1 \in 0..n
    BY <1>1
  <2> QED
    BY <1>1, <1>2, <2>1, <2>2
<1>4. Saved(t) = SubSeq(Saved(s), 1, n + 1)
  <2> DEFINE S == [files : Files, logs : Nat]
  <2> DEFINE popped == SubSeq(Saved(s), 1, n + 1)
  <2>1. Saved(t) \in Seq(S) /\ Len(Saved(t)) = n + 1
    <3>1. SessionInv(t, sid)
      BY RollbackKept DEF t
    <3> QED
      BY <1>2, <3>1, SavedShape
  <2>2. popped \in Seq(S) /\ Len(popped) = n + 1 /\ \A i \in 1..(n + 1) : popped[i] = Saved(s)[i]
    <3>1. 1 \in Int /\ n + 1 \in Int /\ 1 <= n + 1 /\ n + 1 - 1 + 1 = n + 1
      BY <1>1
    <3>2. \A i \in 1..(n + 1) : i \in 1..Len(Saved(s)) /\ 1 + i - 1 = i
      BY <1>1
    <3>3. \A i \in 1..(n + 1) : Saved(s)[i] \in S
      <4> HIDE DEF S
      <4>1. Saved(s) \in Seq(S)
        BY SavedShape DEF S
      <4> QED
        BY <3>2, <4>1, ElementOfSeq
    <3> HIDE DEF S
    <3>4. /\ popped \in Seq(S)
          /\ Len(popped) = IF 1 <= n + 1 THEN n + 1 - 1 + 1 ELSE 0
          /\ \A i \in 1..(n + 1 - 1 + 1) : popped[i] = Saved(s)[1 + i - 1]
      BY <3>1, <3>3, SubSeqProperties
    <3> HIDE DEF popped
    <3> QED
      BY <3>1, <3>2, <3>4
  <2> HIDE DEF S, popped
  <2>3. \A i \in 1..Len(Saved(t)) : Saved(t)[i] = popped[i]
    BY <1>3, <2>1, <2>2
  <2> QED
    BY <2>1, <2>2, <2>3, SeqEqual DEF popped
<1>5. n + 1 \in 1..(k + 1) /\ (n + 1) - 1 = n
  BY <1>1
<1>6. WorkOf(t) = Saved(s)[n + 1]
  BY <1>1, <1>2, <1>5 DEF WorkOf
<1> QED
  BY <1>1, <1>2, <1>3, <1>4, <1>5, <1>6 DEF t

(* A session opened, edited, saved or rolled back is a step of its stack. *)
LEMMA MovesAreStackSteps ==
  ASSUME NEW s, NEW t, NEW scope \in Scope, Moves(s, t, scope),
         s = NoSession \/ SessionInv(s, scope.builder_session_id),
         scope.builder_session_id = HistorySid, HistorySid \in Sids,
         sessions[HistorySid] = s, sessions'[HistorySid] = t
  PROVE  History!Next
<1>1. SessionInv(t, HistorySid) /\ t # NoSession /\ (HistorySid \in Live)'
  BY MovesKeep, NullAssumption DEF SessionInv, Live
<1>2. CASE Opens(s, t, scope)
  <2>1. HistorySid \notin Live
    BY <1>2 DEF Opens, Live
  <2>2. History!Open
    BY <1>1, <1>2, <2>1, OpenedStack DEF History!Open, Opens
  <2> QED
    BY <2>2 DEF History!Next
<1>3. ASSUME s # NoSession
      PROVE  HistorySid \in Live /\ SessionInv(s, HistorySid)
  BY <1>3 DEF Live
<1>4. CASE s # NoSession /\ ~ s.stopped /\ Edits(s, t)
  <2>1. PICK f \in Files, logs \in Nat, owner \in {NoOwner, s.scope}, stopped \in BOOLEAN :
          /\ FilesFit(f) /\ s.logs <= logs /\ logs <= MaxLogEvents
          /\ stopped => owner = NoOwner /\ f = s.files /\ logs = s.logs
          /\ t = Edited(s, f, logs, owner, stopped)
    BY <1>4 DEF Edits
  <2>2. Saved(t) = Saved(s) /\ WorkOf(t) = [files |-> f, logs |-> logs] /\ t.stopped = stopped
    BY <1>3, <1>4, <2>1, EditedStack
  <2>3. CASE stopped
    <3>1. WorkOf(t) = WorkOf(s)
      BY <2>1, <2>2, <2>3 DEF WorkOf
    <3>2. History!Close
      BY <1>1, <1>3, <1>4, <2>2, <2>3, <3>1 DEF History!Close
    <3> QED
      BY <3>2 DEF History!Next
  <2>4. CASE ~ stopped
    <3>1. WorkOf(t) \in Works
      BY <1>1, SavedShape
    <3>2. History!Edit
      BY <1>1, <1>3, <1>4, <2>2, <2>4, <3>1 DEF History!Edit
    <3> QED
      BY <3>2 DEF History!Next
  <2> QED
    BY <2>3, <2>4
<1>5. CASE s # NoSession /\ ~ s.stopped /\ Saves(s, t)
  <2>1. /\ Len(Saved(s)) < MaxCheckpoints /\ Saved(t) = Append(Saved(s), WorkOf(s))
        /\ WorkOf(t) = WorkOf(s) /\ t.stopped = s.stopped
    BY <1>3, <1>5, CheckpointedStack DEF Saves
  <2>2. History!Push
    BY <1>1, <1>3, <1>5, <2>1 DEF History!Push
  <2> QED
    BY <2>2 DEF History!Next
<1>6. CASE s # NoSession /\ ~ s.stopped /\ GoesBack(s, t)
  <2>1. PICK n \in DOMAIN s.snapshots : t = RolledBack(s, n)
    BY <1>6 DEF GoesBack
  <2>2. /\ n + 1 \in 1..Len(Saved(s)) /\ Saved(t) = SubSeq(Saved(s), 1, n + 1)
        /\ WorkOf(t) = Saved(s)[n + 1] /\ t.stopped = s.stopped
    BY <1>3, <1>6, <2>1, RolledBackStack
  <2>3. History!PopTo(n + 1)
    BY <1>1, <1>3, <1>6, <2>2 DEF History!PopTo
  <2> QED
    BY <1>3, <1>6, <2>2, <2>3 DEF History!Next
<1> QED
  BY <1>2, <1>4, <1>5, <1>6 DEF Moves

(* Every session is a stack of checkpoints: for every id, checkpoint() pushes   *)
(* the files and the log, rollback() brings back exactly what its level saved,  *)
(* and nothing else reaches a saved level.                                      *)
THEOREM SessionIsAStack == Spec => CheckpointsAreAStack
<1>1. Init => History!Init
  <2>1. Init => HistorySid \notin Live
    BY DEF Init, Live
  <2> QED
    BY <2>1 DEF History!Init
<1>2. BuilderInv /\ [Next]_sessions => [History!Next]_(History!vars)
  <2> SUFFICES ASSUME BuilderInv, [Next]_sessions
               PROVE  History!Next \/ UNCHANGED History!vars
    OBVIOUS
  <2>1. ASSUME UNCHANGED sessions \/ HistorySid \notin Sids
                 \/ sessions'[HistorySid] = sessions[HistorySid]
        PROVE  UNCHANGED History!vars
    <3>1. (HistorySid \in Live)' = (HistorySid \in Live)
      BY <2>1 DEF Live
    <3>2. HistorySid \in Live => sessions'[HistorySid] = sessions[HistorySid]
      BY <2>1 DEF Live
    <3> QED
      BY <3>1, <3>2 DEF History!vars
  <2>2. ASSUME NEW scope, Valid(scope), NEW t, Update(scope, t),
               Moves(SessionOf(scope), t, scope), HistorySid \in Sids
        PROVE  History!Next \/ UNCHANGED History!vars
    <3>1. scope \in Scope /\ scope.builder_session_id \in Sids /\ DOMAIN sessions = Sids
      BY <2>2 DEF Valid, Scope, BuilderInv
    <3>2. CASE scope.builder_session_id = HistorySid
      <4>1. sessions'[HistorySid] = t
        BY <2>2, <3>1, <3>2 DEF Update
      <4>2. sessions[HistorySid] = NoSession \/ SessionInv(sessions[HistorySid], HistorySid)
        BY <2>2 DEF BuilderInv
      <4>3. Moves(sessions[HistorySid], t, scope)
        BY <2>2, <3>2 DEF SessionOf
      <4> QED
        BY <2>2, <3>1, <3>2, <4>1, <4>2, <4>3, MovesAreStackSteps
    <3>3. CASE scope.builder_session_id # HistorySid
      BY <2>1, <2>2, <3>1, <3>3 DEF Update
    <3> QED
      BY <3>2, <3>3
  <2>3. CASE UNCHANGED sessions
    BY <2>1, <2>3
  <2>4. ASSUME NEW scope, Call(scope)
        PROVE  History!Next \/ UNCHANGED History!vars
    BY <2>1, <2>2, <2>4, CallsMove
  <2> QED
    BY <2>3, <2>4 DEF Next
<1> QED
  BY <1>1, <1>2, BuilderInvAlways, PTL DEF Spec, CheckpointsAreAStack, History!Spec

=============================================================================
