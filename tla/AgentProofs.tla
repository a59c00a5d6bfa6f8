----------------------------- MODULE AgentProofs -----------------------------
(***************************************************************************)
(* No race of commands over the agents' files loses an agent or an edit     *)
(* (Agents), and no race of agent processes over the prompt cache makes a    *)
(* body pass for another version (AgentProcess), but for the overlaps their  *)
(* properties except.                                                        *)
(*                                                                         *)
(* AgentKept is not inductive: the end of a rename takes a file away.  What  *)
(* holds is a count: an agent has more files than there are renames under   *)
(* way that will take one of them (CopiesOutlast).  AnswerCurrent rests on   *)
(* the pairs of a body and an etag, in the cache and in each process, being  *)
(* one version unless one is torn.                                          *)
(***************************************************************************)
EXTENDS Agents, AgentProcess, FiniteSetTheorems, TLAPS

-----------------------------------------------------------------------------
(* The definition files.                                                      *)

\* Whose a definition is, is an agent that was defined; its file has its name.
FilesNamed ==
  \A n \in Names : files[n] # NoDoc => files[n].who \in 1..born /\ files[n].name = n

\* What a session has in hand is the definition of the agent it is about.
SeenNamed ==
  \A s \in Sessions :
    /\ seen[s] # NoDoc =>
         seen[s].who \in 1..born /\ (at[s] # "prune" => seen[s].name = name[s])
    /\ at[s] = "write" => seen[s] # NoDoc
    /\ at[s] \in {"unlink", "rollback"} /\ op[s] = "rename" => seen[s] # NoDoc
    /\ at[s] = "rollback" => op[s] = "rename"
    /\ at[s] = "prune" => seen[s].sound /\ seen[s].text = 0

\* Sessions that may still define an agent.
Defining == {s \in Sessions : at[s] \in {"exists", "make"}}

\* Each agent but the starter has cost a command.
BornPaid == born + left + Cardinality(Defining) <= MaxBorn

\* The files an agent has; the renames that will take one of them away.
Copies(w) == {n \in Names : files[n].who = w}
Renaming(w) ==
  {s \in Sessions : op[s] = "rename" /\ at[s] \in {"unlink", "rollback"} /\ seen[s].who = w}

\* Each rename under way has given the agent a file more.
CopiesOutlast ==
  \A w \in 1..born : raced \/ w \in removed \/ Cardinality(Renaming(w)) < Cardinality(Copies(w))

AgentsInv == TypeOK /\ FilesNamed /\ SeenNamed /\ BornPaid /\ CopiesOutlast

-----------------------------------------------------------------------------
(* Counting.                                                                   *)

LEMMA MoreCopies ==
  ASSUME NEW R, NEW R2, NEW C, NEW C2, IsFiniteSet(R), IsFiniteSet(C2),
         Cardinality(R) < Cardinality(C), R2 \subseteq R, C \subseteq C2
  PROVE  Cardinality(R2) < Cardinality(C2)
<1>1. IsFiniteSet(R2) /\ Cardinality(R2) <= Cardinality(R)
  BY FS_Subset
<1>2. IsFiniteSet(C) /\ Cardinality(C) <= Cardinality(C2)
  BY FS_Subset
<1> QED BY <1>1, <1>2, FS_CardinalityType

\* A set with one element more, or one less.
LEMMA OneMore ==
  ASSUME NEW S, NEW x, IsFiniteSet(S)
  PROVE  /\ IsFiniteSet(S \union {x})
         /\ Cardinality(S \union {x}) \in Nat
         /\ Cardinality(S \union {x}) <= Cardinality(S) + 1
<1> DEFINE T == S \union {x}
<1>1. IsFiniteSet(T) /\ Cardinality(T) = IF x \in S THEN Cardinality(S) ELSE Cardinality(S) + 1
  BY FS_AddElement
<1>2. Cardinality(S) \in Nat
  BY FS_CardinalityType
<1> HIDE DEF T
<1>3. Cardinality(T) \in Nat /\ Cardinality(T) <= Cardinality(S) + 1
  BY <1>1, <1>2
<1> QED BY <1>1, <1>3 DEF T

LEMMA OneLess ==
  ASSUME NEW S, NEW x, IsFiniteSet(S)
  PROVE  /\ IsFiniteSet(S \ {x})
         /\ Cardinality(S \ {x}) \in Nat
         /\ Cardinality(S \ {x}) >= Cardinality(S) - 1
         /\ x \in S => Cardinality(S \ {x}) = Cardinality(S) - 1
<1> DEFINE T == S \ {x}
<1>1. IsFiniteSet(T) /\ Cardinality(T) = IF x \in S THEN Cardinality(S) - 1 ELSE Cardinality(S)
  BY FS_RemoveElement
<1>2. Cardinality(S) \in Nat /\ Cardinality(T) \in Nat
  BY <1>1, FS_CardinalityType
<1> HIDE DEF T
<1>3. /\ Cardinality(T) >= Cardinality(S) - 1
      /\ x \in S => Cardinality(T) = Cardinality(S) - 1
  BY <1>1, <1>2
<1> QED BY <1>1, <1>2, <1>3 DEF T

LEMMA OneMoreEach ==
  ASSUME NEW R, NEW R2, NEW C, NEW C2, NEW s, NEW n, IsFiniteSet(R), IsFiniteSet(C2),
         Cardinality(R) < Cardinality(C), R2 \subseteq R \union {s}, C \union {n} \subseteq C2,
         n \notin C
  PROVE  Cardinality(R2) < Cardinality(C2)
<1>1. IsFiniteSet(C)
  BY FS_Subset
<1>2. IsFiniteSet(C \union {n}) /\ Cardinality(C \union {n}) = Cardinality(C) + 1
  BY <1>1, FS_AddElement
<1>3. IsFiniteSet(R \union {s}) /\ Cardinality(R \union {s}) <= Cardinality(R) + 1
  BY OneMore
<1>4. Cardinality(R \union {s}) < Cardinality(C \union {n})
  BY <1>1, <1>2, <1>3, FS_CardinalityType
<1> QED BY <1>3, <1>4, MoreCopies

LEMMA OneLessEach ==
  ASSUME NEW R, NEW R2, NEW C, NEW C2, NEW s \in R, NEW n, IsFiniteSet(R), IsFiniteSet(C),
         IsFiniteSet(C2),
         Cardinality(R) < Cardinality(C), R2 \subseteq R \ {s}, C \ {n} \subseteq C2
  PROVE  Cardinality(R2) < Cardinality(C2)
<1>1. IsFiniteSet(R \ {s}) /\ Cardinality(R \ {s}) = Cardinality(R) - 1
  BY OneLess
<1>2. IsFiniteSet(C \ {n}) /\ Cardinality(C \ {n}) >= Cardinality(C) - 1
  BY OneLess
<1>3. Cardinality(R \ {s}) < Cardinality(C \ {n})
  BY <1>1, <1>2, FS_CardinalityType
<1> QED BY <1>1, <1>3, MoreCopies

\* There are finitely many of all of them.
LEMMA Finite ==
  ASSUME AgentsAssumption
  PROVE  /\ IsFiniteSet(Defining) /\ IsFiniteSet(Defining')
         /\ Cardinality(Defining) \in Nat /\ Cardinality(Defining') \in Nat
         /\ \A w : /\ IsFiniteSet(Copies(w)) /\ IsFiniteSet(Copies(w)')
                   /\ IsFiniteSet(Renaming(w)) /\ IsFiniteSet(Renaming(w)')
                   /\ Cardinality(Renaming(w)) \in Nat /\ Cardinality(Copies(w)) \in Nat
<1>1. IsFiniteSet(Defining) /\ IsFiniteSet(Defining')
  <2>1. Defining \subseteq Sessions /\ Defining' \subseteq Sessions
    BY DEF Defining
  <2> QED BY <2>1, FS_Subset DEF AgentsAssumption
<1>2. ASSUME NEW w
      PROVE  /\ IsFiniteSet(Copies(w)) /\ IsFiniteSet(Copies(w)')
             /\ IsFiniteSet(Renaming(w)) /\ IsFiniteSet(Renaming(w)')
  <2>1. Copies(w) \subseteq Names /\ Copies(w)' \subseteq Names
    BY DEF Copies
  <2>2. Renaming(w) \subseteq Sessions /\ Renaming(w)' \subseteq Sessions
    BY DEF Renaming
  <2> QED BY <2>1, <2>2, FS_Subset DEF AgentsAssumption
<1> QED BY <1>1, <1>2, FS_CardinalityType

\* No command defines an agent without having paid for it.
LEMMA NobodyDefines ==
  ASSUME AgentsAssumption, TypeOK, BornPaid, born' = born, left' \in Nat, left' <= left,
         Defining' \subseteq Defining
  PROVE  BornPaid'
<1>1. Cardinality(Defining') <= Cardinality(Defining)
  BY Finite, FS_Subset
<1> QED BY <1>1, Finite DEF BornPaid, TypeOK, MaxBorn, AgentsAssumption

\* No file goes, unless with its agent, and no rename begins.
LEMMA NobodyRenames ==
  ASSUME AgentsAssumption, TypeOK, CopiesOutlast, born' = born, raced => raced',
         removed \subseteq removed',
         \A w \in 1..born : /\ raced' \/ w \in removed' \/ Copies(w) \subseteq Copies(w)'
                            /\ Renaming(w)' \subseteq Renaming(w)
  PROVE  CopiesOutlast'
<1> SUFFICES ASSUME NEW w \in 1..born, ~raced', w \notin removed'
             PROVE  Cardinality(Renaming(w)') < Cardinality(Copies(w)')
  BY DEF CopiesOutlast
<1>1. Cardinality(Renaming(w)) < Cardinality(Copies(w))
  BY DEF CopiesOutlast
<1> QED BY <1>1, Finite, MoreCopies

LEMMA CopiesStay ==
  ASSUME NEW w, \A n \in Names : files[n].who = w => files'[n].who = w
  PROVE  Copies(w) \subseteq Copies(w)'
BY DEF Copies

-----------------------------------------------------------------------------
(* Definitions.                                                                *)

\* No definition, and a new one.
LEMMA NoDocFacts ==
  NoDoc.who = 0 /\ NoDoc \notin Docs
BY DEF NoDoc, Docs

LEMMA FreshFacts ==
  ASSUME NEW w \in 1..MaxBorn, NEW n \in Names
  PROVE  Fresh(w, n) \in Docs /\ Fresh(w, n).who = w /\ Fresh(w, n).name = n
BY DEF Fresh, Docs

LEMMA DocFacts ==
  ASSUME NEW doc \in Docs
  PROVE  doc.who \in 1..MaxBorn /\ doc.name \in Names /\ doc # NoDoc /\ doc.who # 0
BY DEF Docs, NoDoc, MaxBorn

\* A part is set: whose the definition is, its name and the other parts stay.
WithPart(doc, part, v) == [doc EXCEPT ![part] = v]

LEMMA PartFacts ==
  ASSUME NEW doc \in Docs, NEW part \in Edits, NEW v \in 0..1
  PROVE  /\ WithPart(doc, part, v) \in Docs
         /\ WithPart(doc, part, v).who = doc.who /\ WithPart(doc, part, v).name = doc.name
         /\ \A e \in Edits \ {part} : WithPart(doc, part, v)[e] = doc[e]
<1>1. CASE part = "text"
  BY <1>1 DEF WithPart, Docs, Edits
<1>2. CASE part = "grants"
  BY <1>2 DEF WithPart, Docs, Edits
<1>3. CASE part = "body"
  BY <1>3 DEF WithPart, Docs, Edits
<1> QED BY <1>1, <1>2, <1>3 DEF Edits

LEMMA SoundFacts ==
  ASSUME NEW doc \in Docs
  PROVE  LET new == [doc EXCEPT !.sound = ~@]
         IN  /\ new \in Docs /\ new.who = doc.who /\ new.name = doc.name
             /\ \A e \in Edits : new[e] = doc[e]
BY DEF Docs, Edits

LEMMA RenamedFacts ==
  ASSUME NEW doc \in Docs, NEW m \in Names
  PROVE  /\ Rewritten(doc, m) \in Docs
         /\ Rewritten(doc, m).who = doc.who /\ Rewritten(doc, m).name = m
BY DEF Docs, Rewritten

-----------------------------------------------------------------------------
(* The steps of a session.                                                     *)

LEMMA AgentsInitial ==
  ASSUME AgentsAssumption, Init
  PROVE  AgentsInv
<1> USE DEF AgentsAssumption, Init
<1>1. TypeOK
  <2>1. files \in [Names -> Docs \union {NoDoc}]
    BY DEF Docs, Fresh, NoDoc, MaxBorn
  <2>2. /\ op \in [Sessions -> Ops] /\ at \in [Sessions -> Steps]
        /\ name \in [Sessions -> Names] /\ to \in [Sessions -> Names]
        /\ edit \in [Sessions -> Edits]
    BY DEF Ops, Steps, Edits
  <2>3. seen \in [Sessions -> Docs \union {NoDoc}]
    OBVIOUS
  <2>4. left \in 0..MaxCommands
    OBVIOUS
  <2>6. removed \subseteq 1..MaxBorn /\ raced \in BOOLEAN
    OBVIOUS
  <2>5. born \in 1..MaxBorn
    BY DEF MaxBorn
  <2> QED BY <2>1, <2>2, <2>3, <2>4, <2>5, <2>6 DEF TypeOK
<1>2. FilesNamed
  BY DEF FilesNamed, Fresh
<1>3. SeenNamed
  BY DEF SeenNamed
<1>4. BornPaid
  <2>1. Defining = {}
    BY DEF Defining
  <2> QED BY <2>1, FS_EmptySet DEF BornPaid, MaxBorn
<1>5. CopiesOutlast
  <2> SUFFICES ASSUME NEW w \in 1..1 PROVE Cardinality(Renaming(w)) < Cardinality(Copies(w))
    BY DEF CopiesOutlast
  <2>1. Renaming(w) = {}
    BY DEF Renaming
  <2>2. Copies(w) = {Seed}
    BY DEF Copies, Fresh, NoDoc
  <2> QED BY <2>1, <2>2, FS_EmptySet, FS_Singleton
<1> QED BY <1>1, <1>2, <1>3, <1>4, <1>5 DEF AgentsInv

\* A session starts a command.
LEMMA OpensKeeps ==
  ASSUME AgentsAssumption, AgentsInv, NEW s \in Sessions, NEW o \in Ops, NEW n \in Names,
         NEW m \in Names, NEW e \in Edits, NEW step \in Steps,
         Opens(s, o, n, m, e, step),
         \/ step = "exists"
         \/ step = "load"
         \/ step = "unlink" /\ o # "rename"
  PROVE  AgentsInv'
<1> USE DEF AgentsAssumption, AgentsInv, Opens, history, session
<1>1. TypeOK'
  BY DEF TypeOK, Docs, NoDoc, Ops, Steps, Edits, MaxBorn
<1>2. FilesNamed'
  BY DEF FilesNamed, SeenNamed, TypeOK, Docs
<1>3. SeenNamed'
  BY DEF SeenNamed, FilesNamed, TypeOK, Docs, NoDoc
<1>4. BornPaid'
  <2>1. IsFiniteSet(Defining \union {s})
        /\ Cardinality(Defining \union {s}) <= Cardinality(Defining) + 1
    BY Finite, OneMore
  <2>2. Defining' \subseteq Defining \union {s}
    BY DEF Defining, TypeOK
  <2>3. Cardinality(Defining') <= Cardinality(Defining) + 1
    BY <2>1, <2>2, Finite, FS_Subset, FS_CardinalityType
  <2> QED BY <2>3, Finite DEF BornPaid, TypeOK, MaxBorn
<1>5. CopiesOutlast'
  <2>1. ASSUME NEW w \in 1..born
        PROVE  Renaming(w)' \subseteq Renaming(w) /\ Copies(w)' = Copies(w)
    BY DEF Renaming, Copies, TypeOK, NoDoc
  <2> QED BY <2>1, NobodyRenames
<1> QED BY <1>1, <1>2, <1>3, <1>4, <1>5

\* A session goes on, and has touched nothing.
LEMMA GoesKeeps ==
  ASSUME AgentsAssumption, AgentsInv, NEW s \in Sessions, NEW step \in Steps, Goto(s, step),
         UNCHANGED <<files, history>>,
         \/ step \in {"make", "load"} /\ at[s] \in {"exists", "make"}
         \/ step = "rollback" /\ at[s] = "unlink" /\ op[s] = "rename"
  PROVE  AgentsInv'
<1> USE DEF AgentsAssumption, AgentsInv, Goto, history, session
<1>1. TypeOK'
  BY DEF TypeOK, Docs, NoDoc, Ops, Steps, Edits, MaxBorn
<1>2. FilesNamed'
  BY DEF FilesNamed, SeenNamed, TypeOK, Docs
<1>3. SeenNamed'
  BY DEF SeenNamed, FilesNamed, TypeOK, Docs, NoDoc
<1>4. BornPaid'
  <2>1. Defining' \subseteq Defining
    BY DEF Defining, TypeOK
  <2> QED BY <2>1, NobodyDefines DEF TypeOK
<1>5. CopiesOutlast'
  <2>1. ASSUME NEW w \in 1..born
        PROVE  Renaming(w)' \subseteq Renaming(w) /\ Copies(w)' = Copies(w)
    BY DEF Renaming, Copies, TypeOK, NoDoc
  <2> QED BY <2>1, NobodyRenames
<1> QED BY <1>1, <1>2, <1>3, <1>4, <1>5

\* A command ends, and has touched nothing.
LEMMA EndsKeeps ==
  ASSUME AgentsAssumption, AgentsInv, NEW s \in Sessions, Ends(s), UNCHANGED <<files, history>>
  PROVE  AgentsInv'
<1> USE DEF AgentsAssumption, AgentsInv, Ends, history, session
<1>1. TypeOK'
  BY DEF TypeOK, Docs, NoDoc, Ops, Steps, Edits, MaxBorn
<1>2. FilesNamed'
  BY DEF FilesNamed, SeenNamed, TypeOK, Docs
<1>3. SeenNamed'
  BY DEF SeenNamed, FilesNamed, TypeOK, Docs, NoDoc
<1>4. BornPaid'
  <2>1. Defining' \subseteq Defining
    BY DEF Defining, TypeOK
  <2> QED BY <2>1, NobodyDefines DEF TypeOK
<1>5. CopiesOutlast'
  <2>1. ASSUME NEW w \in 1..born
        PROVE  Renaming(w)' \subseteq Renaming(w) /\ Copies(w)' = Copies(w)
    BY DEF Renaming, Copies, TypeOK, NoDoc
  <2> QED BY <2>1, NobodyRenames
<1> QED BY <1>1, <1>2, <1>3, <1>4, <1>5

LEMMA MakeKeeps ==
  ASSUME AgentsAssumption, AgentsInv, NEW s \in Sessions, Make(s)
  PROVE  AgentsInv'
<1> USE DEF AgentsAssumption, AgentsInv, Make, Exists, history, session, Races, Goto, Ends
<1>0. born + 1 \in 1..MaxBorn
  <2>1. s \in Defining
    BY DEF Defining, TypeOK
  <2>2. Cardinality(Defining) # 0
    BY <2>1, Finite, FS_EmptySet
  <2> QED BY <2>2, Finite DEF BornPaid, TypeOK, MaxBorn
<1>a. /\ Fresh(born + 1, name[s]) \in Docs /\ Fresh(born + 1, name[s]).who = born + 1
      /\ Fresh(born + 1, name[s]).name = name[s]
  BY <1>0, FreshFacts DEF TypeOK
<1>1. TypeOK'
  BY <1>0, <1>a, NoDocFacts, DocFacts DEF TypeOK, Ops, Steps, Edits, MaxBorn
<1>2. FilesNamed'
  BY <1>0, <1>a, NoDocFacts, DocFacts DEF FilesNamed, SeenNamed, TypeOK
<1>3. SeenNamed'
  BY <1>0, <1>a, NoDocFacts, DocFacts DEF SeenNamed, FilesNamed, TypeOK
<1>4. BornPaid'
  <2>1. s \in Defining /\ Defining' \subseteq Defining \ {s}
    BY DEF Defining, TypeOK
  <2>2. IsFiniteSet(Defining \ {s}) /\ Cardinality(Defining \ {s}) = Cardinality(Defining) - 1
    BY <2>1, Finite, OneLess
  <2>3. Cardinality(Defining') <= Cardinality(Defining) - 1
    BY <2>1, <2>2, FS_Subset
  <2> QED BY <2>3, Finite DEF BornPaid, TypeOK, MaxBorn
<1>5. CopiesOutlast'
  <2> SUFFICES ASSUME NEW w \in 1..(born + 1), ~raced', w \notin removed'
               PROVE  Cardinality(Renaming(w)') < Cardinality(Copies(w)')
    BY DEF CopiesOutlast
  <2>1. Renaming(w)' \subseteq Renaming(w)
    BY NoDocFacts DEF Renaming, TypeOK
  <2>2. CASE w \in 1..born
    <3>1. Cardinality(Renaming(w)) < Cardinality(Copies(w))
      BY <2>2 DEF CopiesOutlast
    <3>2. Copies(w) \subseteq Copies(w)'
      <4>1. ASSUME NEW n \in Names, files[n].who = w
            PROVE  files'[n].who = w
        <5>0. files[name[s]] = NoDoc
          BY DEF TypeOK
        <5>1. n # name[s]
          BY <2>2, <4>1, <5>0, NoDocFacts
        <5> QED BY <4>1, <5>1 DEF TypeOK
      <4> QED BY <4>1, CopiesStay
    <3> QED BY <2>1, <3>1, <3>2, Finite, MoreCopies
  <2>3. CASE w = born + 1
    <3>1. Renaming(w) = {}
      BY <2>3, NoDocFacts DEF Renaming, SeenNamed, TypeOK
    <3>2. name[s] \in Copies(w)'
      BY <1>a, <2>3 DEF Copies, TypeOK
    <3>3. Cardinality(Copies(w)') # 0 /\ Cardinality(Copies(w)') \in Nat
      BY <3>2, Finite, FS_EmptySet, FS_CardinalityType
    <3>4. Renaming(w)' = {}
      BY <2>1, <3>1
    <3> QED BY <3>3, <3>4, FS_EmptySet
  <2> QED BY <2>2, <2>3 DEF TypeOK
<1> QED BY <1>1, <1>2, <1>3, <1>4, <1>5

LEMMA CheckSeedKeeps ==
  ASSUME AgentsAssumption, AgentsInv, NEW s \in Sessions, CheckSeed(s), Prunes
  PROVE  AgentsInv'
<1> USE DEF AgentsAssumption, AgentsInv, CheckSeed, Prunes, IsPristineSeed, Parses, Exists,
            history, session, Races, Goto, Ends
<1>1. TypeOK'
  BY NoDocFacts, DocFacts DEF TypeOK, Ops, Steps, Edits, MaxBorn
<1>2. FilesNamed'
  BY NoDocFacts, DocFacts DEF FilesNamed, SeenNamed, TypeOK
<1>3. SeenNamed'
  BY NoDocFacts, DocFacts DEF SeenNamed, FilesNamed, TypeOK
<1>4. BornPaid'
  <2>1. Defining' \subseteq Defining
    BY DEF Defining, TypeOK
  <2> QED BY <2>1, NobodyDefines DEF TypeOK
<1>5. CopiesOutlast'
  <2>1. ASSUME NEW w \in 1..born
        PROVE  Renaming(w)' \subseteq Renaming(w) /\ Copies(w)' = Copies(w)
    BY NoDocFacts DEF Renaming, Copies, TypeOK
  <2> QED BY <2>1, NobodyRenames
<1> QED BY <1>1, <1>2, <1>3, <1>4, <1>5

LEMMA PruneKeeps ==
  ASSUME AgentsAssumption, AgentsInv, NEW s \in Sessions, Prune(s)
  PROVE  AgentsInv'
<1> USE DEF AgentsAssumption, AgentsInv, Prune, IsPristineSeed, Parses, Exists, history, session,
            Races, Goto, Ends
<1>1. TypeOK'
  BY NoDocFacts, DocFacts DEF TypeOK, Ops, Steps, Edits, MaxBorn
<1>2. FilesNamed'
  BY NoDocFacts, DocFacts DEF FilesNamed, SeenNamed, TypeOK
<1>3. SeenNamed'
  BY NoDocFacts, DocFacts DEF SeenNamed, FilesNamed, TypeOK
<1>4. BornPaid'
  <2>1. Defining' \subseteq Defining
    BY DEF Defining, TypeOK
  <2> QED BY <2>1, NobodyDefines DEF TypeOK
<1>5. CopiesOutlast'
  <2>1. ASSUME NEW w \in 1..born, ~raced', w \notin removed'
        PROVE  Copies(w) \subseteq Copies(w)'
    <3>1. ASSUME NEW n \in Names, files[n].who = w
          PROVE  files'[n].who = w
      <4>1. CASE n = Seed
        BY <2>1, <3>1, <4>1 DEF TypeOK, SeenNamed, NoDoc
      <4>2. CASE n # Seed
        BY <3>1, <4>2 DEF TypeOK
      <4> QED BY <4>1, <4>2
    <3> QED BY <3>1, CopiesStay
  <2>2. ASSUME NEW w \in 1..born
        PROVE  Renaming(w)' \subseteq Renaming(w)
    BY NoDocFacts DEF Renaming, TypeOK
  <2> QED BY <2>1, <2>2, NobodyRenames
<1> QED BY <1>1, <1>2, <1>3, <1>4, <1>5

LEMMA LoadKeeps ==
  ASSUME AgentsAssumption, AgentsInv, NEW s \in Sessions, Load(s), Parses(name[s])
  PROVE  AgentsInv'
<1> USE DEF AgentsAssumption, AgentsInv, Load, Loads, Parses, Exists, history, session, Races,
            Goto, Ends
<1>1. TypeOK'
  BY NoDocFacts, DocFacts DEF TypeOK, Ops, Steps, Edits, MaxBorn
<1>2. FilesNamed'
  BY NoDocFacts, DocFacts DEF FilesNamed, SeenNamed, TypeOK
<1>3. SeenNamed'
  BY NoDocFacts, DocFacts DEF SeenNamed, FilesNamed, TypeOK
<1>4. BornPaid'
  <2>1. Defining' \subseteq Defining
    BY DEF Defining, TypeOK
  <2> QED BY <2>1, NobodyDefines DEF TypeOK
<1>5. CopiesOutlast'
  <2>1. ASSUME NEW w \in 1..born
        PROVE  Renaming(w)' \subseteq Renaming(w) /\ Copies(w)' = Copies(w)
    BY NoDocFacts DEF Renaming, Copies, TypeOK
  <2> QED BY <2>1, NobodyRenames
<1> QED BY <1>1, <1>2, <1>3, <1>4, <1>5

LEMMA RewritesKeeps ==
  ASSUME AgentsAssumption, AgentsInv, NEW s \in Sessions, NEW part \in Edits, Rewrites(s, part),
         \/ Ends(s)
         \/ /\ op[s] \in {"create", "init"}
            /\ at' = [at EXCEPT ![s] = "load"]
            /\ edit' = [edit EXCEPT ![s] = "grants"]
            /\ UNCHANGED <<op, name, to, seen, left>>
  PROVE  AgentsInv'
<1> USE DEF AgentsAssumption, AgentsInv, Rewrites, history, session, Races, Goto, Ends
<1>a. seen[s] \in Docs
  BY DEF SeenNamed, TypeOK
<1>b. PICK new \in Docs : /\ files' = [files EXCEPT ![name[s]] = new]
                         /\ new.who = seen[s].who /\ new.name = seen[s].name
  <2>1. PICK v \in 0..1 : files' = [files EXCEPT ![name[s]] = WithPart(seen[s], part, v)]
    BY DEF WithPart
  <2>2. /\ WithPart(seen[s], part, v) \in Docs
        /\ WithPart(seen[s], part, v).who = seen[s].who
        /\ WithPart(seen[s], part, v).name = seen[s].name
    BY <1>a, PartFacts
  <2> QED BY <2>1, <2>2, Zenon
<1>c. /\ raced' = (raced \/ files[name[s]] # seen[s]) /\ UNCHANGED <<born, removed, left>>
      /\ at[s] = "write" /\ op[s] # "rename"
  OBVIOUS
<1>1. TypeOK'
  BY <1>a, <1>b, <1>c, NoDocFacts, DocFacts DEF TypeOK, Ops, Steps, Edits, MaxBorn
<1>2. FilesNamed'
  BY <1>a, <1>b, <1>c, NoDocFacts, DocFacts DEF FilesNamed, SeenNamed, TypeOK
<1>3. SeenNamed'
  BY <1>a, <1>b, <1>c, NoDocFacts, DocFacts DEF SeenNamed, FilesNamed, TypeOK
<1>4. BornPaid'
  <2>1. Defining' \subseteq Defining
    BY DEF Defining, TypeOK
  <2> QED BY <2>1, NobodyDefines DEF TypeOK
<1>5. CopiesOutlast'
  <2>1. ASSUME NEW w \in 1..born, ~raced', w \notin removed'
        PROVE  Copies(w) \subseteq Copies(w)'
    <3>1. ASSUME NEW n \in Names, files[n].who = w
          PROVE  files'[n].who = w
      BY <2>1, <3>1, <1>a, <1>b, <1>c, NoDocFacts DEF TypeOK
    <3> QED BY <3>1, CopiesStay
  <2>2. ASSUME NEW w \in 1..born
        PROVE  Renaming(w)' \subseteq Renaming(w)
    BY NoDocFacts DEF Renaming, TypeOK
  <2> QED BY <2>1, <2>2, NobodyRenames
<1> QED BY <1>1, <1>2, <1>3, <1>4, <1>5

LEMMA WriteRenamedKeeps ==
  ASSUME AgentsAssumption, AgentsInv, NEW s \in Sessions, WriteRenamed(s)
  PROVE  AgentsInv'
<1> USE DEF AgentsAssumption, AgentsInv, WriteRenamed, history, session, Races, Goto, Ends
<1>a. seen[s] \in Docs
  BY DEF SeenNamed, TypeOK
<1>b. /\ Rewritten(seen[s], to[s]) \in Docs
      /\ Rewritten(seen[s], to[s]).who = seen[s].who
      /\ Rewritten(seen[s], to[s]).name = to[s]
  BY <1>a, RenamedFacts DEF TypeOK
<1>1. TypeOK'
  BY <1>a, <1>b, NoDocFacts, DocFacts DEF TypeOK, Ops, Steps, Edits, MaxBorn
<1>2. FilesNamed'
  BY <1>a, <1>b, NoDocFacts, DocFacts DEF FilesNamed, SeenNamed, TypeOK
<1>3. SeenNamed'
  BY <1>a, <1>b, NoDocFacts, DocFacts DEF SeenNamed, FilesNamed, TypeOK
<1>4. BornPaid'
  <2>1. Defining' \subseteq Defining
    BY DEF Defining, TypeOK
  <2> QED BY <2>1, NobodyDefines DEF TypeOK
<1>5. CopiesOutlast'
  <2> SUFFICES ASSUME NEW w \in 1..born, ~raced', w \notin removed'
               PROVE  Cardinality(Renaming(w)') < Cardinality(Copies(w)')
    BY DEF CopiesOutlast
  <2>1. Cardinality(Renaming(w)) < Cardinality(Copies(w))
    BY DEF CopiesOutlast
  <2>2. CASE seen[s].who = w
    <3>1. Renaming(w)' \subseteq Renaming(w) \union {s}
      BY DEF Renaming, TypeOK
    <3>2. files[to[s]] = NoDoc /\ to[s] \in Names /\ files'[to[s]].who = w
      BY <1>b, <2>2 DEF TypeOK
    <3>3. ASSUME NEW n \in Names, files[n].who = w
          PROVE  n # to[s] /\ files'[n].who = w
      BY <2>2, <3>2, <3>3, NoDocFacts DEF TypeOK
    <3>4. Copies(w) \union {to[s]} \subseteq Copies(w)' /\ to[s] \notin Copies(w)
      BY <3>2, <3>3, NoDocFacts DEF Copies
    <3>5. IsFiniteSet(Renaming(w)) /\ IsFiniteSet(Copies(w)')
      BY Finite
    <3> QED BY <2>1, <3>1, <3>4, <3>5, OneMoreEach
  <2>3. CASE seen[s].who # w
    <3>1. Renaming(w)' \subseteq Renaming(w)
      BY <2>3 DEF Renaming, TypeOK
    <3>2. Copies(w) \subseteq Copies(w)'
      <4>1. ASSUME NEW n \in Names, files[n].who = w
            PROVE  files'[n].who = w
        <5>0. files[to[s]] = NoDoc
          BY DEF TypeOK
        <5>1. n # to[s]
          BY <4>1, <5>0, NoDocFacts
        <5> QED BY <4>1, <5>1 DEF TypeOK
      <4> QED BY <4>1, CopiesStay
    <3> QED BY <2>1, <3>1, <3>2, Finite, MoreCopies
  <2> QED BY <2>2, <2>3
<1> QED BY <1>1, <1>2, <1>3, <1>4, <1>5

\* The old file of a rename goes.
LEMMA UnlinkRenamedKeeps ==
  ASSUME AgentsAssumption, AgentsInv, NEW s \in Sessions, at[s] = "unlink", op[s] = "rename",
         Exists(name[s]),
         files' = [files EXCEPT ![name[s]] = NoDoc], Races(name[s], seen[s]), Ends(s),
         UNCHANGED <<born, removed>>
  PROVE  AgentsInv'
<1> USE DEF AgentsAssumption, AgentsInv, history, session, Races, Goto, Ends
<1>1. TypeOK'
  BY NoDocFacts, DocFacts DEF TypeOK, Ops, Steps, Edits, MaxBorn
<1>2. FilesNamed'
  BY NoDocFacts, DocFacts DEF FilesNamed, SeenNamed, TypeOK
<1>3. SeenNamed'
  BY NoDocFacts, DocFacts DEF SeenNamed, FilesNamed, TypeOK
<1>4. BornPaid'
  <2>1. Defining' \subseteq Defining
    BY DEF Defining, TypeOK
  <2> QED BY <2>1, NobodyDefines DEF TypeOK
<1>5. CopiesOutlast'
  <2> SUFFICES ASSUME NEW w \in 1..born, ~raced', w \notin removed'
               PROVE  Cardinality(Renaming(w)') < Cardinality(Copies(w)')
    BY DEF CopiesOutlast
  <2>1. Cardinality(Renaming(w)) < Cardinality(Copies(w))
    BY DEF CopiesOutlast
  <2>2. Renaming(w)' \subseteq Renaming(w)
    BY NoDocFacts DEF Renaming, TypeOK
  <2>3. CASE seen[s].who = w
    <3>1. s \in Renaming(w) /\ Renaming(w)' \subseteq Renaming(w) \ {s}
      BY <2>3, NoDocFacts DEF Renaming, TypeOK, SeenNamed
    <3>2. Copies(w) \ {name[s]} \subseteq Copies(w)'
      BY DEF Copies, TypeOK
    <3>3. IsFiniteSet(Renaming(w)) /\ IsFiniteSet(Copies(w)) /\ IsFiniteSet(Copies(w)')
      BY Finite
    <3> QED BY <2>1, <3>1, <3>2, <3>3, OneLessEach
  <2>4. CASE seen[s].who # w
    <3>1. Copies(w) \subseteq Copies(w)'
      BY <2>4, NoDocFacts DEF Copies, TypeOK
    <3> QED BY <2>1, <2>2, <3>1, Finite, MoreCopies
  <2> QED BY <2>3, <2>4
<1> QED BY <1>1, <1>2, <1>3, <1>4, <1>5

LEMMA RollBackKeeps ==
  ASSUME AgentsAssumption, AgentsInv, NEW s \in Sessions, RollBack(s)
  PROVE  AgentsInv'
<1> USE DEF AgentsAssumption, AgentsInv, RollBack, history, session, Races, Goto, Ends
<1>a. seen[s] \in Docs
  BY DEF SeenNamed, TypeOK
<1>b. Rewritten(seen[s], to[s]).who = seen[s].who
  BY <1>a, RenamedFacts DEF TypeOK
<1>1. TypeOK'
  BY <1>a, <1>b, NoDocFacts, DocFacts DEF TypeOK, Ops, Steps, Edits, MaxBorn
<1>2. FilesNamed'
  BY <1>a, <1>b, NoDocFacts, DocFacts DEF FilesNamed, SeenNamed, TypeOK
<1>3. SeenNamed'
  BY <1>a, <1>b, NoDocFacts, DocFacts DEF SeenNamed, FilesNamed, TypeOK
<1>4. BornPaid'
  <2>1. Defining' \subseteq Defining
    BY DEF Defining, TypeOK
  <2> QED BY <2>1, NobodyDefines DEF TypeOK
<1>5. CopiesOutlast'
  <2> SUFFICES ASSUME NEW w \in 1..born, ~raced', w \notin removed'
               PROVE  Cardinality(Renaming(w)') < Cardinality(Copies(w)')
    BY DEF CopiesOutlast
  <2>1. Cardinality(Renaming(w)) < Cardinality(Copies(w))
    BY DEF CopiesOutlast
  <2>2. Renaming(w)' \subseteq Renaming(w)
    BY NoDocFacts DEF Renaming, TypeOK
  <2>3. CASE seen[s].who = w
    <3>1. s \in Renaming(w) /\ Renaming(w)' \subseteq Renaming(w) \ {s}
      BY <2>3, NoDocFacts DEF Renaming, TypeOK, SeenNamed
    <3>2. Copies(w) \ {to[s]} \subseteq Copies(w)'
      BY DEF Copies, TypeOK
    <3>3. IsFiniteSet(Renaming(w)) /\ IsFiniteSet(Copies(w)) /\ IsFiniteSet(Copies(w)')
      BY Finite
    <3> QED BY <2>1, <3>1, <3>2, <3>3, OneLessEach
  <2>4. CASE seen[s].who # w
    <3>1. Copies(w) \subseteq Copies(w)'
      BY <1>b, <2>4, NoDocFacts DEF Copies, TypeOK
    <3> QED BY <2>1, <2>2, <3>1, Finite, MoreCopies
  <2> QED BY <2>3, <2>4
<1> QED BY <1>1, <1>2, <1>3, <1>4, <1>5

LEMMA UnlinkKeeps ==
  ASSUME AgentsAssumption, AgentsInv, NEW s \in Sessions, Unlink(s)
  PROVE  AgentsInv'
<1> USE DEF AgentsAssumption, AgentsInv, Unlink, history, session, Races, Goto, Ends
<1>1. TypeOK'
  BY NoDocFacts, DocFacts DEF TypeOK, Ops, Steps, Edits, MaxBorn
<1>2. FilesNamed'
  BY NoDocFacts, DocFacts DEF FilesNamed, SeenNamed, TypeOK
<1>3. SeenNamed'
  BY NoDocFacts, DocFacts DEF SeenNamed, FilesNamed, TypeOK
<1>4. BornPaid'
  <2>1. Defining' \subseteq Defining
    BY DEF Defining, TypeOK
  <2> QED BY <2>1, NobodyDefines DEF TypeOK
<1>5. CopiesOutlast'
  <2>1. ASSUME NEW w \in 1..born, ~raced', w \notin removed'
        PROVE  Copies(w) \subseteq Copies(w)'
    <3>1. ASSUME NEW n \in Names, files[n].who = w
          PROVE  files'[n].who = w
      BY <2>1, <3>1, NoDocFacts DEF TypeOK
    <3> QED BY <3>1, CopiesStay
  <2>2. ASSUME NEW w \in 1..born
        PROVE  Renaming(w)' \subseteq Renaming(w)
    BY NoDocFacts DEF Renaming, TypeOK
  <2> QED BY <2>1, <2>2, NobodyRenames
<1> QED BY <1>1, <1>2, <1>3, <1>4, <1>5

LEMMA HandEditKeeps ==
  ASSUME AgentsAssumption, AgentsInv, NEW n \in Names, HandEdit(n)
  PROVE  AgentsInv'
<1> USE DEF AgentsAssumption, AgentsInv, HandEdit, Exists, history, session, Races, Goto, Ends
<1>a. PICK new \in Docs : /\ files' = [files EXCEPT ![n] = new]
                         /\ new.who = files[n].who /\ new.name = files[n].name
  <2>1. files[n] \in Docs /\ files' = [files EXCEPT ![n] = [files[n] EXCEPT !.sound = ~@]]
    BY DEF TypeOK
  <2> QED BY <2>1, SoundFacts
<1>1. TypeOK'
  BY <1>a, NoDocFacts, DocFacts DEF TypeOK, Ops, Steps, Edits, MaxBorn
<1>2. FilesNamed'
  BY <1>a, NoDocFacts, DocFacts DEF FilesNamed, SeenNamed, TypeOK
<1>3. SeenNamed'
  BY <1>a, NoDocFacts, DocFacts DEF SeenNamed, FilesNamed, TypeOK
<1>4. BornPaid'
  <2>1. Defining' \subseteq Defining
    BY DEF Defining, TypeOK
  <2> QED BY <2>1, NobodyDefines DEF TypeOK
<1>5. CopiesOutlast'
  <2>1. ASSUME NEW w \in 1..born
        PROVE  Renaming(w)' \subseteq Renaming(w) /\ Copies(w)' = Copies(w)
    BY <1>a DEF Renaming, Copies, TypeOK
  <2> QED BY <2>1, NobodyRenames
<1> QED BY <1>1, <1>2, <1>3, <1>4, <1>5

LEMMA AgentsStep ==
  ASSUME AgentsAssumption, AgentsInv, [Next]_vars
  PROVE  AgentsInv'
<1>1. CASE UNCHANGED vars
  BY <1>1 DEF vars, session, history, AgentsInv, TypeOK, FilesNamed, SeenNamed, BornPaid, Defining,
     CopiesOutlast, Copies, Renaming
<1>2. ASSUME NEW n \in Names, HandEdit(n)
      PROVE  AgentsInv'
  BY <1>2, HandEditKeeps
<1>3. ASSUME NEW s \in Sessions, NEW n \in Names,
             \/ OpenCreate(s, n) \/ OpenInit(s, n) \/ OpenEdit(s, n) \/ OpenPrompt(s, n)
             \/ OpenDelete(s, n)
      PROVE  AgentsInv'
  BY <1>3, OpensKeeps DEF OpenCreate, OpenInit, OpenEdit, OpenPrompt, OpenDelete, Ops, Edits, Steps
<1>4. ASSUME NEW s \in Sessions, NEW n \in Names, NEW m \in Names, OpenRename(s, n, m)
      PROVE  AgentsInv'
  BY <1>4, OpensKeeps DEF OpenRename, Ops, Edits, Steps
<1>5. ASSUME NEW s \in Sessions, Dispatch(s)
      PROVE  AgentsInv'
  BY <1>5, GoesKeeps, EndsKeeps DEF Dispatch, Steps
<1>6. ASSUME NEW s \in Sessions, Make(s)
      PROVE  AgentsInv'
  BY <1>6, MakeKeeps
<1>7. ASSUME NEW s \in Sessions, CheckSeed(s) \/ Prune(s)
      PROVE  AgentsInv'
  BY <1>7, CheckSeedKeeps, PruneKeeps, EndsKeeps DEF CheckSeed
<1>8. ASSUME NEW s \in Sessions, Load(s)
      PROVE  AgentsInv'
  BY <1>8, LoadKeeps, EndsKeeps DEF Load
<1>9. ASSUME NEW s \in Sessions, WriteField(s) \/ WriteGrants(s) \/ WritePrompt(s)
      PROVE  AgentsInv'
  BY <1>9, RewritesKeeps DEF WriteField, WriteGrants, WritePrompt, Edits
<1>10. ASSUME NEW s \in Sessions, WriteRenamed(s) \/ RollBack(s) \/ Unlink(s)
       PROVE  AgentsInv'
  BY <1>10, WriteRenamedKeeps, RollBackKeeps, UnlinkKeeps
<1>11. ASSUME NEW s \in Sessions, UnlinkRenamed(s)
       PROVE  AgentsInv'
  BY <1>11, UnlinkRenamedKeeps, GoesKeeps DEF UnlinkRenamed, Steps, history
<1>12. ASSUME NEW s \in Sessions, Aborts(s)
       PROVE  AgentsInv'
  BY <1>12, EndsKeeps DEF Aborts
<1> QED BY <1>1, <1>2, <1>3, <1>4, <1>5, <1>6, <1>7, <1>8, <1>9, <1>10, <1>11, <1>12 DEF Next

(* Files and sessions keep their shape, and no command defines an agent without having paid for  *)
(* it, whichever sessions race and wherever they are killed.                                     *)
THEOREM AgentsCorrect == Spec => []AgentsInv
<1>1. Init => AgentsInv
  BY AgentsInitial, AgentsAssumption
<1>2. AgentsInv /\ [Next]_vars => AgentsInv'
  BY AgentsStep, AgentsAssumption
<1> QED BY <1>1, <1>2, PTL DEF Spec

(* An agent that was defined has a file until an operator removes it, or init takes the starter   *)
(* by its description (with whatever else was edited in it), or a write hits what its session    *)
(* has not seen: for any number of renames under way at once, each of which takes a file of its  *)
(* agent away only after it has made one more (agent_lifecycle.py:181).                          *)
THEOREM AgentsKept == Spec => []AgentKept
<1>1. AgentsInv => AgentKept
  <2> SUFFICES ASSUME AgentsInv, NEW w \in 1..born, ~raced, w \notin removed
               PROVE  \E n \in Names : files[n].who = w /\ files[n].name = n
    BY DEF AgentKept
  <2>1. Cardinality(Renaming(w)) < Cardinality(Copies(w))
    BY DEF AgentsInv, CopiesOutlast
  <2>2. Copies(w) # {}
    BY <2>1, AgentsAssumption, Finite, FS_EmptySet
  <2>3. PICK n \in Names : files[n].who = w
    BY <2>2 DEF Copies
  <2>4. files[n].name = n
    BY <2>3 DEF AgentsInv, FilesNamed, TypeOK, NoDoc
  <2> QED BY <2>3, <2>4
<1> QED BY <1>1, AgentsCorrect, PTL

LEMMA EditStep ==
  ASSUME AgentsInv, [Next]_vars, ~raced', NEW n \in Names, NEW e \in Edits,
         files[n].who = files'[n].who, files[n][e] # files'[n][e]
  PROVE  \E s \in Sessions : at[s] = "write" /\ at'[s] # "write" /\ name[s] = n /\ edit[s] = e
<1> USE DEF AgentsInv, TypeOK
<1>1. files' # files
  OBVIOUS
<1>2. ASSUME NEW s \in Sessions, NEW part \in Edits, Rewrites(s, part), at'[s] # "write"
      PROVE  at[s] = "write" /\ at'[s] # "write" /\ name[s] = n /\ edit[s] = e
  <2>1. PICK v \in 0..1 : files' = [files EXCEPT ![name[s]] = WithPart(seen[s], part, v)]
    BY <1>2 DEF Rewrites, WithPart
  <2>2. at[s] = "write" /\ edit[s] = part /\ files[name[s]] = seen[s]
    BY <1>2 DEF Rewrites, Races
  <2>3. name[s] = n
    BY <2>1
  <2>4. seen[s] \in Docs
    BY <2>2 DEF SeenNamed
  <2>5. \A k \in Edits \ {part} : WithPart(seen[s], part, v)[k] = seen[s][k]
    BY <2>4, PartFacts
  <2>6. e = part
    BY <2>1, <2>2, <2>3, <2>5
  <2> QED BY <1>2, <2>2, <2>3, <2>6
<1>3. ASSUME NEW s \in Sessions, WriteField(s) \/ WriteGrants(s) \/ WritePrompt(s)
      PROVE  at[s] = "write" /\ at'[s] # "write" /\ name[s] = n /\ edit[s] = e
  BY <1>2, <1>3 DEF WriteField, WriteGrants, WritePrompt, Ends, Edits
<1>4. ASSUME NEW m \in Names, NEW doc, files' = [files EXCEPT ![m] = doc],
             \/ doc = NoDoc \/ doc.who > born
             \/ files[m] = NoDoc /\ doc.who # 0
      PROVE  FALSE
  BY <1>1, <1>4, NoDocFacts, DocFacts DEF FilesNamed
<1>5. ASSUME NEW m \in Names, HandEdit(m)
      PROVE  FALSE
  <2>1. files[m] \in Docs /\ files' = [files EXCEPT ![m] = [files[m] EXCEPT !.sound = ~@]]
    BY <1>5 DEF HandEdit, Exists
  <2>2. \A k \in Edits : [files[m] EXCEPT !.sound = ~@][k] = files[m][k]
    BY <2>1, SoundFacts
  <2> QED BY <2>1, <2>2
<1>6. ASSUME NEW s \in Sessions, Make(s)
      PROVE  FALSE
  <2>1. Fresh(born + 1, name[s]).who = born + 1
    BY DEF Fresh
  <2>2. files' = [files EXCEPT ![name[s]] = Fresh(born + 1, name[s])] /\ name[s] \in Names
    BY <1>6 DEF Make
  <2>3. born + 1 > born
    OBVIOUS
  <2> QED BY <1>4, <2>1, <2>2, <2>3
<1>7. ASSUME NEW s \in Sessions, WriteRenamed(s)
      PROVE  FALSE
  <2>1. seen[s] \in Docs /\ files[to[s]] = NoDoc
    BY <1>7 DEF WriteRenamed, Races, SeenNamed
  <2>2. Rewritten(seen[s], to[s]).who # 0
    BY <2>1, RenamedFacts, DocFacts
  <2> QED BY <1>4, <1>7, <2>1, <2>2 DEF WriteRenamed
<1>8. ASSUME NEW s \in Sessions, Prune(s) \/ UnlinkRenamed(s) \/ RollBack(s) \/ Unlink(s)
      PROVE  FALSE
  BY <1>1, <1>4, <1>8, AgentsAssumption DEF Prune, UnlinkRenamed, RollBack, Unlink, AgentsAssumption
<1>9. ASSUME NEW s \in Sessions, Dispatch(s) \/ CheckSeed(s) \/ Load(s) \/ Aborts(s)
      PROVE  FALSE
  BY <1>1, <1>9 DEF Dispatch, CheckSeed, Load, Aborts
<1>10. ASSUME NEW s \in Sessions, NEW k \in Names,
              \/ OpenCreate(s, k) \/ OpenInit(s, k) \/ OpenEdit(s, k) \/ OpenPrompt(s, k)
              \/ OpenDelete(s, k) \/ \E m \in Names : OpenRename(s, k, m)
       PROVE  FALSE
  BY <1>1, <1>10 DEF OpenCreate, OpenInit, OpenEdit, OpenPrompt, OpenDelete, OpenRename, Opens
<1> QED
  BY <1>1, <1>3, <1>5, <1>6, <1>7, <1>8, <1>9, <1>10 DEF Next, vars

(* A part of a definition changes only by the command that edits it, however long the others had *)
(* the file open, and whatever they write meanwhile (md_writer.py:97).                           *)
THEOREM EditsKept == Spec => EditKept
<1> DEFINE Kept == \A n \in Names, e \in Edits :
              files[n].who = files'[n].who /\ files[n][e] # files'[n][e] =>
                \/ \E s \in Sessions :
                     at[s] = "write" /\ at'[s] # "write" /\ name[s] = n /\ edit[s] = e
                \/ raced'
<1>1. AgentsInv /\ [Next]_vars => [Kept]_vars
  BY EditStep
<1> HIDE DEF Kept
<1>2. Spec => [][Kept]_vars
  BY <1>1, AgentsCorrect, PTL DEF Spec
<1> QED BY <1>2 DEF Kept, EditKept

-----------------------------------------------------------------------------
(* The processes.                                                              *)

\* Who is between the two writes holds the lock.
SaversAlone == \A p \in Processes : pc[p] \in {"saveBody", "saveMeta"} => lock = p

\* A process reads an etag once it has read a body, which is the one in the cache unless a file
\* has changed since.
BodyRead ==
  \A p \in Processes :
    /\ pc[p] = "meta" => cached[p] # None /\ (moved[p] \/ cached[p] = body)
    /\ etag[p] # None => pc[p] = "get" /\ cached[p] # None

\* Each pair is one version, unless one is torn: the cached one, but for a save half way; the one
\* a process has read; and the one it saves.
PairCached ==
  torn \/ body = None \/ meta = None \/ body = meta \/ \E p \in Processes : pc[p] = "saveMeta"
PairRead == \A p \in Processes : torn \/ etag[p] = None \/ cached[p] = etag[p]
PairSaved ==
  \A p \in Processes : pc[p] \in {"lock", "saveBody", "saveMeta"} =>
    torn \/ (got[p] = tag[p] /\ (pc[p] = "saveMeta" => body \in {None, got[p]}))

\* The worker is made when the process serves; who drains after a clean end was told to stop.
WorkerTold ==
  \A p \in Processes :
    /\ pc[p] \notin {"down", "serving", "draining"} => worker[p] = "pending"
    /\ pc[p] = "draining" => exit[p] # "none"
    /\ pc[p] = "draining" /\ exit[p] = "zero" => signal[p] /\ worker[p] # "crashed"

ProcessInv ==
  /\ ProcessTypeOK /\ SaversAlone /\ BodyRead /\ PairCached /\ PairRead /\ PairSaved
  /\ WorkerTold /\ AnswerCurrent

LEMMA ProcessInitial ==
  ASSUME ProcessAssumption, ProcessInit
  PROVE  ProcessInv
BY DEF ProcessAssumption, ProcessInit, ProcessInv, ProcessTypeOK, SaversAlone, BodyRead, PairCached,
       PairRead, PairSaved, WorkerTold, AnswerCurrent, Places

\* A process ends: its lock comes free, and a pair that it leaves half done is torn.
LEMMA DiesKeeps ==
  ASSUME ProcessAssumption, ProcessInv, NEW p \in Processes, NEW code \in {"zero", "nonzero"},
         Dies(p, code), UNCHANGED worker,
         signal' \in [Processes -> BOOLEAN], \A q \in Processes \ {p} : signal'[q] = signal[q]
  PROVE  ProcessInv'
<1> USE DEF ProcessInv, Dies, Leaves, Proceeds, cache
<1>1. ProcessTypeOK'
  BY DEF ProcessTypeOK, Places, ProcessAssumption
<1>2. SaversAlone'
  BY DEF ProcessTypeOK, SaversAlone, Places
<1>3. BodyRead'
  BY DEF ProcessTypeOK, BodyRead, Places
<1>4. PairCached'
  BY DEF ProcessTypeOK, PairCached, SaversAlone, Places
<1>5. PairRead'
  BY DEF ProcessTypeOK, PairRead
<1>6. PairSaved'
  BY DEF ProcessTypeOK, PairSaved, Places
<1>7. WorkerTold'
  BY DEF ProcessTypeOK, WorkerTold, Places
<1>8. AnswerCurrent'
  BY DEF ProcessTypeOK, AnswerCurrent
<1> QED BY <1>1, <1>2, <1>3, <1>4, <1>5, <1>6, <1>7, <1>8

LEMMA ExitsKeeps ==
  ASSUME ProcessAssumption, ProcessInv, NEW p \in Processes, NEW code \in {"zero", "nonzero"},
         Exits(p, code)
  PROVE  ProcessInv'
BY DiesKeeps DEF Exits, ProcessInv, ProcessTypeOK

\* A process goes on with the version it has got, confirmed by upstream if it is that one.
LEMMA TakesKeeps ==
  ASSUME ProcessAssumption, ProcessInv, NEW p \in Processes, pc[p] = "get",
         NEW v \in Versions, NEW answer \in Versions \union {None}, NEW step \in {"lock", "parse"},
         Proceeds(p, step), Takes(p, v, answer), torn \/ answer = None \/ v = answer,
         \/ step = "parse" /\ UNCHANGED tag
         \/ step = "lock" /\ (torn \/ answer = v) /\ tag' = [tag EXCEPT ![p] = answer]
  PROVE  ProcessInv'
<1> USE DEF ProcessInv, Takes, Proceeds, cache, running
<1>1. ProcessTypeOK'
  BY DEF ProcessTypeOK, Places
<1>2. SaversAlone'
  BY DEF ProcessTypeOK, SaversAlone
<1>3. BodyRead'
  BY DEF ProcessTypeOK, BodyRead
<1>4. PairCached'
  BY DEF ProcessTypeOK, PairCached
<1>5. PairRead'
  BY DEF ProcessTypeOK, PairRead
<1>6. PairSaved'
  BY DEF ProcessTypeOK, PairSaved
<1>7. WorkerTold'
  BY DEF ProcessTypeOK, WorkerTold
<1>8. AnswerCurrent'
  BY DEF ProcessTypeOK, AnswerCurrent
<1> QED BY <1>1, <1>2, <1>3, <1>4, <1>5, <1>6, <1>7, <1>8

LEMMA GetKeeps ==
  ASSUME ProcessAssumption, ProcessInv, NEW p \in Processes,
         GetFails(p) \/ Get200(p) \/ Get304(p)
  PROVE  ProcessInv'
<1> USE DEF ProcessInv, ProcessTypeOK
<1>1. CASE pc[p] = "get" /\ Unavailable(p)
  BY <1>1, ExitsKeeps DEF Unavailable
<1>2. CASE pc[p] = "get" /\ FallsBack(p)
  BY <1>2, TakesKeeps DEF FallsBack
<1>3. CASE pc[p] = "get" /\ Get200(p) /\ Accepts(upstream) /\ ~FallsBack(p) /\ ~Unavailable(p)
  BY <1>3, TakesKeeps DEF Get200
<1>4. CASE pc[p] = "get" /\ Get304(p)
  <2>1. etag[p] = upstream /\ upstream # None
    BY <1>4 DEF Get304, ProcessAssumption
  <2>2. cached[p] \in Versions /\ (torn \/ cached[p] = upstream)
    BY <2>1 DEF PairRead, BodyRead
  <2> QED BY <1>4, <2>1, <2>2, TakesKeeps DEF Get304
<1> QED BY <1>1, <1>2, <1>3, <1>4 DEF GetFails, Get200, Get304

LEMMA BootKeeps ==
  ASSUME ProcessAssumption, ProcessInv, NEW p \in Processes, Boot(p)
  PROVE  ProcessInv'
<1> USE DEF ProcessInv, Boot, Providers, Proceeds, cache, loading
<1>1. ProcessTypeOK'
  BY DEF ProcessTypeOK, Places
<1>2. SaversAlone'
  BY DEF SaversAlone, ProcessTypeOK
<1>3. BodyRead'
  BY DEF BodyRead, ProcessTypeOK
<1>4. PairCached'
  BY DEF PairCached, ProcessTypeOK, SaversAlone, PairSaved
<1>5. PairRead'
  BY DEF PairRead, ProcessTypeOK, PairCached, BodyRead
<1>6. PairSaved'
  BY DEF PairSaved, ProcessTypeOK, SaversAlone
<1>7. WorkerTold'
  BY DEF WorkerTold, ProcessTypeOK
<1>8. AnswerCurrent'
  BY DEF AnswerCurrent, ProcessTypeOK
<1> QED BY <1>1, <1>2, <1>3, <1>4, <1>5, <1>6, <1>7, <1>8

LEMMA LoadBodyKeeps ==
  ASSUME ProcessAssumption, ProcessInv, NEW p \in Processes, LoadBody(p)
  PROVE  ProcessInv'
<1> USE DEF ProcessInv, LoadBody, Proceeds, cache, running
<1>1. ProcessTypeOK'
  BY DEF ProcessTypeOK, Places
<1>2. SaversAlone'
  BY DEF SaversAlone, ProcessTypeOK
<1>3. BodyRead'
  BY DEF BodyRead, ProcessTypeOK
<1>4. PairCached'
  BY DEF PairCached, ProcessTypeOK, SaversAlone, PairSaved
<1>5. PairRead'
  BY DEF PairRead, ProcessTypeOK, PairCached, BodyRead
<1>6. PairSaved'
  BY DEF PairSaved, ProcessTypeOK, SaversAlone
<1>7. WorkerTold'
  BY DEF WorkerTold, ProcessTypeOK
<1>8. AnswerCurrent'
  BY DEF AnswerCurrent, ProcessTypeOK
<1> QED BY <1>1, <1>2, <1>3, <1>4, <1>5, <1>6, <1>7, <1>8

LEMMA LoadMetaKeeps ==
  ASSUME ProcessAssumption, ProcessInv, NEW p \in Processes, LoadMeta(p)
  PROVE  ProcessInv'
<1> USE DEF ProcessInv, LoadMeta, Proceeds, cache, running
<1>1. ProcessTypeOK'
  BY DEF ProcessTypeOK, Places
<1>2. SaversAlone'
  BY DEF SaversAlone, ProcessTypeOK
<1>3. BodyRead'
  BY DEF BodyRead, ProcessTypeOK
<1>4. PairCached'
  BY DEF PairCached, ProcessTypeOK, SaversAlone, PairSaved
<1>5. PairRead'
  BY DEF PairRead, ProcessTypeOK, PairCached, BodyRead
<1>6. PairSaved'
  BY DEF PairSaved, ProcessTypeOK, SaversAlone
<1>7. WorkerTold'
  BY DEF WorkerTold, ProcessTypeOK
<1>8. AnswerCurrent'
  BY DEF AnswerCurrent, ProcessTypeOK
<1> QED BY <1>1, <1>2, <1>3, <1>4, <1>5, <1>6, <1>7, <1>8

LEMMA LockKeeps ==
  ASSUME ProcessAssumption, ProcessInv, NEW p \in Processes, Lock(p)
  PROVE  ProcessInv'
<1> USE DEF ProcessInv, Lock, LockFree, Proceeds, cache, loading, running
<1>1. ProcessTypeOK'
  BY DEF ProcessTypeOK, Places
<1>2. SaversAlone'
  BY DEF SaversAlone, ProcessTypeOK
<1>3. BodyRead'
  BY DEF BodyRead, ProcessTypeOK
<1>4. PairCached'
  BY DEF PairCached, ProcessTypeOK, SaversAlone, PairSaved
<1>5. PairRead'
  BY DEF PairRead, ProcessTypeOK, PairCached, BodyRead
<1>6. PairSaved'
  BY DEF PairSaved, ProcessTypeOK, SaversAlone
<1>7. WorkerTold'
  BY DEF WorkerTold, ProcessTypeOK
<1>8. AnswerCurrent'
  BY DEF AnswerCurrent, ProcessTypeOK
<1> QED BY <1>1, <1>2, <1>3, <1>4, <1>5, <1>6, <1>7, <1>8

LEMMA SaveBodyKeeps ==
  ASSUME ProcessAssumption, ProcessInv, NEW p \in Processes, SaveBody(p)
  PROVE  ProcessInv'
<1> USE DEF ProcessInv, SaveBody, Moves, Proceeds, loading, running
<1>1. ProcessTypeOK'
  BY DEF ProcessTypeOK, Places
<1>2. SaversAlone'
  BY DEF SaversAlone, ProcessTypeOK
<1>3. BodyRead'
  BY DEF BodyRead, ProcessTypeOK
<1>4. PairCached'
  BY DEF PairCached, ProcessTypeOK, SaversAlone, PairSaved
<1>5. PairRead'
  BY DEF PairRead, ProcessTypeOK, PairCached, BodyRead
<1>6. PairSaved'
  BY DEF PairSaved, ProcessTypeOK, SaversAlone
<1>7. WorkerTold'
  BY DEF WorkerTold, ProcessTypeOK
<1>8. AnswerCurrent'
  BY DEF AnswerCurrent, ProcessTypeOK
<1> QED BY <1>1, <1>2, <1>3, <1>4, <1>5, <1>6, <1>7, <1>8

LEMMA SaveMetaKeeps ==
  ASSUME ProcessAssumption, ProcessInv, NEW p \in Processes, SaveMeta(p)
  PROVE  ProcessInv'
<1> USE DEF ProcessInv, SaveMeta, Moves, Proceeds, running
<1>1. ProcessTypeOK'
  BY DEF ProcessTypeOK, Places
<1>2. SaversAlone'
  BY DEF SaversAlone, ProcessTypeOK
<1>3. BodyRead'
  BY DEF BodyRead, ProcessTypeOK
<1>4. PairCached'
  BY DEF PairCached, ProcessTypeOK, SaversAlone, PairSaved
<1>5. PairRead'
  BY DEF PairRead, ProcessTypeOK, PairCached, BodyRead
<1>6. PairSaved'
  BY DEF PairSaved, ProcessTypeOK, SaversAlone
<1>7. WorkerTold'
  BY DEF WorkerTold, ProcessTypeOK
<1>8. AnswerCurrent'
  BY DEF AnswerCurrent, ProcessTypeOK
<1> QED BY <1>1, <1>2, <1>3, <1>4, <1>5, <1>6, <1>7, <1>8

LEMMA ClearOneKeeps ==
  ASSUME ProcessAssumption, ProcessInv, ClearOne
  PROVE  ProcessInv'
<1> USE DEF ProcessInv, ClearOne, Moves, loading, running
<1>1. ProcessTypeOK'
  BY DEF ProcessTypeOK, Places
<1>2. SaversAlone'
  BY DEF SaversAlone, ProcessTypeOK
<1>3. BodyRead'
  BY DEF BodyRead, ProcessTypeOK
<1>4. PairCached'
  BY DEF PairCached, ProcessTypeOK, SaversAlone, PairSaved
<1>5. PairRead'
  BY DEF PairRead, ProcessTypeOK, PairCached, BodyRead
<1>6. PairSaved'
  BY DEF PairSaved, ProcessTypeOK, SaversAlone
<1>7. WorkerTold'
  BY DEF WorkerTold, ProcessTypeOK
<1>8. AnswerCurrent'
  BY DEF AnswerCurrent, ProcessTypeOK
<1> QED BY <1>1, <1>2, <1>3, <1>4, <1>5, <1>6, <1>7, <1>8

\* A process whose prompt is at hand goes on.
LEMMA GoesOnKeeps ==
  ASSUME ProcessAssumption, ProcessInv, NEW p \in Processes, NEW step \in {"grok", "build",
         "serving"},
         pc[p] \in {"parse", "grok", "build"}, Proceeds(p, step),
         UNCHANGED <<upstream, cache, lock, loading, running, moved, torn>>
  PROVE  ProcessInv'
<1> USE DEF ProcessInv, Proceeds, cache, loading, running
<1>1. ProcessTypeOK'
  BY DEF ProcessTypeOK, Places
<1>2. SaversAlone'
  BY DEF SaversAlone, ProcessTypeOK
<1>3. BodyRead'
  BY DEF BodyRead, ProcessTypeOK
<1>4. PairCached'
  BY DEF PairCached, ProcessTypeOK, SaversAlone, PairSaved
<1>5. PairRead'
  BY DEF PairRead, ProcessTypeOK, PairCached, BodyRead
<1>6. PairSaved'
  BY DEF PairSaved, ProcessTypeOK, SaversAlone
<1>7. WorkerTold'
  BY DEF WorkerTold, ProcessTypeOK
<1>8. AnswerCurrent'
  BY DEF AnswerCurrent, ProcessTypeOK
<1> QED BY <1>1, <1>2, <1>3, <1>4, <1>5, <1>6, <1>7, <1>8

LEMMA RunsKeeps ==
  ASSUME ProcessAssumption, ProcessInv, NEW p \in Processes, WorkerEnds(p) \/ Signal(p) \/ Wake(p)
  PROVE  ProcessInv'
<1> USE DEF ProcessInv, WorkerEnds, Signal, Wake, Verdict, Proceeds, cache, loading, running
<1>1. ProcessTypeOK'
  <2>1. CASE WorkerEnds(p)
    BY <2>1 DEF ProcessTypeOK
  <2>2. CASE Signal(p)
    BY <2>2 DEF ProcessTypeOK
  <2>3. CASE Wake(p)
    BY <2>3 DEF ProcessTypeOK, Places
  <2> QED BY <2>1, <2>2, <2>3
<1>2. SaversAlone'
  BY DEF SaversAlone, ProcessTypeOK
<1>3. BodyRead'
  BY DEF BodyRead, ProcessTypeOK
<1>4. PairCached'
  BY DEF PairCached, ProcessTypeOK, SaversAlone, PairSaved
<1>5. PairRead'
  BY DEF PairRead, ProcessTypeOK, PairCached, BodyRead
<1>6. PairSaved'
  BY DEF PairSaved, ProcessTypeOK, SaversAlone
<1>7. WorkerTold'
  BY DEF WorkerTold, ProcessTypeOK
<1>8. AnswerCurrent'
  BY DEF AnswerCurrent, ProcessTypeOK
<1> QED BY <1>1, <1>2, <1>3, <1>4, <1>5, <1>6, <1>7, <1>8

LEMMA AroundKeeps ==
  ASSUME ProcessAssumption, ProcessInv, Publish \/ Clear
  PROVE  ProcessInv'
<1> USE DEF ProcessInv, Publish, Clear, cache, loading, running
<1>1. ProcessTypeOK'
  BY DEF ProcessTypeOK, Places
<1>2. SaversAlone'
  BY DEF SaversAlone, ProcessTypeOK
<1>3. BodyRead'
  BY DEF BodyRead, ProcessTypeOK
<1>4. PairCached'
  BY DEF PairCached, ProcessTypeOK, SaversAlone, PairSaved
<1>5. PairRead'
  BY DEF PairRead, ProcessTypeOK, PairCached, BodyRead
<1>6. PairSaved'
  BY DEF PairSaved, ProcessTypeOK, SaversAlone
<1>7. WorkerTold'
  BY DEF WorkerTold, ProcessTypeOK
<1>8. AnswerCurrent'
  BY DEF AnswerCurrent, ProcessTypeOK
<1> QED BY <1>1, <1>2, <1>3, <1>4, <1>5, <1>6, <1>7, <1>8

LEMMA EndKeeps ==
  ASSUME ProcessAssumption, ProcessInv, NEW p \in Processes,
         \/ LockTimesOut(p) \/ SaveFails(p) \/ Parse(p) \/ Build(p) \/ Drained(p)
         \/ Interrupt(p) \/ Kill(p)
  PROVE  ProcessInv'
<1>1. CASE \E code \in {"zero", "nonzero"} : Exits(p, code)
  BY <1>1, ExitsKeeps
<1>2. CASE Interrupt(p)
  BY <1>2, DiesKeeps DEF Interrupt, ProcessInv, ProcessTypeOK
<1>3. CASE Parse(p) /\ ~Exits(p, "nonzero")
  BY <1>3, GoesOnKeeps DEF Parse
<1>4. CASE Build(p) /\ ~Exits(p, "nonzero")
  BY <1>4, GoesOnKeeps DEF Build
<1>5. CASE Drained(p)
  BY <1>5, ExitsKeeps DEF Drained, ProcessInv, ProcessTypeOK, WorkerTold
<1> QED BY <1>1, <1>2, <1>3, <1>4, <1>5 DEF LockTimesOut, SaveFails, Kill

LEMMA ProcessStep ==
  ASSUME ProcessAssumption, ProcessInv, [ProcessNext]_processVars
  PROVE  ProcessInv'
<1>1. CASE UNCHANGED processVars
  BY <1>1 DEF processVars, cache, loading, running, ProcessInv, ProcessTypeOK, SaversAlone,
     BodyRead,
     PairCached, PairRead, PairSaved, WorkerTold, AnswerCurrent
<1>2. CASE Publish \/ Clear
  BY <1>2, AroundKeeps
<1>3. CASE ClearOne
  BY <1>3, ClearOneKeeps
<1>4. ASSUME NEW p \in Processes, Boot(p) \/ LoadBody(p) \/ LoadMeta(p)
      PROVE  ProcessInv'
  BY <1>4, BootKeeps, LoadBodyKeeps, LoadMetaKeeps
<1>5. ASSUME NEW p \in Processes, GetFails(p) \/ Get200(p) \/ Get304(p)
      PROVE  ProcessInv'
  BY <1>5, GetKeeps
<1>6. ASSUME NEW p \in Processes, Lock(p) \/ SaveBody(p) \/ SaveMeta(p)
      PROVE  ProcessInv'
  BY <1>6, LockKeeps, SaveBodyKeeps, SaveMetaKeeps
<1>7. ASSUME NEW p \in Processes,
             \/ LockTimesOut(p) \/ SaveFails(p) \/ Parse(p) \/ Build(p) \/ Drained(p)
             \/ Interrupt(p) \/ Kill(p)
      PROVE  ProcessInv'
  BY <1>7, EndKeeps
<1>8. ASSUME NEW p \in Processes, PrewarmGrok(p)
      PROVE  ProcessInv'
  BY <1>8, GoesOnKeeps DEF PrewarmGrok
<1>9. ASSUME NEW p \in Processes, WorkerEnds(p) \/ Signal(p) \/ Wake(p)
      PROVE  ProcessInv'
  BY <1>9, RunsKeeps
<1> QED BY <1>1, <1>2, <1>3, <1>4, <1>5, <1>6, <1>7, <1>8, <1>9 DEF ProcessNext

(* An agent process and the prompt cache keep their shape, and whoever is between the two writes *)
(* of a save holds the lock of the artifact (prompts.py, prompt_cache.py).                       *)
THEOREM ProcessCorrect == ProcessSpec => []ProcessInv
<1>1. ProcessInit => ProcessInv
  BY ProcessInitial, ProcessAssumption
<1>2. ProcessInv /\ [ProcessNext]_processVars => ProcessInv'
  BY ProcessStep, ProcessAssumption
<1> QED BY <1>1, <1>2, PTL DEF ProcessSpec

(* What an answer of upstream makes of a cached body is the version upstream published then, for *)
(* any number of processes, versions, saves and clears, unless a pair was torn                   *)
(* (prompt_cache.py:11).                                                                         *)
THEOREM AnswersCurrent == ProcessSpec => []AnswerCurrent
<1>1. ProcessInv => AnswerCurrent
  BY DEF ProcessInv
<1> QED BY <1>1, ProcessCorrect, PTL

\* A process ends by what it does itself, or by what is done to it.
LEMMA HowItEnds ==
  ASSUME ProcessTypeOK, ProcessNext, NEW p \in Processes, pc[p] # "down", pc'[p] = "down"
  PROVE  Interrupt(p) \/ Drained(p) \/ Exits(p, "nonzero")
<1> USE DEF ProcessTypeOK, Places
<1>1. CASE Publish \/ Clear \/ ClearOne
  BY <1>1 DEF Publish, Clear, ClearOne
<1>2. ASSUME NEW q \in Processes, NEW step \in Places \ {"down"}, Proceeds(q, step)
      PROVE  FALSE
  BY <1>2 DEF Proceeds
<1>3. ASSUME NEW q \in Processes, NEW code, Exits(q, code) \/ Dies(q, code)
      PROVE  q = p
  BY <1>3 DEF Exits, Dies, Leaves, Proceeds
<1>4. ASSUME NEW q \in Processes, Boot(q)
      PROVE  FALSE
  BY <1>4 DEF Boot, Proceeds
<1>5. ASSUME NEW q \in Processes, WorkerEnds(q) \/ Signal(q)
      PROVE  FALSE
  BY <1>5 DEF WorkerEnds, Signal
<1>6. ASSUME NEW q \in Processes,
             \/ LoadBody(q) \/ LoadMeta(q) \/ Lock(q) \/ SaveBody(q) \/ SaveMeta(q)
             \/ Get304(q) \/ PrewarmGrok(q) \/ Wake(q)
      PROVE  FALSE
  BY <1>6, <1>2 DEF LoadBody, LoadMeta, Lock, SaveBody, SaveMeta, Get304, PrewarmGrok, Wake
<1>7. ASSUME NEW q \in Processes, GetFails(q) \/ Get200(q) \/ Parse(q) \/ Build(q)
      PROVE  Exits(p, "nonzero")
  BY <1>7, <1>2, <1>3 DEF GetFails, Get200, FallsBack, Unavailable, Parse, Build
<1>8. ASSUME NEW q \in Processes, LockTimesOut(q) \/ SaveFails(q) \/ Kill(q)
      PROVE  Exits(p, "nonzero")
  BY <1>8, <1>3 DEF LockTimesOut, SaveFails, Kill
<1>9. ASSUME NEW q \in Processes, Drained(q) \/ Interrupt(q)
      PROVE  Drained(p) \/ Interrupt(p)
  BY <1>9, <1>3 DEF Drained, Interrupt
<1> QED BY <1>1, <1>4, <1>5, <1>6, <1>7, <1>8, <1>9 DEF ProcessNext

LEMMA CleanStep ==
  ASSUME ProcessAssumption, ProcessInv, [ProcessNext]_processVars,
         NEW p \in Processes, pc[p] # "down", pc'[p] = "down", exit'[p] = "zero"
  PROVE  signal'[p] /\ worker[p] # "crashed"
<1> USE DEF ProcessInv, ProcessTypeOK
<1>1. Interrupt(p) \/ Drained(p) \/ Exits(p, "nonzero")
  BY HowItEnds DEF processVars
<1>2. CASE Interrupt(p)
  BY <1>2 DEF Interrupt, WorkerTold
<1>3. CASE Drained(p)
  BY <1>3 DEF Drained, Exits, Dies, Leaves, WorkerTold
<1>4. CASE Exits(p, "nonzero")
  BY <1>4 DEF Exits, Dies, Leaves
<1> QED BY <1>1, <1>2, <1>3, <1>4

(* An agent process ends with status zero only if it was told to stop and its worker had not     *)
(* crashed when it woke, wherever the signal, the crash and the end of the drain fall            *)
(* (_worker_runtime.py:60).                                                                      *)
THEOREM ExitsClean == ProcessSpec => CleanExit
<1> DEFINE Clean == \A p \in Processes :
              pc[p] # "down" /\ pc'[p] = "down" /\ exit'[p] = "zero" =>
                signal'[p] /\ worker[p] # "crashed"
<1>1. ProcessInv /\ [ProcessNext]_processVars => [Clean]_processVars
  BY CleanStep, ProcessAssumption
<1> HIDE DEF Clean
<1>2. ProcessSpec => [][Clean]_processVars
  BY <1>1, ProcessCorrect, PTL DEF ProcessSpec
<1> QED BY <1>2 DEF Clean, CleanExit
=============================================================================
