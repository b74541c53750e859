-------------------------- MODULE TopicRowsProofs --------------------------
(***************************************************************************)
(* What holds of a topic's rows for every input, topic and meaning of      *)
(* conditions, producers and categories that keep to the hypotheses each   *)
(* theorem names: two rows share an identity only where the topic or a     *)
(* relation asks for it; a way's rows were given what its relations' rows  *)
(* say; and the object of a way's side says what the most specific keys of *)
(* the way do.                                                             *)
(***************************************************************************)
EXTENDS TopicRows, SequenceLemmas

-----------------------------------------------------------------------------
(* Sequences of anything.                                                  *)

IsSeq(s) == \E S : s \in Seq(S)

LEMMA SeqFacts ==
  ASSUME NEW s, IsSeq(s)
  PROVE  Len(s) \in Nat /\ DOMAIN s = 1..Len(s)
<1>1. PICK S : s \in Seq(S)
  BY DEF IsSeq
<1>. QED BY <1>1, LenProperties

LEMMA EmptyIsSeq == IsSeq(<<>>) /\ DOMAIN <<>> = {}
<1>1. <<>> \in Seq({}) /\ Len(<<>>) = 0
  BY EmptySeq
<1>2. DOMAIN <<>> = 1..0
  BY <1>1, LenProperties
<1>. QED BY <1>1, <1>2 DEF IsSeq

LEMMA SingleIsSeq ==
  ASSUME NEW e
  PROVE  IsSeq(<<e>>) /\ DOMAIN <<e>> = {1} /\ <<e>>[1] = e
<1>1. <<e>> \in Seq({e})
  OBVIOUS
<1>2. DOMAIN <<e>> = 1..1 /\ <<e>>[1] = e
  OBVIOUS
<1>3. 1..1 = {1}
  OBVIOUS
<1>. QED BY <1>1, <1>2, <1>3 DEF IsSeq

LEMMA AppendFacts ==
  ASSUME NEW s, IsSeq(s), NEW e
  PROVE  /\ IsSeq(Append(s, e))
         /\ DOMAIN Append(s, e) = 1..(Len(s) + 1)
         /\ \A i \in DOMAIN s : i \in DOMAIN Append(s, e) /\ Append(s, e)[i] = s[i]
         /\ Append(s, e)[Len(s) + 1] = e
         /\ \A i \in DOMAIN Append(s, e) : i \in DOMAIN s \/ i = Len(s) + 1
<1>1. PICK S : s \in Seq(S)
  BY DEF IsSeq
<1>2. s \in Seq(S \cup {e}) /\ e \in S \cup {e}
  BY <1>1, SeqMonotonic
<1>3. /\ Append(s, e) \in Seq(S \cup {e})
      /\ Len(Append(s, e)) = Len(s) + 1
      /\ \A i \in 1..Len(s) : Append(s, e)[i] = s[i]
      /\ Append(s, e)[Len(s) + 1] = e
  BY <1>2, AppendProperties
<1>4. /\ Len(s) \in Nat /\ DOMAIN s = 1..Len(s)
      /\ DOMAIN Append(s, e) = 1..Len(Append(s, e))
  BY <1>2, <1>3, LenProperties
<1>5. IsSeq(Append(s, e))
  BY <1>3 DEF IsSeq
<1>. QED BY <1>3, <1>4, <1>5

LEMMA ConcatFacts ==
  ASSUME NEW s, IsSeq(s), NEW t, IsSeq(t)
  PROVE  /\ IsSeq(s \o t)
         /\ DOMAIN (s \o t) = 1..(Len(s) + Len(t))
         /\ \A i \in DOMAIN (s \o t) :
              \/ i \in DOMAIN s /\ (s \o t)[i] = s[i]
              \/ i \notin DOMAIN s /\ i - Len(s) \in DOMAIN t /\ (s \o t)[i] = t[i - Len(s)]
<1>1. PICK S : s \in Seq(S)
  BY DEF IsSeq
<1>2. PICK T : t \in Seq(T)
  BY DEF IsSeq
<1>3. s \in Seq(S \cup T) /\ t \in Seq(S \cup T)
  BY <1>1, <1>2, SeqMonotonic
<1>4. /\ s \o t \in Seq(S \cup T)
      /\ Len(s \o t) = Len(s) + Len(t)
      /\ \A i \in 1..(Len(s) + Len(t)) :
           (s \o t)[i] = IF i <= Len(s) THEN s[i] ELSE t[i - Len(s)]
  BY <1>3, ConcatProperties
<1>5. /\ Len(s) \in Nat /\ DOMAIN s = 1..Len(s)
      /\ Len(t) \in Nat /\ DOMAIN t = 1..Len(t)
      /\ DOMAIN (s \o t) = 1..Len(s \o t)
  BY <1>3, <1>4, LenProperties
<1>6. IsSeq(s \o t)
  BY <1>4 DEF IsSeq
<1>7. ASSUME NEW i \in DOMAIN (s \o t)
      PROVE  \/ i \in DOMAIN s /\ (s \o t)[i] = s[i]
             \/ i \notin DOMAIN s /\ i - Len(s) \in DOMAIN t /\ (s \o t)[i] = t[i - Len(s)]
  <2>1. i \in 1..(Len(s) + Len(t))
    BY <1>4, <1>5
  <2>2. (s \o t)[i] = IF i <= Len(s) THEN s[i] ELSE t[i - Len(s)]
    BY <1>4, <2>1
  <2>. QED BY <1>5, <2>1, <2>2
<1>. QED BY <1>4, <1>5, <1>6, <1>7

LEMMA ConcatKeeps ==
  ASSUME NEW s, IsSeq(s), NEW t, IsSeq(t)
  PROVE  /\ \A i \in DOMAIN s : i \in DOMAIN (s \o t) /\ (s \o t)[i] = s[i]
         /\ \A j \in DOMAIN t : \E i \in DOMAIN (s \o t) : (s \o t)[i] = t[j]
<1>1. PICK S : s \in Seq(S)
  BY DEF IsSeq
<1>2. PICK T : t \in Seq(T)
  BY DEF IsSeq
<1>3. s \in Seq(S \cup T) /\ t \in Seq(S \cup T)
  BY <1>1, <1>2, SeqMonotonic
<1>4. /\ s \o t \in Seq(S \cup T)
      /\ Len(s \o t) = Len(s) + Len(t)
      /\ \A i \in 1..(Len(s) + Len(t)) :
           (s \o t)[i] = IF i <= Len(s) THEN s[i] ELSE t[i - Len(s)]
  BY <1>3, ConcatProperties
<1>5. /\ Len(s) \in Nat /\ DOMAIN s = 1..Len(s)
      /\ Len(t) \in Nat /\ DOMAIN t = 1..Len(t)
      /\ DOMAIN (s \o t) = 1..(Len(s) + Len(t))
  BY <1>3, <1>4, LenProperties
<1>6. ASSUME NEW j \in DOMAIN t PROVE \E i \in DOMAIN (s \o t) : (s \o t)[i] = t[j]
  <2>1. /\ j + Len(s) \in 1..(Len(s) + Len(t)) /\ ~(j + Len(s) <= Len(s))
        /\ (j + Len(s)) - Len(s) = j
    BY <1>5
  <2>. QED BY <1>4, <1>5, <2>1
<1>. QED BY <1>4, <1>5, <1>6

LEMMA TailFacts ==
  ASSUME NEW s, IsSeq(s), s # <<>>
  PROVE  /\ IsSeq(Tail(s))
         /\ 1 \in DOMAIN s /\ Head(s) = s[1]
         /\ \A i \in DOMAIN Tail(s) : i # 0 /\ i + 1 \in DOMAIN s /\ i + 1 # 1 /\ Tail(s)[i] = s[i + 1]
         /\ \A i, j \in DOMAIN Tail(s) : i # j => i + 1 # j + 1
<1>1. PICK S : s \in Seq(S)
  BY DEF IsSeq
<1>2. /\ Tail(s) \in Seq(S)
      /\ Len(Tail(s)) = Len(s) - 1
      /\ \A i \in 1..Len(Tail(s)) : Tail(s)[i] = s[i + 1]
  BY <1>1, HeadTailProperties
<1>3. Len(s) \in Nat \ {0} /\ DOMAIN s = 1..Len(s)
  BY <1>1, EmptySeq, LenProperties
<1>4. DOMAIN Tail(s) = 1..Len(Tail(s)) /\ IsSeq(Tail(s))
  BY <1>2, LenProperties DEF IsSeq
<1>5. Head(s) = s[1]
  BY <1>1, <1>3
<1>. QED BY <1>2, <1>3, <1>4, <1>5

-----------------------------------------------------------------------------
(* The invariant.                                                          *)

Same(x, y) == x.kind = y.kind /\ x.osm = y.osm

\* A list of ways an input holds.
MemberLists == UNION {{in[i].members : i \in DOMAIN in} : in \in Inputs}
Listed(ms) == ms \in MemberLists /\ ms \in Seq(Int)

\* What is still to be read: elements that differ from one another.
QueueInv ==
  /\ IsSeq(queue)
  /\ \A i \in DOMAIN queue : queue[i].osm \in Int \ {0} /\ Listed(queue[i].members)
  /\ \A i, j \in DOMAIN queue : i # j => ~Same(queue[i], queue[j])

\* The element at hand differs from all of them; without one there is no work.
ElementInv ==
  /\ element.osm # 0 =>
       /\ element.osm \in Int /\ Listed(element.members)
       /\ \A j \in DOMAIN queue : ~Same(element, queue[j])
  /\ element = NoElement => frames = <<>> /\ out = <<>> /\ made = <<>>

\* The member lists the merge reads, those of relations with rows.
StoreInv ==
  /\ DOMAIN exported \subseteq DOMAIN members \cap Int
  /\ IsFiniteSet(DOMAIN exported) /\ IsFiniteSet(Positions)
  /\ \A r \in DOMAIN members :
       /\ Listed(members[r])
       /\ \E i \in DOMAIN rows : rows[i].kind = "relation" /\ rows[i].osm = r

\* Two kept clones of a kind differ in their suffixes if their steps do.
ClonesDiffer(k, c, d) ==
  c.suffix = d.suffix =>
    \E n, m \in ClonesOf(k) : n # m /\ SuffixAt(k, n) = c.suffix /\ SuffixAt(k, m) = c.suffix

\* The objects under transformation: which clones were kept, and where their steps stand.
FramesInv ==
  /\ IsSeq(clones)
  /\ \/ frames = <<>> /\ clones = <<>>
     \/ /\ \E b : frames = <<b>> \/ \E c : frames = <<b, c>>
        /\ out = <<>> /\ made = <<>> /\ HasKind(element.kind)
        /\ frames[1].steps = topic.pipelines[element.kind]
        /\ frames[1].at \in Nat \ {0}
        /\ \A i \in DOMAIN clones : \E n \in DOMAIN frames[1].steps :
             /\ n < frames[1].at /\ IsClone(frames[1].steps[n])
             /\ clones[i].suffix = frames[1].steps[n].suffix
        /\ \A i, j \in DOMAIN clones : i # j => ClonesDiffer(element.kind, clones[i], clones[j])
        /\ Len(frames) = 2 => /\ frames[1].at \in DOMAIN frames[1].steps
                              /\ IsClone(frames[1].steps[frames[1].at])

\* Two objects or rows of an element differ, but for what topic and relations ask for.
Apart(e, o, p) ==
  /\ SeveralRows(e.kind, e.osm)
  /\ o.suffix = p.suffix => TakenTwice(e.kind, e.osm, o.suffix)

\* The rows made and to be made of the element at hand.
MadeInv ==
  /\ IsSeq(made) /\ IsSeq(out)
  /\ made # <<>> \/ out # <<>> => HasKind(element.kind)
  /\ \A i \in DOMAIN made : Same(made[i], element) /\ made[i].id = RowId(made[i], made[i].suffix)
  /\ \A i, j \in DOMAIN made : i # j => Apart(element, made[i], made[j])
  /\ \A i, j \in DOMAIN out : i # j => Apart(element, out[i], out[j])
  /\ \A i \in DOMAIN made : \A j \in DOMAIN out : Apart(element, made[i], out[j])

\* The table's rows are of elements already read.
RowsInv ==
  /\ IsSeq(rows)
  /\ \A i \in DOMAIN rows :
       /\ HasKind(rows[i].kind)
       /\ rows[i].id = RowId(rows[i], rows[i].suffix)
       /\ element.osm # 0 => ~Same(rows[i], element)
       /\ \A j \in DOMAIN queue : ~Same(rows[i], queue[j])
  /\ \A i, j \in DOMAIN rows : i # j /\ Same(rows[i], rows[j]) => Apart(rows[i], rows[i], rows[j])

IInv == topic \in Topics /\ QueueInv /\ ElementInv /\ StoreInv /\ FramesInv /\ MadeInv /\ RowsInv

-----------------------------------------------------------------------------
(* What the actions leave alone.                                           *)

LEMMA NextKeeps == ASSUME [RowsNext]_topicVars PROVE topic' = topic
BY DEF RowsNext, topicVars, input, Probe, Read, Apply, ApplyRule, ApplyDirected, ApplyDrop, SkipScan, StartScan,
       VisitKey, StartClone, KeepClone, EndPipeline, Emit, FinishProbe, FinishElement, EndOfInput

LEMMA TransformKeeps ==
  ASSUME Apply \/ StartClone \/ KeepClone
  PROVE  UNCHANGED <<input, element, out, made, stores>> /\ frames # <<>>
<1>1. Len(<<>>) = 0
  BY EmptySeq
<1>2. CASE ApplyRule \/ ApplyDirected \/ ApplyDrop
  BY <1>2 DEF ApplyRule, ApplyDirected, ApplyDrop, Transforming, Running
<1>3. CASE SkipScan \/ StartScan \/ VisitKey
  BY <1>3 DEF SkipScan, StartScan, VisitKey, Transforming, Running
<1>4. CASE StartClone
  BY <1>4 DEF StartClone, Transforming, Running
<1>5. CASE KeepClone
  <2>1. Len(frames) = 2
    BY <1>5 DEF KeepClone, InClone
  <2>2. frames # <<>>
    BY <1>1, <2>1
  <2>. QED BY <1>5, <2>2 DEF KeepClone
<1>. QED BY <1>2, <1>3, <1>4, <1>5 DEF Apply

\* What is said of clones and suffixes depends on the topic alone.
LEMMA SameClones ==
  ASSUME topic' = topic
  PROVE  \A k, c, d : ClonesDiffer(k, c, d)' = ClonesDiffer(k, c, d)
BY DEF ClonesDiffer, ClonesOf, SuffixAt

LEMMA PipelineFacts ==
  ASSUME TopicsAreLoaded, topic \in Topics, NEW k, HasKind(k)
  PROVE  /\ Len(topic.pipelines[k]) \in Nat
         /\ DOMAIN topic.pipelines[k] = 1..Len(topic.pipelines[k])
<1>1. topic.pipelines[k] \in Seq(Range(topic.pipelines[k]))
  BY DEF TopicsAreLoaded, HasKind
<1>. QED BY <1>1, LenProperties

-----------------------------------------------------------------------------
(* Objects under transformation.                                           *)

\* A step of the top object moves that object's place in its steps and nothing else.
LEMMA TopStep ==
  ASSUME TopicsAreLoaded, topic \in Topics, FramesInv, frames # <<>>, NEW x,
         x.steps = Top.steps, x.at = Top.at \/ x.at = Top.at + 1,
         frames' = Replace(x), clones' = clones, UNCHANGED <<topic, element, out, made>>
  PROVE  FramesInv'
<1>1. PICK b : frames = <<b>> \/ \E c : frames = <<b, c>>
  BY DEF FramesInv
<1>2. CASE frames = <<b>>
  <2>1. Len(frames) = 1 /\ frames[1] = b /\ ~InClone /\ Top = b
    BY <1>2 DEF InClone, Top
  <2>2. frames' = <<x>> /\ Len(frames') = 1 /\ frames'[1] = x
    BY <2>1 DEF Replace
  <2>3. b.at \in Nat /\ x.at \in Nat \ {0} /\ x.at >= b.at /\ x.steps = b.steps
    BY <2>1 DEF FramesInv
  <2>4. \A i \in DOMAIN clones : \E n \in DOMAIN x.steps :
             /\ n < x.at /\ IsClone(x.steps[n])
             /\ clones[i].suffix = x.steps[n].suffix
    <3> SUFFICES ASSUME NEW i \in DOMAIN clones
                 PROVE  \E n \in DOMAIN x.steps : /\ n < x.at /\ IsClone(x.steps[n])
                                                  /\ clones[i].suffix = x.steps[n].suffix
      OBVIOUS
    <3>1. PICK n \in DOMAIN b.steps : /\ n < b.at /\ IsClone(b.steps[n])
                                      /\ clones[i].suffix = b.steps[n].suffix
      BY <2>1 DEF FramesInv
    <3>2. n \in Int
      BY <2>1, PipelineFacts DEF FramesInv
    <3>. QED BY <2>3, <3>1, <3>2
  <2>. QED BY <1>2, <2>1, <2>2, <2>3, <2>4, SameClones DEF FramesInv, HasKind
<1>3. ASSUME NEW c, frames = <<b, c>> PROVE FramesInv'
  <2>1. Len(frames) = 2 /\ frames[1] = b /\ InClone
    BY <1>3 DEF InClone
  <2>2. frames' = <<b, x>> /\ Len(frames') = 2 /\ frames'[1] = b
    BY <2>1 DEF Replace
  <2>. QED BY <1>3, <2>1, <2>2, SameClones DEF FramesInv, HasKind
<1>. QED BY <1>1, <1>2, <1>3

\* Starting a clone puts an object on top of one whose step is a clone.
LEMMA StartCloneStep ==
  ASSUME TopicsAreLoaded, topic \in Topics, FramesInv, StartClone
  PROVE  FramesInv'
<1>1. /\ frames # <<>> /\ Running /\ clones' = clones
      /\ UNCHANGED <<topic, element, out, made>>
  BY DEF StartClone, Transforming, Running, input
<1>2. PICK b : frames = <<b>> \/ \E c : frames = <<b, c>>
  BY <1>1 DEF FramesInv
<1>3. CASE AllHold(Step.whenever) /\ frames = <<b>>
  <2>1. Len(frames) = 1 /\ frames[1] = b /\ Top = b
    BY <1>3 DEF Top
  <2>2. b.at \in DOMAIN b.steps /\ IsClone(b.steps[b.at])
    <3>1. b.at \in Nat \ {0} /\ b.steps = topic.pipelines[element.kind] /\ HasKind(element.kind)
      BY <1>1, <2>1 DEF FramesInv
    <3>2. b.at <= Len(b.steps)
      BY <1>1, <2>1 DEF Running
    <3>3. IsClone(b.steps[b.at])
      BY <2>1 DEF StartClone, Step, IsClone
    <3>. QED BY <3>1, <3>2, <3>3, PipelineFacts
  <2>3. PICK c : frames' = <<b, c>>
    BY <1>3, <2>1 DEF StartClone
  <2>4. Len(frames') = 2 /\ frames'[1] = b
    BY <2>3
  <2>. QED BY <1>1, <2>1, <2>2, <2>3, <2>4, SameClones DEF FramesInv, HasKind
<1>4. CASE ~AllHold(Step.whenever)
  <2>1. frames' = Replace(Frame(Top.tags, Top.ann, Top.steps, Top.at + 1))
    BY <1>4 DEF StartClone, Advance
  <2>. QED BY <1>1, <2>1, TopStep DEF Frame
<1>5. ASSUME NEW c, frames = <<b, c>> PROVE FALSE
  <2>1. Len(frames) = 2
    BY <1>5
  <2>. QED BY <2>1 DEF StartClone, InClone
<1>. QED BY <1>2, <1>3, <1>4, <1>5

\* A kept clone's step comes after the steps of the clones kept before, so its suffix is new.
LEMMA KeepCloneStep ==
  ASSUME TopicsAreLoaded, topic \in Topics, FramesInv, KeepClone
  PROVE  FramesInv'
<1>1. /\ frames # <<>> /\ Len(frames) = 2
      /\ UNCHANGED <<topic, element, out, made>>
  BY TransformKeeps DEF KeepClone, InClone, input
<1>2. PICK b : frames = <<b>> \/ \E c : frames = <<b, c>>
  BY <1>1 DEF FramesInv
<1>3. frames[1] = b
  BY <1>2
<1> DEFINE kept == [tags |-> Top.tags, ann |-> Top.ann, suffix |-> b.steps[b.at].suffix]
           next == Frame(b.tags, b.ann, b.steps, b.at + 1)
<1>4. clones' = Append(clones, kept) /\ frames' = <<next>>
  BY <1>3 DEF KeepClone, EndClone
<1>5. /\ IsSeq(clones)
      /\ b.at \in Nat \ {0} /\ b.steps = topic.pipelines[element.kind] /\ HasKind(element.kind)
      /\ b.at \in DOMAIN b.steps /\ IsClone(b.steps[b.at])
      /\ out = <<>> /\ made = <<>>
  BY <1>1, <1>3 DEF FramesInv
<1>6. frames'[1] = next /\ Len(frames') = 1
  BY <1>4
<1>7. next.steps = b.steps /\ next.at = b.at + 1
  BY DEF Frame
<1>8. kept.suffix = b.steps[b.at].suffix
  OBVIOUS
<1> HIDE DEF kept, next
<1>9. /\ IsSeq(clones')
      /\ \A i \in DOMAIN clones : clones'[i] = clones[i]
      /\ clones'[Len(clones) + 1] = kept
      /\ \A i \in DOMAIN clones' : i \in DOMAIN clones \/ i = Len(clones) + 1
  BY <1>4, <1>5, AppendFacts
<1>10. \A i \in DOMAIN clones : \E n \in DOMAIN b.steps :
         /\ n < b.at /\ IsClone(b.steps[n]) /\ clones[i].suffix = b.steps[n].suffix
  BY <1>1, <1>3 DEF FramesInv
<1>11. DOMAIN b.steps \subseteq Int
  BY <1>5, PipelineFacts
<1>12. \A i \in DOMAIN clones' : \E n \in DOMAIN b.steps :
         /\ n < next.at /\ IsClone(b.steps[n]) /\ clones'[i].suffix = b.steps[n].suffix
  <2> SUFFICES ASSUME NEW i \in DOMAIN clones'
               PROVE  \E n \in DOMAIN b.steps :
                        /\ n < next.at /\ IsClone(b.steps[n]) /\ clones'[i].suffix = b.steps[n].suffix
    OBVIOUS
  <2>1. CASE i \in DOMAIN clones
    <3>1. PICK n \in DOMAIN b.steps :
            n < b.at /\ IsClone(b.steps[n]) /\ clones[i].suffix = b.steps[n].suffix
      BY <1>10, <2>1
    <3>2. n < next.at
      BY <1>5, <1>7, <1>11, <3>1
    <3>. QED BY <1>9, <2>1, <3>1, <3>2
  <2>2. CASE i = Len(clones) + 1
    <3>1. b.at < next.at
      BY <1>5, <1>7
    <3>. QED BY <1>5, <1>8, <1>9, <2>2, <3>1
  <2>. QED BY <1>9, <2>1, <2>2
<1>13. \A i \in DOMAIN clones : /\ ClonesDiffer(element.kind, clones[i], kept)
                              /\ ClonesDiffer(element.kind, kept, clones[i])
  <2> SUFFICES ASSUME NEW i \in DOMAIN clones, clones[i].suffix = kept.suffix
               PROVE  \E n, m \in ClonesOf(element.kind) :
                        n # m /\ SuffixAt(element.kind, n) = kept.suffix /\ SuffixAt(element.kind, m) = kept.suffix
    BY DEF ClonesDiffer
  <2>1. PICK n \in DOMAIN b.steps :
          n < b.at /\ IsClone(b.steps[n]) /\ clones[i].suffix = b.steps[n].suffix
    BY <1>10
  <2>2. n # b.at
    BY <1>5, <1>11, <2>1
  <2>3. n \in ClonesOf(element.kind) /\ b.at \in ClonesOf(element.kind)
    BY <1>5, <2>1 DEF ClonesOf
  <2>4. SuffixAt(element.kind, n) = kept.suffix /\ SuffixAt(element.kind, b.at) = kept.suffix
    BY <1>5, <1>8, <2>1 DEF SuffixAt
  <2>. QED BY <2>2, <2>3, <2>4
<1>14. \A i, j \in DOMAIN clones : i # j => ClonesDiffer(element.kind, clones[i], clones[j])
  BY <1>1, <1>3 DEF FramesInv
<1>15. (\A i, j \in DOMAIN clones : i # j => ClonesDiffer(element.kind, clones[i], clones[j]))'
  BY <1>1, <1>9, <1>13, <1>14, SameClones
<1>16. next.at \in Nat \ {0}
  BY <1>5, <1>7
<1>17. out' = <<>> /\ made' = <<>> /\ HasKind(element.kind)'
  BY <1>1, <1>5 DEF HasKind
<1>18. \E x : frames' = <<x>> \/ \E c : frames' = <<x, c>>
  BY <1>4
<1>19. /\ frames'[1].steps = topic'.pipelines[element'.kind]
       /\ frames'[1].at \in Nat \ {0}
       /\ ~(Len(frames') = 2)
  BY <1>1, <1>5, <1>6, <1>7, <1>16
<1>20. \A i \in DOMAIN clones' : \E n \in DOMAIN frames'[1].steps :
         /\ n < frames'[1].at /\ IsClone(frames'[1].steps[n])
         /\ clones'[i].suffix = frames'[1].steps[n].suffix
  BY <1>6, <1>7, <1>12
<1>. QED BY <1>9, <1>15, <1>17, <1>18, <1>19, <1>20 DEF FramesInv

LEMMA ApplyStep ==
  ASSUME TopicsAreLoaded, topic \in Topics, FramesInv, Apply
  PROVE  FramesInv'
<1>1. UNCHANGED <<topic, element, out, made>> /\ frames # <<>>
  BY TransformKeeps DEF input
<1>2. ASSUME NEW tags, NEW ann, frames' = Advance(tags, ann), clones' = clones
      PROVE  FramesInv'
  BY <1>1, <1>2, TopStep DEF Advance, Frame
<1>3. ASSUME NEW tags, NEW ann, frames' = Stay(tags, ann), clones' = clones
      PROVE  FramesInv'
  BY <1>1, <1>3, TopStep DEF Stay, Frame
<1>4. CASE ApplyRule
  BY <1>2, <1>4 DEF ApplyRule
<1>5. CASE ApplyDirected
  BY <1>2, <1>5 DEF ApplyDirected
<1>6. CASE SkipScan
  BY <1>2, <1>6 DEF SkipScan
<1>7. CASE StartScan
  <2>1. UNCHANGED <<frames, clones>>
    BY <1>7 DEF StartScan
  <2>. QED BY <1>1, <2>1, SameClones DEF FramesInv, HasKind
<1>8. CASE VisitKey
  <2>1. clones' = clones
    BY <1>8 DEF VisitKey
  <2>2. \E tags, ann : frames' = Advance(tags, ann) \/ frames' = Stay(tags, ann)
    BY <1>8 DEF VisitKey
  <2>. QED BY <1>2, <1>3, <2>1, <2>2
<1>9. CASE ApplyDrop
  <2>1. CASE ~Holds(Step.when, Context)
    BY <1>2, <1>9, <2>1 DEF ApplyDrop
  <2>2. CASE Holds(Step.when, Context) /\ InClone
    <3>1. PICK b : frames = <<b>> \/ \E c : frames = <<b, c>>
      BY <1>1 DEF FramesInv
    <3>2. frames[1] = b /\ Len(frames) = 2
      BY <2>2, <3>1 DEF InClone
    <3> DEFINE next == Frame(b.tags, b.ann, b.steps, b.at + 1)
    <3>3. frames' = <<next>> /\ clones' = clones
      BY <1>9, <2>2, <3>2 DEF ApplyDrop, EndClone
    <3>4. next.steps = b.steps /\ next.at = b.at + 1
      BY DEF Frame
    <3> HIDE DEF next
    <3>5. frames'[1] = next /\ Len(frames') = 1
      BY <3>3
    <3>6. /\ b.at \in Nat \ {0} /\ b.steps = topic.pipelines[element.kind] /\ HasKind(element.kind)
          /\ out = <<>> /\ made = <<>>
      BY <1>1, <3>2 DEF FramesInv
    <3>7. \A i \in DOMAIN clones : \E n \in DOMAIN next.steps :
             n < next.at /\ IsClone(next.steps[n]) /\ clones[i].suffix = next.steps[n].suffix
      <4> SUFFICES ASSUME NEW i \in DOMAIN clones
                   PROVE  \E n \in DOMAIN next.steps : /\ n < next.at /\ IsClone(next.steps[n])
                                                       /\ clones[i].suffix = next.steps[n].suffix
        OBVIOUS
      <4>1. PICK n \in DOMAIN b.steps :
              n < b.at /\ IsClone(b.steps[n]) /\ clones[i].suffix = b.steps[n].suffix
        BY <1>1, <3>2 DEF FramesInv
      <4>2. n \in Int
        BY <3>6, PipelineFacts
      <4>3. n < next.at
        BY <3>4, <3>6, <4>1, <4>2
      <4>. QED BY <3>4, <4>1, <4>3
    <3>8. /\ IsSeq(clones)
          /\ (\A i, j \in DOMAIN clones : i # j => ClonesDiffer(element.kind, clones[i], clones[j]))'
      BY <1>1, <3>3, SameClones DEF FramesInv
    <3>9. out' = <<>> /\ made' = <<>> /\ HasKind(element.kind)'
      BY <1>1, <3>6 DEF HasKind
    <3>10. \E x : frames' = <<x>> \/ \E c : frames' = <<x, c>>
      BY <3>3
    <3>11. /\ frames'[1].steps = topic'.pipelines[element'.kind]
           /\ frames'[1].at \in Nat \ {0}
           /\ ~(Len(frames') = 2)
      BY <1>1, <3>4, <3>5, <3>6
    <3>. QED BY <3>3, <3>5, <3>7, <3>8, <3>9, <3>10, <3>11 DEF FramesInv
  <2>3. CASE Holds(Step.when, Context) /\ ~InClone
    <3>1. frames' = <<>> /\ clones' = <<>>
      BY <1>9, <2>3 DEF ApplyDrop
    <3>. QED BY <3>1, EmptyIsSeq DEF FramesInv
  <2>. QED BY <2>1, <2>2, <2>3
<1>. QED BY <1>4, <1>5, <1>6, <1>7, <1>8, <1>9 DEF Apply

-----------------------------------------------------------------------------
(* The rows of one element.                                                *)

\* A list of anything over a finite range of places is a sequence.
LEMMA ListIsSeq ==
  ASSUME NEW n \in Nat, NEW T, NEW s \in [1..n -> T]
  PROVE  IsSeq(s)
<1>1. s \in Seq(T)
  BY SeqDef
<1>. QED BY <1>1 DEF IsSeq

\* The parents of a way are mentions of it, each once, in order.
LEMMA ParentListFacts ==
  ASSUME StoreInv, NEW e, NEW q \in ParentLists(e)
  PROVE  /\ IsSeq(q)
         /\ \A i \in DOMAIN q : e.kind = "way" /\ q[i] \in Mentions(e.osm)
         /\ \A i, j \in DOMAIN q : i # j => q[i] # q[j]
         /\ \A i, j \in DOMAIN q : i < j => q[i][1] <= q[j][1]
<1> DEFINE ms == IF e.kind = "way" THEN Mentions(e.osm) ELSE {}
<1>1. IsFiniteSet(ms)
  <2>1. IsFiniteSet((DOMAIN exported) \X Positions)
    BY FS_Product DEF StoreInv
  <2>2. ms \subseteq (DOMAIN exported) \X Positions
    BY DEF Mentions
  <2>. QED BY <2>1, <2>2, FS_Subset
<1>2. Cardinality(ms) \in Nat
  BY <1>1, FS_CardinalityType
<1>3. q \in [1..Cardinality(ms) -> ms] /\ \A i, j \in DOMAIN q : i < j => Before(q[i], q[j])
  BY DEF ParentLists
<1>4. ASSUME NEW m \in ms, NEW n \in ms, Before(m, n)
      PROVE  m # n /\ m[1] <= n[1]
  <2>1. /\ m[1] \in DOMAIN exported /\ n[1] \in DOMAIN exported
        /\ m[2] \in DOMAIN members[m[1]] /\ n[2] \in DOMAIN members[n[1]]
    BY DEF Mentions
  <2>2. m[1] \in Int /\ n[1] \in Int /\ members[m[1]] \in Seq(Int)
    BY <2>1 DEF StoreInv, Listed
  <2>3. m[2] \in Int
    BY <2>1, <2>2, LenProperties
  <2>. QED BY <1>4, <2>2, <2>3 DEF Before
<1>5. ASSUME NEW i \in DOMAIN q, NEW j \in DOMAIN q, i # j
      PROVE  q[i] # q[j]
  <2>1. i \in Int /\ j \in Int /\ q[i] \in ms /\ q[j] \in ms
    BY <1>2, <1>3
  <2>2. i < j \/ j < i
    BY <1>5, <2>1
  <2>3. CASE i < j
    BY <1>3, <1>4, <2>1, <2>3
  <2>4. CASE j < i
    <3>1. q[j] # q[i]
      BY <1>3, <1>4, <2>1, <2>4
    <3>. QED BY <3>1
  <2>. QED BY <2>2, <2>3, <2>4
<1>6. IsSeq(q)
  BY <1>2, <1>3, ListIsSeq
<1>7. \A i \in DOMAIN q : q[i] \in ms
  BY <1>3
<1>8. \A i, j \in DOMAIN q : i < j => q[i][1] <= q[j][1]
  BY <1>3, <1>4, <1>7
<1>9. \A i \in DOMAIN q : e.kind = "way" /\ q[i] \in Mentions(e.osm)
  BY <1>7
<1>. QED BY <1>5, <1>6, <1>8, <1>9

\* Two mentions of a way are of two relations, or of one that lists it twice.
LEMMA TwoMentions ==
  ASSUME NEW w, NEW m \in Mentions(w), NEW n \in Mentions(w), m # n, m[1] = n[1]
  PROVE  Relists(m[1], w)
<1>1. /\ m \in (DOMAIN exported) \X Positions /\ m[2] \in DOMAIN members[m[1]] /\ members[m[1]][m[2]] = w
      /\ n \in (DOMAIN exported) \X Positions /\ n[2] \in DOMAIN members[n[1]] /\ members[n[1]][n[2]] = w
  BY DEF Mentions
<1>2. m[2] # n[2]
  BY <1>1
<1>. QED BY <1>1, <1>2 DEF Relists

\* The element's own object has no suffix, or a parent relation's when it fans out.
LEMMA BaseFacts ==
  ASSUME StoreInv, NEW e, NEW q \in ParentLists(e), NEW f
  PROVE  LET o == BaseObjects(f, q)
         IN  /\ IsSeq(o)
             /\ \A i \in DOMAIN o : \/ o[i].suffix = <<>>
                                    \/ \E x \in DOMAIN members : o[i].suffix = <<"relation", x>>
             /\ \A i, j \in DOMAIN o : i # j => Apart(e, o[i], o[j])
<1> DEFINE o == BaseObjects(f, q)
<1>1. CASE q # <<>> /\ topic.mode = "fan_out"
  <2>1. o = [i \in DOMAIN q |-> Object(f.tags, {exported[q[i][1]]}, f.ann, <<"relation", q[i][1]>>)]
    BY <1>1 DEF BaseObjects
  <2>2. /\ IsSeq(q) /\ \A i, j \in DOMAIN q : i # j => q[i] # q[j]
        /\ \A i \in DOMAIN q : e.kind = "way" /\ q[i] \in Mentions(e.osm)
    BY ParentListFacts
  <2>3. Len(q) \in Nat /\ DOMAIN q = 1..Len(q)
    BY <2>2, SeqFacts
  <2>4. DOMAIN o = DOMAIN q
    BY <2>1
  <2>5. \A i \in DOMAIN o : o[i].suffix = <<"relation", q[i][1]>>
    BY <2>1 DEF Object
  <2>6. IsSeq(o)
    <3>1. o \in [1..Len(q) -> {o[i] : i \in DOMAIN q}]
      BY <2>1, <2>3
    <3>. QED BY <2>3, <3>1, ListIsSeq
  <2>7. \A i \in DOMAIN q : q[i][1] \in DOMAIN members
    BY <2>2 DEF Mentions, StoreInv
  <2>8. \A i \in DOMAIN o : \E x \in DOMAIN members : o[i].suffix = <<"relation", x>>
    BY <2>4, <2>5, <2>7
  <2>9. ASSUME NEW i \in DOMAIN o, NEW j \in DOMAIN o, i # j
        PROVE  Apart(e, o[i], o[j])
    <3>1. /\ e.kind = "way" /\ q[i] \in Mentions(e.osm) /\ q[j] \in Mentions(e.osm) /\ q[i] # q[j]
          /\ q[i][1] \in DOMAIN members
      BY <2>2, <2>4, <2>7, <2>9
    <3>2. SeveralRows(e.kind, e.osm)
      BY <1>1, <3>1 DEF SeveralRows
    <3>3. ASSUME o[i].suffix = o[j].suffix PROVE TakenTwice(e.kind, e.osm, o[i].suffix)
      <4>1. o[i].suffix = <<"relation", q[i][1]>> /\ o[j].suffix = <<"relation", q[j][1]>>
        BY <2>5
      <4>2. <<"relation", q[i][1]>>[2] = q[i][1] /\ <<"relation", q[j][1]>>[2] = q[j][1]
        OBVIOUS
      <4>3. q[i][1] = q[j][1]
        BY ONLY <3>3, <4>1, <4>2
      <4>4. Relists(q[i][1], e.osm)
        BY <3>1, <4>3, TwoMentions
      <4>. QED BY <1>1, <3>1, <4>1, <4>4 DEF TakenTwice
    <3>. QED BY <3>2, <3>3 DEF Apart
  <2>. QED BY <2>6, <2>8, <2>9
<1>2. CASE ~(q # <<>> /\ topic.mode = "fan_out")
  <2>1. \E ps : o = <<Object(f.tags, ps, f.ann, <<>>)>>
    BY <1>2 DEF BaseObjects
  <2>2. PICK x : o = <<x>> /\ x.suffix = <<>>
    BY <2>1 DEF Object
  <2>3. IsSeq(o) /\ DOMAIN o = {1} /\ o[1] = x
    BY <2>2, SingleIsSeq
  <2>. QED BY <2>2, <2>3
<1>. QED BY <1>1, <1>2

\* A clone's object has its step's suffix, which is not empty.
LEMMA CloneFacts ==
  ASSUME TopicsAreLoaded, topic \in Topics, FramesInv, frames # <<>>, NEW f
  PROVE  LET o == CloneObjects(f)
         IN  /\ IsSeq(o)
             /\ \A i \in DOMAIN o : \E n \in ClonesOf(element.kind) :
                  o[i].suffix = SuffixAt(element.kind, n) /\ o[i].suffix # <<>>
             /\ \A i, j \in DOMAIN o : i # j => ClonesDiffer(element.kind, o[i], o[j])
<1> DEFINE o == CloneObjects(f)
<1>1. /\ IsSeq(clones) /\ HasKind(element.kind)
      /\ frames[1].steps = topic.pipelines[element.kind]
      /\ \A i \in DOMAIN clones : \E n \in DOMAIN frames[1].steps :
             IsClone(frames[1].steps[n]) /\ clones[i].suffix = frames[1].steps[n].suffix
      /\ \A i, j \in DOMAIN clones : i # j => ClonesDiffer(element.kind, clones[i], clones[j])
  BY DEF FramesInv
<1>2. Len(clones) \in Nat /\ DOMAIN clones = 1..Len(clones)
  BY <1>1, SeqFacts
<1>3. o = [i \in DOMAIN clones |-> Object(clones[i].tags, {f.tags}, clones[i].ann, clones[i].suffix)]
  BY DEF CloneObjects
<1>4. DOMAIN o = DOMAIN clones /\ \A i \in DOMAIN o : o[i].suffix = clones[i].suffix
  BY <1>3 DEF Object
<1>5. IsSeq(o)
  <2>1. o \in [1..Len(clones) -> {o[i] : i \in DOMAIN clones}]
    BY <1>2, <1>3
  <2>. QED BY <1>2, <2>1, ListIsSeq
<1>6. ASSUME NEW i \in DOMAIN o
      PROVE  \E n \in ClonesOf(element.kind) :
               o[i].suffix = SuffixAt(element.kind, n) /\ o[i].suffix # <<>>
  <2>1. PICK n \in DOMAIN topic.pipelines[element.kind] :
          LET st == topic.pipelines[element.kind][n] IN IsClone(st) /\ clones[i].suffix = st.suffix
    BY <1>1, <1>4
  <2>2. topic.pipelines[element.kind][n] \in Range(topic.pipelines[element.kind])
    BY <2>1 DEF Range
  <2>3. topic.pipelines[element.kind][n].suffix # <<>>
    BY <1>1, <2>1, <2>2 DEF TopicsAreLoaded, HasKind
  <2>. QED BY <1>4, <2>1, <2>3 DEF ClonesOf, SuffixAt
<1>7. \A i, j \in DOMAIN o : i # j => ClonesDiffer(element.kind, o[i], o[j])
  BY <1>1, <1>4 DEF ClonesDiffer
<1>. QED BY <1>5, <1>6, <1>7

\* Whether two objects are apart depends on the topic and the relations with rows.
LEMMA ApartKept ==
  ASSUME UNCHANGED <<topic, members, exported>>
  PROVE  \A e, o, p : Apart(e, o, p)' = Apart(e, o, p)
BY DEF Apart, SeveralRows, TakenTwice, ClonesOf, SuffixAt, Mentions, Positions, Relists

\* More relations with rows make no two objects less apart.
LEMMA ApartGrows ==
  ASSUME topic' = topic, DOMAIN exported \subseteq DOMAIN members, DOMAIN exported \subseteq DOMAIN exported',
         \A x \in DOMAIN members : x \in DOMAIN members' /\ members'[x] = members[x]
  PROVE  \A e, o, p : Apart(e, o, p) => Apart(e, o, p)'
<1>1. Positions \subseteq Positions'
  <2>. SUFFICES ASSUME NEW x \in DOMAIN members, NEW n \in DOMAIN members[x] PROVE n \in Positions'
    BY DEF Positions
  <2>. QED BY DEF Positions
<1>2. ASSUME NEW w, NEW m \in Mentions(w) PROVE m \in Mentions(w)'
  <2>1. /\ m \in (DOMAIN exported) \X Positions
        /\ m[2] \in DOMAIN members[m[1]] /\ members[m[1]][m[2]] = w
    BY DEF Mentions
  <2>2. m[1] \in DOMAIN members /\ m \in (DOMAIN exported') \X Positions'
    BY <1>1, <2>1
  <2>3. m[2] \in DOMAIN members'[m[1]] /\ members'[m[1]][m[2]] = w
    BY <2>1, <2>2
  <2>. QED BY <2>2, <2>3 DEF Mentions
<1>3. ASSUME NEW x \in DOMAIN members, NEW w, Relists(x, w) PROVE x \in DOMAIN members' /\ Relists(x, w)'
  BY <1>3 DEF Relists
<1>4. ASSUME NEW k PROVE ClonesOf(k)' = ClonesOf(k) /\ \A n : SuffixAt(k, n)' = SuffixAt(k, n)
  BY DEF ClonesOf, SuffixAt
<1>5. ASSUME NEW k, NEW w, SeveralRows(k, w) PROVE SeveralRows(k, w)'
  BY <1>2, <1>4, <1>5 DEF SeveralRows
<1>6. ASSUME NEW k, NEW w, NEW x, TakenTwice(k, w, x) PROVE TakenTwice(k, w, x)'
  BY <1>3, <1>4, <1>6 DEF TakenTwice
<1>. QED BY <1>5, <1>6 DEF Apart

LEMMA EndPipelineStep ==
  ASSUME TopicsAreLoaded, topic \in Topics, StoreInv, FramesInv, EndPipeline
  PROVE  FramesInv' /\ MadeInv'
<1>1. /\ Len(frames) = 1
      /\ frames' = <<>> /\ clones' = <<>>
      /\ UNCHANGED <<topic, element, made>>
  BY DEF EndPipeline, input
<1>2. frames # <<>>
  <2>1. Len(<<>>) = 0
    BY EmptySeq
  <2>. QED BY <1>1, <2>1
<1>3. PICK q \in ParentLists(element) : out' = BaseObjects(Top, q) \o CloneObjects(Top)
  BY DEF EndPipeline
<1> DEFINE b == BaseObjects(Top, q)
           c == CloneObjects(Top)
<1>4. /\ IsSeq(b)
      /\ \A i \in DOMAIN b : \/ b[i].suffix = <<>>
                             \/ \E x \in DOMAIN members : b[i].suffix = <<"relation", x>>
      /\ \A i, j \in DOMAIN b : i # j => Apart(element, b[i], b[j])
  BY BaseFacts
<1>5. /\ IsSeq(c)
      /\ \A i \in DOMAIN c : \E n \in ClonesOf(element.kind) :
           c[i].suffix = SuffixAt(element.kind, n) /\ c[i].suffix # <<>>
      /\ \A i, j \in DOMAIN c : i # j => ClonesDiffer(element.kind, c[i], c[j])
  BY <1>2, CloneFacts
<1>6. out' = b \o c
  BY <1>3
<1> HIDE DEF b, c
<1>8. /\ IsSeq(out')
      /\ \A i \in DOMAIN out' :
           \/ i \in DOMAIN b /\ out'[i] = b[i]
           \/ i \notin DOMAIN b /\ i - Len(b) \in DOMAIN c /\ out'[i] = c[i - Len(b)]
  BY <1>4, <1>5, <1>6, ConcatFacts
<1>7. ASSUME NEW i \in DOMAIN c
      PROVE  SeveralRows(element.kind, element.osm)
  BY <1>5 DEF SeveralRows
<1>9. ASSUME NEW i \in DOMAIN b, NEW j \in DOMAIN c
      PROVE  Apart(element, b[i], c[j]) /\ Apart(element, c[j], b[i])
  <2>1. PICK n \in ClonesOf(element.kind) : c[j].suffix = SuffixAt(element.kind, n) /\ c[j].suffix # <<>>
    BY <1>5
  <2>2. b[i].suffix = c[j].suffix => \E x \in DOMAIN members : c[j].suffix = <<"relation", x>>
    BY <1>4, <2>1
  <2>3. b[i].suffix = c[j].suffix => TakenTwice(element.kind, element.osm, c[j].suffix)
    BY <2>1, <2>2 DEF TakenTwice
  <2>. QED BY <1>7, <2>3 DEF Apart
<1>14. ASSUME NEW i \in DOMAIN c, NEW j \in DOMAIN c, i # j
       PROVE  Apart(element, c[i], c[j])
  <2>1. c[i].suffix = c[j].suffix => TakenTwice(element.kind, element.osm, c[i].suffix)
    BY <1>5, <1>14 DEF ClonesDiffer, TakenTwice
  <2>. QED BY <1>7, <2>1 DEF Apart
<1>10. \A i, j \in DOMAIN out' : i # j => Apart(element, out'[i], out'[j])
  <2> SUFFICES ASSUME NEW i \in DOMAIN out', NEW j \in DOMAIN out', i # j
               PROVE  Apart(element, out'[i], out'[j])
    OBVIOUS
  <2>1. CASE i \in DOMAIN b /\ j \in DOMAIN b
    BY <1>4, <1>8, <2>1
  <2>2. CASE i \in DOMAIN b /\ j \notin DOMAIN b
    BY <1>8, <1>9, <2>2
  <2>3. CASE i \notin DOMAIN b /\ j \in DOMAIN b
    BY <1>8, <1>9, <2>3
  <2>4. CASE i \notin DOMAIN b /\ j \notin DOMAIN b
    <3>1. /\ i - Len(b) \in DOMAIN c /\ out'[i] = c[i - Len(b)]
          /\ j - Len(b) \in DOMAIN c /\ out'[j] = c[j - Len(b)]
      BY <1>8, <2>4
    <3>2. i \in Int /\ j \in Int /\ Len(b) \in Int
      BY <1>4, <1>8, SeqFacts
    <3>3. i - Len(b) # j - Len(b)
      BY <3>2
    <3>. QED BY <1>14, <3>1, <3>3
  <2>. QED BY <2>1, <2>2, <2>3, <2>4
<1>15. (\A i, j \in DOMAIN out : i # j => Apart(element, out[i], out[j]))'
  <2>1. UNCHANGED <<topic, members, exported>> /\ element' = element
    BY <1>1 DEF EndPipeline, stores
  <2>. QED BY <1>10, <2>1, ApartKept
<1>11. made' = <<>> /\ HasKind(element.kind)'
  BY <1>1, <1>2 DEF FramesInv, HasKind
<1>12. FramesInv'
  BY <1>1, EmptyIsSeq DEF FramesInv
<1>13. MadeInv'
  BY <1>8, <1>11, <1>15, EmptyIsSeq DEF MadeInv
<1>. QED BY <1>12, <1>13

\* The row made of an object has that object's suffix.
LEMMA EmitStep ==
  ASSUME FramesInv, MadeInv, Emit
  PROVE  FramesInv' /\ MadeInv'
<1>1. /\ out # <<>> /\ out' = Tail(out)
      /\ UNCHANGED <<topic, element, frames, clones>>
  BY DEF Emit, input
<1>2. IsSeq(out) /\ IsSeq(made) /\ HasKind(element.kind)
  BY <1>1 DEF MadeInv
<1>3. /\ IsSeq(out')
      /\ 1 \in DOMAIN out /\ Head(out) = out[1]
      /\ \A i \in DOMAIN out' : i + 1 \in DOMAIN out /\ i + 1 # 1 /\ out'[i] = out[i + 1]
      /\ \A i, j \in DOMAIN out' : i # j => i + 1 # j + 1
  BY <1>1, <1>2, TailFacts
<1>4. FramesInv'
  BY <1>1, EmptyIsSeq DEF FramesInv
<1>11. UNCHANGED <<topic, members, exported>>
  BY DEF Emit, input, stores
<1>12. \A e, o, p : Apart(e, o, p)' = Apart(e, o, p)
  BY <1>11, ApartKept
<1>5. (\A i, j \in DOMAIN out : i # j => Apart(element, out[i], out[j]))'
  BY <1>1, <1>3, <1>12 DEF MadeInv
<1>7. HasKind(element.kind)'
  BY <1>1, <1>2 DEF HasKind
<1>0. \A e, suffix : RowId(e, suffix)' = RowId(e, suffix)
  BY <1>1 DEF RowId
<1>8. CASE made' = made
  <2>1. (\A i \in DOMAIN made : Same(made[i], element) /\ made[i].id = RowId(made[i], made[i].suffix))'
    BY <1>0, <1>1, <1>8 DEF MadeInv, Same
  <2>2. (\A i \in DOMAIN made : \A j \in DOMAIN out : Apart(element, made[i], out[j]))'
    BY <1>1, <1>3, <1>8, <1>12 DEF MadeInv
  <2>3. IsSeq(made') /\ (\A i, j \in DOMAIN made : i # j => Apart(element, made[i], made[j]))'
    BY <1>1, <1>8, <1>12 DEF MadeInv
  <2>. QED BY <1>3, <1>4, <1>5, <1>7, <2>1, <2>2, <2>3 DEF MadeInv
<1>9. CASE made' # made
  <2>1. PICK row : /\ made' = Append(made, row)
                   /\ row.kind = element.kind /\ row.osm = element.osm
                   /\ row.id = RowId(element, Head(out).suffix) /\ row.suffix = Head(out).suffix
    <3> DEFINE o == Head(out)
               ctx == [obj |-> o.obj, parents |-> o.parents, ann |-> o.ann]
               cats == IF element.kind \in topic.categorized THEN Category(topic, element.kind, ctx)
                       ELSE {Uncategorized}
               row == [kind |-> element.kind, osm |-> element.osm, id |-> RowId(element, o.suffix),
                       category |-> CHOOSE c \in cats : TRUE,
                       produced |-> Produced(o, ctx), ann |-> o.ann,
                       obj |-> o.obj, parents |-> o.parents, suffix |-> o.suffix]
    <3>1. made' = IF cats = {} THEN made ELSE Append(made, row)
      BY DEF Emit
    <3>2. made' = Append(made, row)
      BY <1>9, <3>1
    <3>3. /\ row.kind = element.kind /\ row.osm = element.osm
          /\ row.id = RowId(element, o.suffix) /\ row.suffix = o.suffix
      OBVIOUS
    <3>. QED BY <3>2, <3>3
  <2>2. /\ IsSeq(made')
        /\ \A i \in DOMAIN made : made'[i] = made[i]
        /\ made'[Len(made) + 1] = row
        /\ \A i \in DOMAIN made' : i \in DOMAIN made \/ i = Len(made) + 1
    BY <1>2, <2>1, AppendFacts
  <2>3. row.suffix = out[1].suffix /\ Same(row, element) /\ row.id = RowId(row, row.suffix)
    BY <1>3, <2>1 DEF Same, RowId
  <2>4. (\A i \in DOMAIN made : Same(made[i], element) /\ made[i].id = RowId(made[i], made[i].suffix))'
    <3> SUFFICES ASSUME NEW i \in DOMAIN made'
                 PROVE  Same(made'[i], element) /\ made'[i].id = RowId(made'[i], made'[i].suffix)
      BY <1>0, <1>1 DEF Same
    <3>1. CASE i \in DOMAIN made
      BY <2>2, <3>1 DEF MadeInv
    <3>2. CASE i = Len(made) + 1
      BY <1>3, <2>2, <2>3, <3>2 DEF MadeInv
    <3>. QED BY <2>2, <3>1, <3>2
  <2>5. \A o : (Apart(element, out[1], o) <=> Apart(element, row, o)) /\ (Apart(element, o, out[1]) <=> Apart(element, o, row))
    BY <2>3 DEF Apart
  <2>6. \A i \in DOMAIN made : Apart(element, made[i], out[1])
    BY <1>3 DEF MadeInv
  <2>7. \A o, p : Apart(element, o, p) <=> Apart(element, p, o)
    BY DEF Apart
  <2>8. (\A i, j \in DOMAIN made : i # j => Apart(element, made[i], made[j]))'
    <3>1. \A i, j \in DOMAIN made : i # j => Apart(element, made[i], made[j])
      BY DEF MadeInv
    <3>2. \A i, j \in DOMAIN made' : i # j => Apart(element, made'[i], made'[j])
      BY <2>2, <2>5, <2>6, <2>7, <3>1
    <3>. QED BY <1>1, <1>12, <3>2
  <2>9. (\A i \in DOMAIN made : \A j \in DOMAIN out : Apart(element, made[i], out[j]))'
    <3>1. \A i \in DOMAIN made : \A j \in DOMAIN out : Apart(element, made[i], out[j])
      BY DEF MadeInv
    <3>2. \A j \in DOMAIN out : j # 1 => Apart(element, out[1], out[j])
      BY <1>3 DEF MadeInv
    <3>3. \A i \in DOMAIN made' : \A j \in DOMAIN out' : Apart(element, made'[i], out'[j])
      BY <1>3, <2>2, <2>5, <3>1, <3>2
    <3>. QED BY <1>1, <1>12, <3>3
  <2>. QED BY <1>3, <1>4, <1>5, <1>7, <2>2, <2>4, <2>8, <2>9 DEF MadeInv
<1>. QED BY <1>4, <1>8, <1>9

-----------------------------------------------------------------------------
(* From one element to the next.                                           *)

\* An element's pipeline starts with nothing kept and nothing made.
LEMMA StartStep ==
  ASSUME ElementInv, FramesInv, Idle, NEW e, element' = e, frames' = Started(e),
         UNCHANGED <<topic, clones, out, made>>
  PROVE  FramesInv' /\ MadeInv'
<1>1. frames = <<>> /\ out = <<>> /\ made = <<>>
  BY DEF ElementInv, Idle
<1>2. Len(<<>>) = 0 /\ clones = <<>>
  BY <1>1, EmptySeq DEF FramesInv
<1>3. MadeInv'
  BY <1>1, EmptyIsSeq DEF MadeInv
<1>4. CASE frames' = <<>>
  BY <1>2, <1>3, <1>4, EmptyIsSeq DEF FramesInv
<1>5. CASE frames' # <<>>
  <2>1. HasKind(e.kind) /\ \E ann : frames' = <<Frame(e.tags, ann, topic.pipelines[e.kind], 1)>>
    BY <1>5 DEF Started, Fresh
  <2>2. PICK b : frames' = <<b>> /\ b.steps = topic.pipelines[e.kind] /\ b.at = 1
    BY <2>1 DEF Frame
  <2>3. frames'[1] = b /\ ~(Len(frames') = 2)
    BY <2>2
  <2>4. HasKind(element.kind)'
    BY <2>1 DEF HasKind
  <2>. QED BY <1>1, <1>2, <1>3, <2>2, <2>3, <2>4, EmptyIsSeq DEF FramesInv
<1>. QED BY <1>3, <1>4, <1>5

\* The next element differs from those after it and from those whose rows are in the table.
LEMMA ReadStep ==
  ASSUME QueueInv, ElementInv, StoreInv, FramesInv, RowsInv, Read
  PROVE  QueueInv' /\ ElementInv' /\ StoreInv' /\ FramesInv' /\ MadeInv' /\ RowsInv'
<1>1. /\ Idle /\ queue # <<>> /\ queue' = Tail(queue)
      /\ element' = Head(queue) /\ frames' = Started(Head(queue))
      /\ UNCHANGED <<topic, clones, out, made, rows, members, exported>>
  BY DEF Read, stores
<1>2. FramesInv' /\ MadeInv'
  BY <1>1, StartStep
<1>3. /\ IsSeq(queue')
      /\ 1 \in DOMAIN queue /\ Head(queue) = queue[1]
      /\ \A i \in DOMAIN queue' : i + 1 \in DOMAIN queue /\ i + 1 # 1 /\ queue'[i] = queue[i + 1]
      /\ \A i, j \in DOMAIN queue' : i # j => i + 1 # j + 1
  BY <1>1, TailFacts DEF QueueInv
<1>4. QueueInv'
  BY <1>3 DEF QueueInv
<1>5. element'.osm # 0 =>
        /\ element'.osm \in Int /\ Listed(element'.members)
        /\ \A j \in DOMAIN queue' : ~Same(element', queue'[j])
  BY <1>1, <1>3 DEF QueueInv
<1>6. element' # NoElement
  <2>1. element'.osm # 0
    BY <1>1, <1>3 DEF QueueInv
  <2>. QED BY <2>1 DEF NoElement, Untagged
<1>7. ElementInv'
  BY <1>5, <1>6 DEF ElementInv
<1>8. StoreInv'
  BY <1>1 DEF StoreInv, Positions
<1>9. \A e, suffix : RowId(e, suffix)' = RowId(e, suffix)
  BY <1>1 DEF RowId
<1>10. \A k : HasKind(k)' = HasKind(k)
  BY <1>1 DEF HasKind
<1>11. \A i \in DOMAIN rows : /\ ~Same(rows[i], queue[1])
                              /\ \A j \in DOMAIN queue' : ~Same(rows[i], queue'[j])
  BY <1>3 DEF RowsInv
<1>12. (\A i \in DOMAIN rows : HasKind(rows[i].kind) /\ rows[i].id = RowId(rows[i], rows[i].suffix))'
  <2> SUFFICES ASSUME NEW i \in DOMAIN rows
               PROVE  HasKind(rows[i].kind) /\ rows[i].id = RowId(rows[i], rows[i].suffix)
    BY <1>1, <1>9, <1>10
  <2>. QED BY DEF RowsInv
<1>14. (\A i, j \in DOMAIN rows : i # j /\ Same(rows[i], rows[j]) => Apart(rows[i], rows[i], rows[j]))'
  BY <1>1, ApartKept DEF RowsInv, Same
<1>13. RowsInv'
  BY <1>1, <1>3, <1>11, <1>12, <1>14 DEF RowsInv
<1>. QED BY <1>2, <1>4, <1>7, <1>8, <1>13

LEMMA OverlayFacts ==
  ASSUME NEW k, NEW v, NEW t
  PROVE  /\ DOMAIN Overlay(One(k, v), t) = {k} \cup DOMAIN t
         /\ \A x \in DOMAIN Overlay(One(k, v), t) : Overlay(One(k, v), t)[x] = IF x = k THEN v ELSE t[x]
BY DEF Overlay, One

\* A relation is remembered with the members it lists, and with rows.
LEMMA FinishStores ==
  ASSUME ElementInv, StoreInv, MadeInv, RowsInv, FinishElement
  PROVE  /\ StoreInv'
         /\ DOMAIN exported \subseteq DOMAIN exported'
         /\ \A x \in DOMAIN members : x \in DOMAIN members' /\ members'[x] = members[x]
<1>1. element.osm \in Int /\ Listed(element.members)
  <2>1. element.osm # 0
    BY DEF FinishElement, Done, Probing
  <2>. QED BY <2>1 DEF ElementInv
<1> DEFINE relation == element.kind = "relation" /\ made # <<>>
           captured == IF relation THEN Captured(made[1].produced) ELSE Empty
<1>2. /\ members' = IF relation THEN Overlay(One(element.osm, element.members), members) ELSE members
      /\ exported' = IF DOMAIN captured = {} THEN exported
                     ELSE Overlay(One(element.osm, captured), exported)
  BY DEF FinishElement
<1>3. ~relation => DOMAIN captured = {}
  BY DEF Empty
<1> HIDE DEF relation, captured
<1>6. /\ IsSeq(rows) /\ IsSeq(made) /\ rows' = rows \o made
      /\ \A i \in DOMAIN rows : rows[i].kind # element.kind \/ rows[i].osm # element.osm
      /\ \A i \in DOMAIN made : made[i].kind = element.kind /\ made[i].osm = element.osm
  BY DEF FinishElement, Done, Probing, MadeInv, RowsInv, Same
<1>7. \A i \in DOMAIN rows : i \in DOMAIN rows' /\ rows'[i] = rows[i]
  BY <1>6, ConcatKeeps
<1>8. \A r \in DOMAIN members : \E i \in DOMAIN rows' : rows'[i].kind = "relation" /\ rows'[i].osm = r
  BY <1>7 DEF StoreInv
<1>4. CASE ~relation
  <2>1. members' = members /\ exported' = exported
    BY <1>2, <1>3, <1>4
  <2>. QED BY <1>8, <2>1 DEF StoreInv, Positions
<1>5. CASE relation
  <2>1. members' = Overlay(One(element.osm, element.members), members)
    BY <1>2, <1>5
  <2>2. /\ DOMAIN members' = {element.osm} \cup DOMAIN members
        /\ \A r \in DOMAIN members' : members'[r] = IF r = element.osm THEN element.members ELSE members[r]
    <3> DEFINE m == Overlay(One(element.osm, element.members), members)
    <3>1. /\ DOMAIN m = {element.osm} \cup DOMAIN members
          /\ \A r \in DOMAIN m : m[r] = IF r = element.osm THEN element.members ELSE members[r]
      BY DEF Overlay, One
    <3>2. members' = m
      BY <2>1
    <3> HIDE DEF m
    <3>. QED BY <3>1, <3>2
  <2>3. \A r \in DOMAIN members' : Listed(members'[r])
    BY <1>1, <2>2 DEF StoreInv
  <2>10. element.osm \notin DOMAIN members
    BY <1>5, <1>6 DEF StoreInv, relation
  <2>11. \E i \in DOMAIN rows' : rows'[i].kind = "relation" /\ rows'[i].osm = element.osm
    <3>1. element.kind = "relation" /\ made # <<>>
      BY <1>5 DEF relation
    <3>2. 1 \in DOMAIN made
      BY <1>6, <3>1, TailFacts
    <3>3. \E i \in DOMAIN rows' : rows'[i] = made[1]
      BY <1>6, <3>2, ConcatKeeps
    <3>. QED BY <1>6, <3>1, <3>2, <3>3
  <2>12. \A r \in DOMAIN members' : \E i \in DOMAIN rows' : rows'[i].kind = "relation" /\ rows'[i].osm = r
    BY <1>8, <2>2, <2>11
  <2>13. \A x \in DOMAIN members : x \in DOMAIN members' /\ members'[x] = members[x]
    BY <2>2, <2>10
  <2>4. /\ DOMAIN exported' \subseteq {element.osm} \cup DOMAIN exported
        /\ DOMAIN exported \subseteq DOMAIN exported'
    <3> DEFINE x == Overlay(One(element.osm, captured), exported)
    <3>1. DOMAIN x = {element.osm} \cup DOMAIN exported
      BY OverlayFacts
    <3>2. exported' = exported \/ exported' = x
      BY <1>2
    <3> HIDE DEF x
    <3>. QED BY <3>1, <3>2
  <2>5. IsFiniteSet(DOMAIN exported')
    <3>1. IsFiniteSet(DOMAIN exported \cup {element.osm})
      BY FS_AddElement DEF StoreInv
    <3>. QED BY <2>4, <3>1, FS_Subset
  <2>6. DOMAIN exported' \subseteq DOMAIN members' \cap Int
    BY <1>1, <2>2, <2>4 DEF StoreInv
  <2>7. Positions' \subseteq DOMAIN element.members \cup Positions
    BY <2>2 DEF Positions
  <2>8. IsFiniteSet(DOMAIN element.members)
    <3>1. DOMAIN element.members = 1..Len(element.members) /\ Len(element.members) \in Nat
      BY <1>1, LenProperties DEF Listed
    <3>. QED BY ONLY <3>1, FS_Interval
  <2>9. IsFiniteSet(Positions')
    <3>1. IsFiniteSet(DOMAIN element.members \cup Positions)
      BY <2>8, FS_Union DEF StoreInv
    <3>. QED BY <2>7, <3>1, FS_Subset
  <2>. QED BY <2>3, <2>4, <2>5, <2>6, <2>9, <2>12, <2>13 DEF StoreInv
<1>. QED BY <1>4, <1>5

\* The element's rows join the table: none of them is of an element that has rows there.
LEMMA FinishRows ==
  ASSUME QueueInv, ElementInv, StoreInv, MadeInv, RowsInv, FinishElement
  PROVE  RowsInv'
<1>1. /\ rows' = rows \o made /\ element' = NoElement
      /\ UNCHANGED <<topic, queue>>
  BY DEF FinishElement, input
<1>2. element.osm # 0 /\ element'.osm = 0
  BY <1>1 DEF FinishElement, Done, Probing, NoElement, Untagged
<1>3. /\ IsSeq(rows')
      /\ \A i \in DOMAIN rows' :
           \/ i \in DOMAIN rows /\ rows'[i] = rows[i]
           \/ i \notin DOMAIN rows /\ i - Len(rows) \in DOMAIN made /\ rows'[i] = made[i - Len(rows)]
  BY <1>1, ConcatFacts DEF RowsInv, MadeInv
<1>4. ASSUME NEW x \in DOMAIN made
      PROVE  /\ HasKind(made[x].kind)
             /\ made[x].id = RowId(made[x], made[x].suffix)
             /\ \A j \in DOMAIN queue : ~Same(made[x], queue[j])
             /\ \A i \in DOMAIN rows : ~Same(made[x], rows[i])
  <2>1. made # <<>>
    BY EmptyIsSeq
  <2>2. Same(made[x], element) /\ HasKind(element.kind)
    BY <2>1 DEF MadeInv
  <2>3. HasKind(made[x].kind)
    BY <2>2 DEF Same
  <2>4. \A j \in DOMAIN queue : ~Same(made[x], queue[j])
    BY <1>2, <2>2 DEF Same, ElementInv
  <2>5. \A i \in DOMAIN rows : ~Same(made[x], rows[i])
    BY <1>2, <2>2 DEF Same, RowsInv
  <2>. QED BY <2>3, <2>4, <2>5 DEF MadeInv
<1>5. \A e, suffix : RowId(e, suffix)' = RowId(e, suffix)
  BY <1>1 DEF RowId
<1>6. \A k : HasKind(k)' = HasKind(k)
  BY <1>1 DEF HasKind
<1>7. (\A i \in DOMAIN rows :
        /\ HasKind(rows[i].kind)
        /\ rows[i].id = RowId(rows[i], rows[i].suffix)
        /\ \A j \in DOMAIN queue : ~Same(rows[i], queue[j]))'
  <2> SUFFICES ASSUME NEW i \in DOMAIN rows'
               PROVE  /\ HasKind(rows'[i].kind)
                      /\ rows'[i].id = RowId(rows'[i], rows'[i].suffix)
                      /\ \A j \in DOMAIN queue : ~Same(rows'[i], queue[j])
    BY <1>1, <1>5, <1>6
  <2>1. CASE i \in DOMAIN rows
    <3>1. rows'[i] = rows[i]
      BY <1>3, <2>1
    <3>. QED BY <2>1, <3>1 DEF RowsInv
  <2>2. CASE i \notin DOMAIN rows
    <3>1. i - Len(rows) \in DOMAIN made /\ rows'[i] = made[i - Len(rows)]
      BY <1>3, <2>2
    <3>. QED BY <1>4, <3>1
  <2>. QED BY <2>1, <2>2
<1>9. \A e, o, p : Apart(e, o, p) => Apart(e, o, p)'
  BY <1>1, FinishStores, ApartGrows DEF StoreInv
<1>10. \A x \in DOMAIN made : Same(made[x], element)
  BY DEF MadeInv
<1>8. ASSUME NEW i \in DOMAIN rows', NEW j \in DOMAIN rows', i # j, Same(rows'[i], rows'[j])
      PROVE  Apart(rows'[i], rows'[i], rows'[j])
  <2>1. CASE i \in DOMAIN rows /\ j \in DOMAIN rows
    <3>1. rows'[i] = rows[i] /\ rows'[j] = rows[j]
      BY <1>3, <2>1
    <3>. QED BY <1>8, <2>1, <3>1 DEF RowsInv
  <2>2. CASE i \in DOMAIN rows /\ j \notin DOMAIN rows
    <3>1. rows'[i] = rows[i] /\ j - Len(rows) \in DOMAIN made /\ rows'[j] = made[j - Len(rows)]
      BY <1>3, <2>2
    <3>. QED BY <1>4, <1>8, <2>2, <3>1 DEF Same
  <2>3. CASE i \notin DOMAIN rows /\ j \in DOMAIN rows
    <3>1. rows'[j] = rows[j] /\ i - Len(rows) \in DOMAIN made /\ rows'[i] = made[i - Len(rows)]
      BY <1>3, <2>3
    <3>. QED BY <1>4, <1>8, <2>3, <3>1 DEF Same
  <2>4. CASE i \notin DOMAIN rows /\ j \notin DOMAIN rows
    <3>1. /\ i - Len(rows) \in DOMAIN made /\ rows'[i] = made[i - Len(rows)]
          /\ j - Len(rows) \in DOMAIN made /\ rows'[j] = made[j - Len(rows)]
      BY <1>3, <2>4
    <3>2. i \in Int /\ j \in Int /\ Len(rows) \in Int
      BY <1>3, SeqFacts DEF RowsInv
    <3>3. i - Len(rows) # j - Len(rows)
      BY <1>8, <3>2
    <3>4. Apart(element, rows'[i], rows'[j])
      BY <3>1, <3>3 DEF MadeInv
    <3>5. Same(rows'[i], element)
      BY <1>10, <3>1
    <3>. QED BY <3>4, <3>5 DEF Same, Apart
  <2>. QED BY <2>1, <2>2, <2>3, <2>4
<1>11. (\A i, j \in DOMAIN rows : i # j /\ Same(rows[i], rows[j]) => Apart(rows[i], rows[i], rows[j]))'
  BY <1>8, <1>9 DEF Same
<1>. QED BY <1>2, <1>3, <1>7, <1>11 DEF RowsInv

-----------------------------------------------------------------------------
(* What a step leaves alone stays as it should be.                         *)

LEMMA StoreKept ==
  ASSUME StoreInv, UNCHANGED <<members, exported, rows>>
  PROVE  StoreInv'
BY DEF StoreInv, Positions

LEMMA QueueKept ==
  ASSUME QueueInv, UNCHANGED queue
  PROVE  QueueInv'
BY DEF QueueInv

LEMMA MadeKept ==
  ASSUME MadeInv, UNCHANGED <<topic, element, out, made, members, exported>>
  PROVE  MadeInv'
<1>1. \A e, suffix : RowId(e, suffix)' = RowId(e, suffix)
  BY DEF RowId
<1>2. HasKind(element.kind)' = HasKind(element.kind)
  BY DEF HasKind
<1>3. (\A i \in DOMAIN made : Same(made[i], element) /\ made[i].id = RowId(made[i], made[i].suffix))'
  BY <1>1 DEF MadeInv, Same
<1>4. /\ (\A i, j \in DOMAIN made : i # j => Apart(element, made[i], made[j]))'
      /\ (\A i, j \in DOMAIN out : i # j => Apart(element, out[i], out[j]))'
      /\ (\A i \in DOMAIN made : \A j \in DOMAIN out : Apart(element, made[i], out[j]))'
  BY ApartKept DEF MadeInv
<1>. QED BY <1>2, <1>3, <1>4 DEF MadeInv

LEMMA RowsKept ==
  ASSUME RowsInv, UNCHANGED <<topic, queue, rows, members, exported>>, element' = element \/ element'.osm = 0
  PROVE  RowsInv'
<1>1. \A e, suffix : RowId(e, suffix)' = RowId(e, suffix)
  BY DEF RowId
<1>2. \A k : HasKind(k)' = HasKind(k)
  BY DEF HasKind
<1>3. (\A i \in DOMAIN rows :
         /\ HasKind(rows[i].kind)
         /\ rows[i].id = RowId(rows[i], rows[i].suffix)
         /\ element.osm # 0 => ~Same(rows[i], element)
         /\ \A j \in DOMAIN queue : ~Same(rows[i], queue[j]))'
  BY <1>1, <1>2 DEF RowsInv, Same
<1>4. (\A i, j \in DOMAIN rows : i # j /\ Same(rows[i], rows[j]) => Apart(rows[i], rows[i], rows[j]))'
  BY ApartKept DEF RowsInv, Same
<1>. QED BY <1>3, <1>4 DEF RowsInv, Same

\* Between two elements nothing is at hand.
LEMMA IdleStep ==
  ASSUME Done, FramesInv, MadeInv, element' = NoElement, made' = <<>>,
         UNCHANGED <<topic, frames, clones, out>>
  PROVE  ElementInv' /\ FramesInv' /\ MadeInv'
<1>1. frames = <<>> /\ out = <<>>
  BY DEF Done
<1>2. Len(<<>>) = 0
  BY EmptySeq
<1>3. clones = <<>>
  BY <1>1 DEF FramesInv
<1>4. element'.osm = 0
  BY DEF NoElement, Untagged
<1>5. ElementInv'
  BY <1>1, <1>4 DEF ElementInv
<1>6. FramesInv'
  BY <1>1, <1>3, EmptyIsSeq DEF FramesInv
<1>7. MadeInv'
  BY <1>1, EmptyIsSeq DEF MadeInv
<1>. QED BY <1>5, <1>6, <1>7

-----------------------------------------------------------------------------
(* The invariant is inductive.                                             *)

LEMMA InitHolds ==
  ASSUME DistinctElements, MembersAreWays, RowsInit
  PROVE  IInv
<1>1. topic \in Topics /\ queue \in Inputs
  BY DEF RowsInit
<1>2. queue \in Seq(Range(queue))
  BY <1>1 DEF DistinctElements
<1>3. IsSeq(queue)
  BY <1>2 DEF IsSeq
<1>4. /\ \A i \in DOMAIN queue : queue[i].osm \in Int \ {0} /\ Listed(queue[i].members)
      /\ \A i, j \in DOMAIN queue : i # j => <<queue[i].kind, queue[i].osm>> # <<queue[j].kind, queue[j].osm>>
  BY <1>1 DEF DistinctElements, MembersAreWays, Listed, MemberLists
<1>5. QueueInv
  BY <1>3, <1>4 DEF QueueInv, Same
<1>6. element = NoElement /\ element.osm = 0 /\ frames = <<>> /\ clones = <<>> /\ out = <<>> /\ made = <<>>
  BY DEF RowsInit, NoElement, Untagged
<1>7. ElementInv
  BY <1>6 DEF ElementInv
<1>8. FramesInv /\ MadeInv
  BY <1>6, EmptyIsSeq DEF FramesInv, MadeInv
<1>9. rows = <<>> /\ members = Empty /\ exported = Empty
  BY DEF RowsInit
<1>10. RowsInv
  BY <1>9, EmptyIsSeq DEF RowsInv
<1>11. DOMAIN members = {} /\ DOMAIN exported = {}
  BY <1>9 DEF Empty
<1>12. Positions = {}
  BY <1>11 DEF Positions
<1>13. StoreInv
  BY <1>11, <1>12, FS_EmptySet DEF StoreInv
<1>. QED BY <1>1, <1>5, <1>7, <1>8, <1>10, <1>13 DEF IInv

\* The steps that transform the element's objects.
LEMMA TransformStep ==
  ASSUME TopicsAreLoaded, IInv, Apply \/ StartClone \/ KeepClone
  PROVE  IInv'
<1>1. UNCHANGED <<topic, queue, element, out, made, rows, members, exported>> /\ frames # <<>>
  BY TransformKeeps DEF input, stores
<1>2. topic' \in Topics
  BY <1>1 DEF IInv
<1>3. QueueInv' /\ StoreInv' /\ MadeInv' /\ RowsInv'
  BY <1>1, QueueKept, StoreKept, MadeKept, RowsKept DEF IInv
<1>4. element # NoElement
  BY <1>1 DEF IInv, ElementInv
<1>5. ElementInv'
  BY <1>1, <1>4 DEF IInv, ElementInv
<1>6. FramesInv'
  BY ApplyStep, StartCloneStep, KeepCloneStep DEF IInv
<1>. QED BY <1>2, <1>3, <1>5, <1>6 DEF IInv

\* The steps that make the element's rows.
LEMMA BuildStep ==
  ASSUME TopicsAreLoaded, IInv, EndPipeline \/ Emit
  PROVE  IInv'
<1>1. UNCHANGED <<topic, queue, element, rows, members, exported>>
  BY DEF EndPipeline, Emit, input, stores
<1>2. topic' \in Topics
  BY <1>1 DEF IInv
<1>3. QueueInv' /\ StoreInv' /\ RowsInv'
  BY <1>1, QueueKept, StoreKept, RowsKept DEF IInv
<1>4. FramesInv' /\ MadeInv'
  BY EndPipelineStep, EmitStep DEF IInv
<1>5. frames # <<>> \/ out # <<>>
  <2>1. Len(<<>>) = 0
    BY EmptySeq
  <2>. QED BY <2>1 DEF EndPipeline, Emit
<1>6. element # NoElement
  BY <1>5 DEF IInv, ElementInv
<1>7. ElementInv'
  BY <1>1, <1>6 DEF IInv, ElementInv
<1>. QED BY <1>2, <1>3, <1>4, <1>7 DEF IInv

\* The steps of the probe.
LEMMA ProbeStep ==
  ASSUME TopicsAreLoaded, IInv, NEW k \in probes, Probe(k), k # "none"
  PROVE  IInv'
<1>1. /\ Idle /\ element' = Untagged(k) /\ frames' = Started(Untagged(k))
      /\ UNCHANGED <<topic, queue, clones, out, made, rows, members, exported>>
  BY DEF Probe, stores
<1>2. element'.osm = 0 /\ element' # NoElement
  BY <1>1 DEF Untagged, NoElement
<1>3. topic' \in Topics /\ QueueInv' /\ StoreInv' /\ RowsInv'
  BY <1>1, <1>2, QueueKept, StoreKept, RowsKept DEF IInv
<1>4. FramesInv' /\ MadeInv'
  BY <1>1, StartStep DEF IInv
<1>5. ElementInv'
  BY <1>2 DEF ElementInv
<1>. QED BY <1>3, <1>4, <1>5 DEF IInv

\* The steps that end an element.
LEMMA FinishStep ==
  ASSUME IInv, FinishProbe \/ FinishElement
  PROVE  IInv'
<1>1. /\ Done /\ element' = NoElement /\ made' = <<>>
      /\ UNCHANGED <<topic, queue, frames, clones, out>>
  BY DEF FinishProbe, FinishElement, input
<1>2. element'.osm = 0
  BY <1>1 DEF NoElement, Untagged
<1>3. topic' \in Topics /\ QueueInv'
  BY <1>1, QueueKept DEF IInv
<1>4. ElementInv' /\ FramesInv' /\ MadeInv'
  BY <1>1, IdleStep DEF IInv
<1>5. CASE FinishProbe
  <2>1. UNCHANGED <<rows, members, exported>>
    BY <1>5 DEF FinishProbe, stores
  <2>2. StoreInv' /\ RowsInv'
    BY <1>1, <1>2, <2>1, StoreKept, RowsKept DEF IInv
  <2>. QED BY <1>3, <1>4, <2>2 DEF IInv
<1>6. CASE FinishElement
  <2>1. StoreInv' /\ RowsInv'
    BY <1>6, FinishStores, FinishRows DEF IInv
  <2>. QED BY <1>3, <1>4, <2>1 DEF IInv
<1>. QED BY <1>5, <1>6

\* Only kinds the topic handles are probed.
ProbesInv == probes \subseteq Handled(topic)

LEMMA ProbesHold ==
  /\ RowsInit => ProbesInv
  /\ ProbesInv /\ [RowsNext]_topicVars => ProbesInv'
<1>1. RowsInit => ProbesInv
  BY DEF RowsInit, ProbesInv
<1>2. ASSUME [RowsNext]_topicVars PROVE probes' \subseteq probes
  BY <1>2 DEF RowsNext, topicVars, input, Probe, Read, Apply, ApplyRule, ApplyDirected, ApplyDrop, SkipScan, StartScan,
       VisitKey, StartClone, KeepClone, EndPipeline, Emit, FinishProbe, FinishElement, EndOfInput
<1>3. ASSUME ProbesInv, [RowsNext]_topicVars PROVE ProbesInv'
  <2>1. probes' \subseteq probes /\ topic' = topic
    BY <1>2, <1>3, NextKeeps
  <2>. QED BY <1>3, <2>1 DEF ProbesInv, Handled
<1>. QED BY <1>1, <1>3

LEMMA NextHolds ==
  ASSUME TopicsAreLoaded, IInv, ProbesInv, [RowsNext]_topicVars
  PROVE  IInv'
<1>1. ASSUME NEW k \in probes, Probe(k) PROVE IInv'
  <2>1. k # "none"
    BY DEF ProbesInv, IInv, TopicsAreLoaded
  <2>. QED BY <1>1, <2>1, ProbeStep
<1>2. CASE Read
  <2>1. topic' \in Topics
    BY <1>2 DEF Read, IInv
  <2>. QED BY <1>2, <2>1, ReadStep DEF IInv
<1>3. CASE Apply \/ StartClone \/ KeepClone
  BY <1>3, TransformStep
<1>4. CASE EndPipeline \/ Emit
  BY <1>4, BuildStep
<1>5. CASE FinishProbe \/ FinishElement
  BY <1>5, FinishStep
<1>6. CASE UNCHANGED topicVars
  <2>1. UNCHANGED <<topic, queue, element, frames, clones, out, made, rows, members, exported>>
    BY <1>6 DEF topicVars, input, stores
  <2>2. topic' \in Topics /\ QueueInv' /\ StoreInv' /\ MadeInv' /\ RowsInv'
    BY <2>1, QueueKept, StoreKept, MadeKept, RowsKept DEF IInv
  <2>3. ElementInv'
    BY <2>1 DEF IInv, ElementInv
  <2>4. FramesInv'
    BY <2>1, SameClones DEF IInv, FramesInv, HasKind
  <2>. QED BY <2>2, <2>3, <2>4 DEF IInv
<1>7. CASE EndOfInput
  BY <1>6, <1>7 DEF EndOfInput
<1>. QED BY <1>1, <1>2, <1>3, <1>4, <1>5, <1>6, <1>7 DEF RowsNext

-----------------------------------------------------------------------------
(* Identity.                                                               *)

LEMMA KeptApart ==
  ASSUME TopicsAreLoaded, topic \in Topics, RowsInv
  PROVE  OnlyKnownClashes
<1> SUFFICES ASSUME NEW i \in DOMAIN rows, NEW j \in DOMAIN rows, i # j, RowKey(rows[i]) = RowKey(rows[j])
             PROVE  LET r == rows[i] IN
                    IF r.kind # rows[j].kind THEN topic.idType = "id"
                    ELSE IF topic.idType = "none" THEN SeveralRows(r.kind, r.osm)
                    ELSE TakenTwice(r.kind, r.osm, r.suffix)
  BY DEF OnlyKnownClashes
<1>1. rows[i].id = RowId(rows[i], rows[i].suffix) /\ rows[j].id = RowId(rows[j], rows[j].suffix)
  BY DEF RowsInv
<1>2. Same(rows[i], rows[j]) => Apart(rows[i], rows[i], rows[j])
  BY DEF RowsInv
<1>3. topic.idType \in {"type_id", "id", "none"}
  BY DEF TopicsAreLoaded
<1>4. CASE topic.idType = "none"
  <2>1. rows[i].id = {} /\ rows[j].id = {}
    BY <1>1, <1>4 DEF RowId
  <2>2. <<rows[i].kind, rows[i].osm>> = <<rows[j].kind, rows[j].osm>>
    BY <2>1 DEF RowKey
  <2>. QED BY <1>2, <1>4, <2>2 DEF Same, Apart
<1>5. CASE topic.idType = "id"
  <2>1. /\ rows[i].id = {[base |-> <<rows[i].osm>>, suffix |-> rows[i].suffix]}
        /\ rows[j].id = {[base |-> <<rows[j].osm>>, suffix |-> rows[j].suffix]}
    BY <1>1, <1>5 DEF RowId
  <2>2. rows[i].id = rows[j].id
    BY <2>1 DEF RowKey
  <2>4. [base |-> <<rows[i].osm>>, suffix |-> rows[i].suffix] = [base |-> <<rows[j].osm>>, suffix |-> rows[j].suffix]
    BY <2>1, <2>2
  <2>5. <<rows[i].osm>> = <<rows[j].osm>> /\ rows[i].suffix = rows[j].suffix
    BY ONLY <2>4
  <2>3. rows[i].osm = rows[j].osm /\ rows[i].suffix = rows[j].suffix
    BY ONLY <2>5
  <2>. QED BY <1>2, <1>5, <2>3 DEF Same, Apart
<1>6. CASE topic.idType = "type_id"
  <2>1. /\ rows[i].id = {[base |-> <<rows[i].kind, rows[i].osm>>, suffix |-> rows[i].suffix]}
        /\ rows[j].id = {[base |-> <<rows[j].kind, rows[j].osm>>, suffix |-> rows[j].suffix]}
    BY <1>1, <1>6 DEF RowId
  <2>2. rows[i].id = rows[j].id
    BY <2>1 DEF RowKey
  <2>4. [base |-> <<rows[i].kind, rows[i].osm>>, suffix |-> rows[i].suffix]
          = [base |-> <<rows[j].kind, rows[j].osm>>, suffix |-> rows[j].suffix]
    BY <2>1, <2>2
  <2>5. <<rows[i].kind, rows[i].osm>> = <<rows[j].kind, rows[j].osm>> /\ rows[i].suffix = rows[j].suffix
    BY ONLY <2>4
  <2>3. Same(rows[i], rows[j]) /\ rows[i].suffix = rows[j].suffix
    BY ONLY <2>5 DEF Same
  <2>. QED BY <1>2, <1>6, <2>3 DEF Same, Apart
<1>. QED BY <1>3, <1>4, <1>5, <1>6

\* Whatever topics the loader lets pass, two rows have one id, or one (osm_type, osm_id) without
\* an id column, only where the topic or a kept relation asks for it: `Emit`, `BaseObjects`,
\* `CloneObjects` and `RowId` keep all other rows apart.
THEOREM RowsAreIdentified ==
  ASSUME DistinctElements, MembersAreWays, TopicsAreLoaded
  PROVE  RowsSpec => []OnlyKnownClashes
<1>1. RowsInit => IInv /\ ProbesInv
  BY InitHolds, ProbesHold
<1>2. IInv /\ ProbesInv /\ [RowsNext]_topicVars => IInv' /\ ProbesInv'
  BY NextHolds, ProbesHold
<1>3. IInv => OnlyKnownClashes
  BY KeptApart DEF IInv
<1>. QED BY <1>1, <1>2, <1>3, PTL DEF RowsSpec

\* A topic whose author keeps to what the loader does not ask, over relations that list no way
\* twice, has no two rows alike.
LEMMA CareKeepsApart ==
  ASSUME MembersListedOnce, TopicsAreLoaded, TopicsKeepApart, IInv
  PROVE  RowIdsAreUnique
<1>1. \A x \in DOMAIN members : \A w : ~Relists(x, w)
  BY DEF IInv, StoreInv, Listed, MemberLists, MembersListedOnce, ListedOnce, Relists
<1>2. ASSUME NEW k, HasKind(k), NEW n \in ClonesOf(k)
      PROVE  /\ topic.idType # "none" /\ SuffixAt(k, n)[1] # "relation"
             /\ \A m \in ClonesOf(k) \ {n} : SuffixAt(k, m) # SuffixAt(k, n)
  <2>1. /\ n \in DOMAIN topic.pipelines[k] /\ IsClone(topic.pipelines[k][n])
        /\ topic.pipelines[k][n] \in Range(topic.pipelines[k]) /\ topic \in Topics
    BY DEF ClonesOf, Range, IInv
  <2>. QED BY <1>2, <2>1 DEF TopicsKeepApart, ClonesNameNoRelation, HasKind, SuffixAt, ClonesOf
<1>3. ASSUME NEW r, HasKind(r.kind), TakenTwice(r.kind, r.osm, r.suffix) PROVE FALSE
  <2>1. ~\E x \in DOMAIN members : r.suffix = <<"relation", x>> /\ Relists(x, r.osm)
    BY <1>1
  <2>2. PICK n \in ClonesOf(r.kind) :
          /\ SuffixAt(r.kind, n) = r.suffix
          /\ \/ \E m \in ClonesOf(r.kind) \ {n} : SuffixAt(r.kind, m) = r.suffix
             \/ \E x \in DOMAIN members : r.suffix = <<"relation", x>>
    BY <1>3, <2>1 DEF TakenTwice
  <2>3. ~\E x \in DOMAIN members : r.suffix = <<"relation", x>>
    BY <1>2, <1>3, <2>2
  <2>. QED BY <1>2, <1>3, <2>2, <2>3
<1>4. ASSUME NEW r, HasKind(r.kind), topic.idType = "none", SeveralRows(r.kind, r.osm) PROVE FALSE
  BY <1>2, <1>4 DEF SeveralRows, TopicsKeepApart, IInv
<1>5. topic.idType = "id" => \A k, l : HasKind(k) /\ HasKind(l) => k = l
  BY DEF TopicsKeepApart, IInv, HasKind
<1>6. OnlyKnownClashes /\ \A i \in DOMAIN rows : HasKind(rows[i].kind)
  BY KeptApart DEF IInv, RowsInv
<1>. QED BY <1>3, <1>4, <1>5, <1>6 DEF OnlyKnownClashes, RowIdsAreUnique

\* So the unique index of the tag table can be built for a topic of careful clones, kinds and
\* ids over such relations: `tag_index_stmts` asks for no more than the rows keep.
COROLLARY CarefulRowsAreUnique ==
  ASSUME DistinctElements, MembersAreWays, MembersListedOnce, TopicsAreLoaded, TopicsKeepApart
  PROVE  RowsSpec => []RowIdsAreUnique
<1>1. RowsInit => IInv /\ ProbesInv
  BY InitHolds, ProbesHold
<1>2. IInv /\ ProbesInv /\ [RowsNext]_topicVars => IInv' /\ ProbesInv'
  BY NextHolds, ProbesHold
<1>3. IInv => RowIdsAreUnique
  BY CareKeepsApart
<1>. QED BY <1>1, <1>2, <1>3, PTL DEF RowsSpec

-----------------------------------------------------------------------------
(* What relations hand down to the ways they name.                         *)

\* The relations that name way w and export something.
ExportingParents(w) == {x \in DOMAIN exported : w \in Range(members[x])}

\* The fields these relations export; where several export one, the highest id's.
HighestWins(ps) ==
  [f \in UNION {DOMAIN exported[x] : x \in ps} |->
     LET x == CHOOSE y \in ps : /\ f \in DOMAIN exported[y]
                                /\ \A z \in ps : z > y => f \notin DOMAIN exported[z]
     IN  exported[x][f]]

\* Object or row o, if it is way w's own, was given what w's relations export.
FromParents(w, o) ==
  LET ps == ExportingParents(w)
  IN  o.suffix = <<>> \/ o.suffix[1] = "relation" =>
        /\ topic.mode = "fan_out" =>
             IF ps = {} THEN o.suffix = <<>> /\ o.parents = {}
             ELSE \E x \in ps : o.suffix = <<"relation", x>> /\ o.parents = {exported[x]}
        /\ topic.mode = "merge" => o.parents = IF ps = {} THEN {} ELSE {HighestWins(ps)}

\* After the first way no relation is read.
WayRead == (element.kind = "way" /\ element.osm # 0) \/ \E i \in DOMAIN rows : rows[i].kind = "way"

OrderInv ==
  /\ \A i, j \in DOMAIN queue : queue[i].kind = "relation" /\ queue[j].kind = "way" => i < j
  /\ WayRead => /\ \A i \in DOMAIN queue : queue[i].kind # "relation"
                /\ element.osm # 0 => element.kind # "relation"

\* A remembered relation has a row, and exports the fields its first row has.
HandInv ==
  \A x \in DOMAIN members :
    /\ \E i \in DOMAIN rows : rows[i].kind = "relation" /\ rows[i].osm = x
    /\ x \in DOMAIN exported => exported[x] = HandsDown(x) /\ DOMAIN HandsDown(x) # {}
    /\ x \notin DOMAIN exported => DOMAIN HandsDown(x) = {}

\* What a way's objects and rows were given is what its relations still export.
SeenInv ==
  /\ element.kind = "way" => /\ \A i \in DOMAIN out : FromParents(element.osm, out[i])
                             /\ \A i \in DOMAIN made : FromParents(element.osm, made[i])
  /\ \A i \in DOMAIN rows : rows[i].kind = "way" => FromParents(rows[i].osm, rows[i])

InheritInv == OrderInv /\ HandInv /\ SeenInv

LEMMA FromParentsKept ==
  ASSUME UNCHANGED <<topic, members, exported>>
  PROVE  \A w, o : FromParents(w, o)' = FromParents(w, o)
BY DEF FromParents, ExportingParents, HighestWins

LEMMA HandsDownKept ==
  ASSUME UNCHANGED <<topic, rows>>
  PROVE  \A x : HandsDown(x)' = HandsDown(x)
BY DEF HandsDown

\* A set of places in a list has a greatest one.
LEMMA GreatestPlace ==
  ASSUME NEW n \in Nat, NEW T, T \subseteq 1..n, T # {}
  PROVE  \E i \in T : \A j \in T : j <= i
<1> DEFINE R == {n - i : i \in T}
<1>1. R \subseteq Nat /\ R # {}
  OBVIOUS
<1>2. PICK r \in R : \A m \in R : r <= m
  BY <1>1, LeastNatural
<1>3. PICK i \in T : r = n - i
  OBVIOUS
<1>4. \A j \in T : n - i <= n - j
  BY <1>2, <1>3
<1>5. \A j \in T : j <= i
  BY <1>4
<1>. QED BY <1>5

\* A finite set of numbers has a greatest one.
LEMMA GreatestOfFinite ==
  ASSUME NEW T, T \subseteq Int, T # {}, IsFiniteSet(T)
  PROVE  \E x \in T : \A z \in T : ~(z > x)
<1> DEFINE Above(x) == {z \in T : z > x}
           R == {Cardinality(Above(x)) : x \in T}
<1>1. \A x \in T : IsFiniteSet(Above(x)) /\ Cardinality(Above(x)) \in Nat
  <2> SUFFICES ASSUME NEW x \in T PROVE IsFiniteSet(Above(x)) /\ Cardinality(Above(x)) \in Nat
    OBVIOUS
  <2>1. Above(x) \in SUBSET T
    OBVIOUS
  <2> HIDE DEF Above
  <2>2. IsFiniteSet(Above(x))
    BY <2>1, FS_Subset
  <2>. QED BY <2>2, FS_CardinalityType
<1>2. R \subseteq Nat /\ R # {}
  BY <1>1
<1>3. PICK r \in R : \A m \in R : r <= m
  BY <1>2, LeastNatural
<1>4. PICK x \in T : r = Cardinality(Above(x))
  OBVIOUS
<1>5. ASSUME NEW z \in T, z > x PROVE FALSE
  <2>1. x \in Int /\ z \in Int
    OBVIOUS
  <2>2. \A v \in T : v \in Int
    OBVIOUS
  <2>3. Above(z) \subseteq Above(x)
    <3> SUFFICES ASSUME NEW v \in T, v > z PROVE v > x
      OBVIOUS
    <3>. QED BY <1>5, <2>1, <2>2
  <2>4. z \in Above(x) /\ z \notin Above(z)
    BY <1>5, <2>1
  <2>5. Cardinality(Above(x)) <= Cardinality(Above(z))
    BY <1>3, <1>4
  <2> HIDE DEF Above
  <2>6. Cardinality(Above(z)) <= Cardinality(Above(x)) /\ (Cardinality(Above(x)) = Cardinality(Above(z)) => Above(x) = Above(z))
    BY <1>1, <2>3, FS_Subset
  <2>7. Cardinality(Above(x)) \in Nat /\ Cardinality(Above(z)) \in Nat
    BY ONLY <1>1, x \in T, z \in T
  <2>8. Cardinality(Above(x)) = Cardinality(Above(z))
    BY ONLY <2>5, <2>6, <2>7
  <2>9. Above(x) = Above(z)
    BY ONLY <2>6, <2>8
  <2>. QED BY ONLY <2>4, <2>9
<1>. QED BY <1>5

\* A way's list of parents names the exporting ones, in the order of their ids.
LEMMA ParentsListed ==
  ASSUME StoreInv, NEW e, e.kind = "way", NEW q \in ParentLists(e)
  PROVE  /\ Len(q) \in Nat /\ DOMAIN q = 1..Len(q)
         /\ \A i \in DOMAIN q : q[i][1] \in ExportingParents(e.osm)
         /\ \A x \in ExportingParents(e.osm) : \E i \in DOMAIN q : q[i][1] = x
         /\ \A i, j \in DOMAIN q : i < j => q[i][1] <= q[j][1]
         /\ ExportingParents(e.osm) \subseteq Int
<1> DEFINE ms == Mentions(e.osm)
<1>1. IsFiniteSet(ms) /\ Cardinality(ms) \in Nat
  <2>1. IsFiniteSet((DOMAIN exported) \X Positions)
    BY FS_Product DEF StoreInv
  <2>2. ms \subseteq (DOMAIN exported) \X Positions
    BY DEF Mentions
  <2>3. IsFiniteSet(ms)
    BY <2>1, <2>2, FS_Subset
  <2>. QED BY <2>3, FS_CardinalityType
<1>2. q \in [1..Cardinality(ms) -> ms] /\ \A i, j \in DOMAIN q : i < j => Before(q[i], q[j])
  BY DEF ParentLists
<1>3. /\ IsSeq(q) /\ \A i, j \in DOMAIN q : i # j => q[i] # q[j]
      /\ \A i, j \in DOMAIN q : i < j => q[i][1] <= q[j][1]
  BY ParentListFacts
<1>4. Len(q) \in Nat /\ DOMAIN q = 1..Len(q)
  BY <1>3, SeqFacts
<1>5. ASSUME NEW m \in ms
      PROVE  /\ m[1] \in ExportingParents(e.osm) /\ m[1] \in Int
             /\ m[1] \in DOMAIN members
  <2>1. /\ m[1] \in DOMAIN exported /\ m[2] \in DOMAIN members[m[1]]
        /\ members[m[1]][m[2]] = e.osm
    BY DEF Mentions
  <2>. QED BY <2>1 DEF ExportingParents, Range, StoreInv
<1>6. \A i \in DOMAIN q : q[i] \in ms
  BY <1>2
<1>8. q \in Surjection(1..Cardinality(ms), ms)
  <2>1. q \in Injection(1..Cardinality(ms), ms)
    <3>1. \A i, j \in 1..Cardinality(ms) : q[i] = q[j] => i = j
      BY <1>2, <1>3
    <3>. QED BY <1>2, <3>1 DEF Injection, IsInjective
  <2>2. Cardinality(1..Cardinality(ms)) = Cardinality(ms)
    BY <1>1, FS_Interval
  <2>. QED BY <1>1, <2>1, <2>2, FS_Injection
<1>9. ASSUME NEW x \in ExportingParents(e.osm)
      PROVE  (\E i \in DOMAIN q : q[i][1] = x) /\ x \in Int
  <2>1. x \in DOMAIN exported /\ x \in DOMAIN members /\ x \in Int
    BY DEF ExportingParents, StoreInv
  <2>2. PICK p \in DOMAIN members[x] : members[x][p] = e.osm
    BY DEF ExportingParents, Range
  <2>3. <<x, p>> \in ms
    BY <2>1, <2>2 DEF Mentions, Positions
  <2>4. PICK i \in 1..Cardinality(ms) : q[i] = <<x, p>>
    BY <1>8, <2>3 DEF Surjection
  <2>. QED BY <1>2, <2>1, <2>4
<1>. QED BY <1>3, <1>4, <1>5, <1>6, <1>9

\* Where several relations export a field, the last of the list has the highest id.
LEMMA MergedIs ==
  ASSUME NEW q, NEW ps, ps \subseteq Int, Len(q) \in Nat, DOMAIN q = 1..Len(q),
         \A i \in DOMAIN q : q[i][1] \in ps,
         \A x \in ps : \E i \in DOMAIN q : q[i][1] = x,
         \A i, j \in DOMAIN q : i < j => q[i][1] <= q[j][1]
  PROVE  Merged(q) = HighestWins(ps)
<1> DEFINE D == UNION {DOMAIN exported[q[i][1]] : i \in DOMAIN q}
           LastAt(f, i) == /\ f \in DOMAIN exported[q[i][1]]
                         /\ \A j \in (i + 1)..Len(q) : f \notin DOMAIN exported[q[j][1]]
           Highest(f, y) == /\ f \in DOMAIN exported[y]
                            /\ \A z \in ps : z > y => f \notin DOMAIN exported[z]
<1>1. D = UNION {DOMAIN exported[x] : x \in ps}
  OBVIOUS
<1>2. ASSUME NEW f \in D
      PROVE  exported[q[CHOOSE i \in DOMAIN q : LastAt(f, i)][1]][f] = exported[CHOOSE y \in ps : Highest(f, y)][f]
  <2> DEFINE I == {i \in DOMAIN q : f \in DOMAIN exported[q[i][1]]}
  <2>1. I \subseteq 1..Len(q) /\ I # {}
    OBVIOUS
  <2>2. PICK n \in I : \A j \in I : j <= n
    BY <2>1, GreatestPlace
  <2>3. LastAt(f, n) /\ n \in DOMAIN q
    BY <2>2
  <2>4. \A i \in DOMAIN q : LastAt(f, i) => Highest(f, q[i][1])
    <3> SUFFICES ASSUME NEW i \in DOMAIN q, LastAt(f, i), NEW z \in ps, z > q[i][1]
                 PROVE  f \notin DOMAIN exported[z]
      OBVIOUS
    <3>1. PICK j \in DOMAIN q : q[j][1] = z
      OBVIOUS
    <3>2. i \in Int /\ j \in Int /\ z \in Int
      OBVIOUS
    <3>5. q[i][1] \in Int
      <4>1. q[i][1] \in ps
        OBVIOUS
      <4>. QED BY ONLY <4>1, ps \subseteq Int
    <3>3. ~(j < i) /\ j # i
      <4>1. z > q[i][1] /\ (j < i => q[j][1] <= q[i][1])
        OBVIOUS
      <4>2. j = i => z = q[i][1]
        BY <3>1
      <4>. QED BY ONLY <3>1, <3>2, <3>5, <4>1, <4>2
    <3>4. j \in (i + 1)..Len(q)
      BY <3>2, <3>3
    <3>. QED BY <3>1, <3>4
  <2>5. \A y, z \in ps : Highest(f, y) /\ Highest(f, z) => y = z
    <3> SUFFICES ASSUME NEW y \in ps, NEW z \in ps, Highest(f, y), Highest(f, z)
                 PROVE  y = z
      OBVIOUS
    <3>1. y \in Int /\ z \in Int /\ ~(z > y) /\ ~(y > z)
      OBVIOUS
    <3>. QED BY <3>1
  <2> HIDE DEF LastAt, Highest, I
  <2> DEFINE i == CHOOSE i \in DOMAIN q : LastAt(f, i)
             y == CHOOSE y \in ps : Highest(f, y)
  <2>6. i \in DOMAIN q /\ LastAt(f, i)
    BY <2>3
  <2>7. q[i][1] \in ps /\ Highest(f, q[i][1])
    BY <2>4, <2>6
  <2>8. y \in ps /\ Highest(f, y)
    BY <2>7
  <2>. QED BY <2>5, <2>7, <2>8
<1>3. Merged(q) = [f \in D |-> exported[q[CHOOSE i \in DOMAIN q : LastAt(f, i)][1]][f]]
  BY DEF Merged
<1>4. HighestWins(ps) = [f \in D |-> exported[CHOOSE y \in ps : Highest(f, y)][f]]
  BY <1>1 DEF HighestWins
<1> HIDE DEF D, LastAt, Highest
<1>. QED BY <1>2, <1>3, <1>4

\* A way's own objects are given what its relations export.
LEMMA BaseFromParents ==
  ASSUME StoreInv, NEW e, e.kind = "way", NEW q \in ParentLists(e), NEW f
  PROVE  \A i \in DOMAIN BaseObjects(f, q) : FromParents(e.osm, BaseObjects(f, q)[i])
<1> DEFINE ps == ExportingParents(e.osm)
<1>1. /\ Len(q) \in Nat /\ DOMAIN q = 1..Len(q) /\ ps \subseteq Int
      /\ \A i \in DOMAIN q : q[i][1] \in ps
      /\ \A x \in ps : \E i \in DOMAIN q : q[i][1] = x
      /\ \A i, j \in DOMAIN q : i < j => q[i][1] <= q[j][1]
  BY ParentsListed
<1>2. IsSeq(q)
  BY ParentListFacts
<1>3. q = <<>> => ps = {}
  BY <1>1, EmptyIsSeq
<1>4. q # <<>> => ps # {}
  <2>1. PICK S : q \in Seq(S)
    BY <1>2 DEF IsSeq
  <2>2. q # <<>> => Len(q) # 0
    BY <2>1, EmptySeq
  <2>3. q # <<>> => 1 \in DOMAIN q
    BY <1>1, <2>2
  <2>. QED BY <1>1, <2>3
<1> HIDE DEF ps
<1>5. CASE q # <<>> /\ topic.mode = "fan_out"
  <2>1. BaseObjects(f, q) = [i \in DOMAIN q |-> Object(f.tags, {exported[q[i][1]]}, f.ann, <<"relation", q[i][1]>>)]
    BY <1>5 DEF BaseObjects
  <2> SUFFICES ASSUME NEW i \in DOMAIN q
               PROVE  FromParents(e.osm, Object(f.tags, {exported[q[i][1]]}, f.ann, <<"relation", q[i][1]>>))
    BY <2>1
  <2>2. q[i][1] \in ps /\ topic.mode # "merge"
    BY <1>1, <1>5
  <2>. QED BY <2>2 DEF FromParents, Object, ps
<1>6. CASE q # <<>> /\ topic.mode = "merge"
  <2>1. BaseObjects(f, q) = <<Object(f.tags, {Merged(q)}, f.ann, <<>>)>>
    BY <1>6 DEF BaseObjects
  <2>2. Merged(q) = HighestWins(ps)
    BY <1>1, MergedIs
  <2>3. FromParents(e.osm, Object(f.tags, {Merged(q)}, f.ann, <<>>))
    BY <1>4, <1>6, <2>2 DEF FromParents, Object, ps
  <2>. QED BY <2>1, <2>3, SingleIsSeq
<1>7. CASE q = <<>> \/ (topic.mode # "fan_out" /\ topic.mode # "merge")
  <2>1. BaseObjects(f, q) = <<Object(f.tags, {}, f.ann, <<>>)>>
    BY <1>7 DEF BaseObjects
  <2>2. FromParents(e.osm, Object(f.tags, {}, f.ann, <<>>))
    BY <1>3, <1>7 DEF FromParents, Object, ps
  <2>. QED BY <2>1, <2>2, SingleIsSeq
<1>. QED BY <1>5, <1>6, <1>7

-----------------------------------------------------------------------------
(* Inheritance is an invariant.                                            *)

\* A step that leaves the stores, the queue and the element alone.
LEMMA WithinElement ==
  ASSUME InheritInv, UNCHANGED <<topic, queue, element, rows, members, exported>>,
         element.kind = "way" => /\ \A i \in DOMAIN out' : FromParents(element.osm, out'[i])
                                 /\ \A i \in DOMAIN made' : FromParents(element.osm, made'[i])
  PROVE  InheritInv'
<1>1. \A w, o : FromParents(w, o)' = FromParents(w, o)
  BY FromParentsKept
<1>2. \A x : HandsDown(x)' = HandsDown(x)
  BY HandsDownKept
<1>3. OrderInv'
  BY DEF InheritInv, OrderInv, WayRead
<1>4. HandInv'
  BY <1>2 DEF InheritInv, HandInv
<1>5. (element.kind = "way" => /\ \A i \in DOMAIN out : FromParents(element.osm, out[i])
                               /\ \A i \in DOMAIN made : FromParents(element.osm, made[i]))'
  BY <1>1
<1>6. (\A i \in DOMAIN rows : rows[i].kind = "way" => FromParents(rows[i].osm, rows[i]))'
  BY <1>1 DEF InheritInv, SeenInv
<1>. QED BY <1>3, <1>4, <1>5, <1>6 DEF InheritInv, SeenInv

\* A step to another element, or to none, before anything is made of it.
LEMMA BetweenElements ==
  ASSUME InheritInv, UNCHANGED <<topic, rows, members, exported>>, out' = <<>>, made' = <<>>, OrderInv'
  PROVE  InheritInv'
<1>1. \A w, o : FromParents(w, o)' = FromParents(w, o)
  BY FromParentsKept
<1>2. \A x : HandsDown(x)' = HandsDown(x)
  BY HandsDownKept
<1>3. HandInv'
  BY <1>2 DEF InheritInv, HandInv
<1>4. (\A i \in DOMAIN rows : rows[i].kind = "way" => FromParents(rows[i].osm, rows[i]))'
  BY <1>1 DEF InheritInv, SeenInv
<1>5. SeenInv'
  BY <1>4, EmptyIsSeq DEF SeenInv
<1>. QED BY <1>3, <1>5 DEF InheritInv

LEMMA InheritInit == ASSUME RelationsFirst, RowsInit PROVE InheritInv
<1>1. queue \in Inputs /\ rows = <<>> /\ out = <<>> /\ made = <<>> /\ element.osm = 0
  BY DEF RowsInit, NoElement, Untagged
<1>2. ~WayRead
  BY <1>1, EmptyIsSeq DEF WayRead
<1>3. OrderInv
  BY <1>1, <1>2 DEF OrderInv, RelationsFirst
<1>4. DOMAIN members = {}
  BY DEF RowsInit, Empty
<1>5. HandInv
  BY <1>4 DEF HandInv
<1>6. SeenInv
  BY <1>1, EmptyIsSeq DEF SeenInv
<1>. QED BY <1>3, <1>5, <1>6 DEF InheritInv

LEMMA InheritEndPipeline ==
  ASSUME TopicsAreLoaded, ClonesNameNoRelation, IInv, InheritInv, EndPipeline PROVE InheritInv'
<1>1. UNCHANGED <<topic, queue, element, rows, members, exported, made>> /\ Len(frames) = 1
  BY DEF EndPipeline, input, stores
<1>2. frames # <<>> /\ made = <<>>
  <2>1. Len(<<>>) = 0
    BY EmptySeq
  <2>. QED BY <1>1, <2>1 DEF IInv, FramesInv
<1>3. PICK q \in ParentLists(element) : out' = BaseObjects(Top, q) \o CloneObjects(Top)
  BY DEF EndPipeline
<1> DEFINE b == BaseObjects(Top, q)
           c == CloneObjects(Top)
<1>10. /\ IsSeq(b) /\ IsSeq(c)
       /\ \A i \in DOMAIN c : \E n \in ClonesOf(element.kind) :
            c[i].suffix = SuffixAt(element.kind, n) /\ c[i].suffix # <<>>
  BY <1>2, BaseFacts, CloneFacts DEF IInv
<1>11. HasKind(element.kind) /\ topic \in Topics
  BY <1>2 DEF IInv, FramesInv
<1>12. \A n \in ClonesOf(element.kind) : SuffixAt(element.kind, n)[1] # "relation"
  BY <1>11 DEF ClonesNameNoRelation, ClonesOf, SuffixAt, HasKind, Range
<1>4. IsSeq(b) /\ IsSeq(c) /\ \A i \in DOMAIN c : c[i].suffix # <<>> /\ c[i].suffix[1] # "relation"
  BY <1>10, <1>12
<1>5. element.kind = "way" => \A i \in DOMAIN b : FromParents(element.osm, b[i])
  BY BaseFromParents DEF IInv
<1>6. \A i \in DOMAIN c : FromParents(element.osm, c[i])
  BY <1>4 DEF FromParents
<1> HIDE DEF b, c
<1>7. \A i \in DOMAIN out' : \/ i \in DOMAIN b /\ out'[i] = b[i]
                             \/ i - Len(b) \in DOMAIN c /\ out'[i] = c[i - Len(b)]
  BY <1>3, <1>4, ConcatFacts DEF b, c
<1>8. element.kind = "way" => \A i \in DOMAIN out' : FromParents(element.osm, out'[i])
  BY <1>5, <1>6, <1>7
<1>9. \A i \in DOMAIN made' : FromParents(element.osm, made'[i])
  BY <1>1, <1>2, EmptyIsSeq
<1>. QED BY <1>1, <1>8, <1>9, WithinElement

\* A row was given what its object was given.
LEMMA InheritEmit ==
  ASSUME IInv, InheritInv, Emit PROVE InheritInv'
<1>1. /\ out # <<>> /\ out' = Tail(out)
      /\ UNCHANGED <<topic, queue, element, rows, members, exported>>
  BY DEF Emit, input, stores
<1>2. IsSeq(out) /\ IsSeq(made)
  BY DEF IInv, MadeInv
<1>3. /\ 1 \in DOMAIN out /\ Head(out) = out[1]
      /\ \A i \in DOMAIN out' : i + 1 \in DOMAIN out /\ out'[i] = out[i + 1]
  BY <1>1, <1>2, TailFacts
<1>4. element.kind = "way" => /\ \A i \in DOMAIN out : FromParents(element.osm, out[i])
                              /\ \A i \in DOMAIN made : FromParents(element.osm, made[i])
  BY DEF InheritInv, SeenInv
<1>5. element.kind = "way" => \A i \in DOMAIN out' : FromParents(element.osm, out'[i])
  BY <1>3, <1>4
<1>6. CASE made' = made
  BY <1>1, <1>4, <1>5, <1>6, WithinElement
<1>7. CASE made' # made
  <2>1. PICK row : made' = Append(made, row) /\ row.suffix = Head(out).suffix /\ row.parents = Head(out).parents
    <3> DEFINE o == Head(out)
               ctx == [obj |-> o.obj, parents |-> o.parents, ann |-> o.ann]
               cats == IF element.kind \in topic.categorized THEN Category(topic, element.kind, ctx)
                       ELSE {Uncategorized}
               row == [kind |-> element.kind, osm |-> element.osm, id |-> RowId(element, o.suffix),
                       category |-> CHOOSE c \in cats : TRUE,
                       produced |-> Produced(o, ctx), ann |-> o.ann,
                       obj |-> o.obj, parents |-> o.parents, suffix |-> o.suffix]
    <3>1. made' = IF cats = {} THEN made ELSE Append(made, row)
      BY DEF Emit
    <3>2. made' = Append(made, row)
      BY <1>7, <3>1
    <3>3. row.suffix = o.suffix /\ row.parents = o.parents
      OBVIOUS
    <3>. QED BY <3>2, <3>3
  <2>2. /\ \A i \in DOMAIN made : made'[i] = made[i]
        /\ made'[Len(made) + 1] = row
        /\ \A i \in DOMAIN made' : i \in DOMAIN made \/ i = Len(made) + 1
    BY <1>2, <2>1, AppendFacts
  <2>3. FromParents(element.osm, out[1]) => FromParents(element.osm, row)
    BY <1>3, <2>1 DEF FromParents
  <2>4. element.kind = "way" => \A i \in DOMAIN made' : FromParents(element.osm, made'[i])
    BY <1>3, <1>4, <2>2, <2>3
  <2>. QED BY <1>1, <1>5, <2>4, WithinElement
<1>. QED BY <1>6, <1>7

\* After a way comes no relation.
LEMMA InheritRead ==
  ASSUME IInv, InheritInv, Read PROVE InheritInv'
<1>1. /\ Idle /\ queue # <<>> /\ queue' = Tail(queue) /\ element' = Head(queue)
      /\ UNCHANGED <<topic, out, made, rows, members, exported>>
  BY DEF Read, stores
<1>2. out' = <<>> /\ made' = <<>>
  BY <1>1 DEF IInv, ElementInv, Idle
<1>3. /\ 1 \in DOMAIN queue /\ Head(queue) = queue[1]
      /\ \A i \in DOMAIN queue' : i \in Int /\ i + 1 \in DOMAIN queue /\ i + 1 # 1 /\ queue'[i] = queue[i + 1]
  <2>1. IsSeq(queue)
    BY DEF IInv, QueueInv
  <2>2. IsSeq(queue')
    BY <1>1, <2>1, TailFacts
  <2>3. DOMAIN queue' \subseteq Int
    BY <2>2, SeqFacts
  <2>. QED BY <1>1, <2>1, <2>3, TailFacts
<1>4. \A i, j \in DOMAIN queue : queue[i].kind = "relation" /\ queue[j].kind = "way" => i < j
  BY DEF InheritInv, OrderInv
<1>5. ASSUME NEW i \in DOMAIN queue', NEW j \in DOMAIN queue', queue'[i].kind = "relation", queue'[j].kind = "way"
      PROVE  i < j
  <2>1. i + 1 < j + 1
    BY <1>3, <1>4, <1>5
  <2>. QED BY <1>3, <2>1
<1>6. ASSUME queue[1].kind = "way", NEW i \in DOMAIN queue', queue'[i].kind = "relation" PROVE FALSE
  <2>1. i + 1 < 1 /\ DOMAIN queue' = 1..Len(queue') /\ Len(queue') \in Nat
    <3>1. IsSeq(queue')
      BY <1>1, TailFacts DEF IInv, QueueInv
    <3>. QED BY <1>3, <1>4, <1>6, <3>1, SeqFacts
  <2>. QED BY <2>1
<1>7. WayRead =>  /\ \A i \in DOMAIN queue : queue[i].kind # "relation"
  BY DEF InheritInv, OrderInv
<1>8. WayRead' => /\ \A i \in DOMAIN queue' : queue'[i].kind # "relation"
                  /\ element'.kind # "relation"
  <2>1. CASE queue[1].kind = "way"
    BY <1>1, <1>3, <1>6, <2>1
  <2>2. CASE queue[1].kind # "way"
    <3>1. WayRead' => WayRead
      BY <1>1, <1>3, <2>2 DEF WayRead
    <3>. QED BY <1>1, <1>3, <1>7, <3>1
  <2>. QED BY <2>1, <2>2
<1>9. OrderInv'
  BY <1>5, <1>8 DEF OrderInv
<1>. QED BY <1>1, <1>2, <1>9, BetweenElements

\* The probe's elements are no ways of the file.
LEMMA InheritIdle ==
  ASSUME InheritInv, element'.osm = 0, out' = <<>>, made' = <<>>,
         UNCHANGED <<topic, queue, rows, members, exported>>
  PROVE  InheritInv'
<1>1. WayRead' => WayRead
  BY DEF WayRead
<1>2. OrderInv'
  BY <1>1 DEF InheritInv, OrderInv
<1>. QED BY <1>2, BetweenElements

\* A relation whose rows stay as they were hands down what it did.
LEMMA HandsDownSame ==
  ASSUME IsSeq(rows), topic' = topic, NEW x,
         \A i \in DOMAIN rows : i \in DOMAIN rows' /\ rows'[i] = rows[i],
         \A i \in DOMAIN rows' : rows'[i].kind = "relation" /\ rows'[i].osm = x => i \in DOMAIN rows
  PROVE  HandsDown(x)' = HandsDown(x)
<1> DEFINE own == {i \in DOMAIN rows : rows[i].kind = "relation" /\ rows[i].osm = x}
           first == CHOOSE i \in own : \A j \in own : i <= j
<1>1. own' = own
  OBVIOUS
<1>2. own # {} => first \in own
  <2>1. own \subseteq Nat
    BY SeqFacts
  <2>2. own # {} => \E i \in own : \A j \in own : i <= j
    BY <2>1, LeastNatural
  <2>. QED BY <2>2
<1>3. own # {} => rows'[first] = rows[first]
  BY <1>2
<1>4. HandsDown(x) = IF own = {} THEN Empty
                     ELSE [f \in topic.inherit \cap DOMAIN rows[first].produced |-> rows[first].produced[f]]
  BY DEF HandsDown
<1>5. HandsDown(x)' = IF own' = {} THEN Empty
                      ELSE [f \in topic'.inherit \cap DOMAIN rows'[first'].produced |-> rows'[first'].produced[f]]
  BY DEF HandsDown
<1>6. first' = first
  BY <1>1
<1> HIDE DEF own, first
<1>. QED BY <1>1, <1>3, <1>4, <1>5, <1>6

\* The rows of a way join the table with what they were given; a relation's first row is
\* what it hands down from then on, and no way has come before.
LEMMA InheritFinish ==
  ASSUME IInv, InheritInv, FinishElement PROVE InheritInv'
<1> DEFINE relation == element.kind = "relation" /\ made # <<>>
           captured == IF relation THEN Captured(made[1].produced) ELSE Empty
<1>1. /\ rows' = rows \o made /\ element' = NoElement /\ made' = <<>> /\ out' = <<>>
      /\ element.osm # 0 /\ UNCHANGED <<topic, queue>>
      /\ members' = IF relation THEN Overlay(One(element.osm, element.members), members) ELSE members
      /\ exported' = IF DOMAIN captured = {} THEN exported
                     ELSE Overlay(One(element.osm, captured), exported)
  BY DEF FinishElement, Done, Probing, input
<1>2. element'.osm = 0 /\ element'.kind # "way"
  BY <1>1 DEF NoElement, Untagged
<1>3. IsSeq(rows) /\ IsSeq(made)
  BY DEF IInv, RowsInv, MadeInv
<1>4. /\ Len(rows) \in Nat /\ DOMAIN rows = 1..Len(rows)
      /\ Len(made) \in Nat /\ DOMAIN made = 1..Len(made)
      /\ DOMAIN rows' = 1..(Len(rows) + Len(made))
      /\ \A i \in DOMAIN rows' :
           \/ i \in DOMAIN rows /\ rows'[i] = rows[i]
           \/ i \notin DOMAIN rows /\ i - Len(rows) \in DOMAIN made /\ rows'[i] = made[i - Len(rows)]
  <2>1. Len(rows) \in Nat /\ DOMAIN rows = 1..Len(rows)
    BY ONLY <1>3, SeqFacts
  <2>2. Len(made) \in Nat /\ DOMAIN made = 1..Len(made)
    BY ONLY <1>3, SeqFacts
  <2>3. rows' = rows \o made
    BY <1>1
  <2>4. DOMAIN (rows \o made) = 1..(Len(rows) + Len(made))
    BY ONLY <1>3, ConcatFacts
  <2>5. \A i \in DOMAIN (rows \o made) :
          \/ i \in DOMAIN rows /\ (rows \o made)[i] = rows[i]
          \/ i \notin DOMAIN rows /\ i - Len(rows) \in DOMAIN made /\ (rows \o made)[i] = made[i - Len(rows)]
    BY ONLY <1>3, ConcatFacts
  <2>. QED BY ONLY <2>1, <2>2, <2>3, <2>4, <2>5
<1>5. \A i \in DOMAIN rows : i \in DOMAIN rows' /\ rows'[i] = rows[i]
  <2>1. \A i \in DOMAIN rows : i \in DOMAIN rows'
    BY <1>4
  <2>. QED BY <1>4, <2>1
<1>6. \A j \in DOMAIN made : made[j].kind = element.kind /\ made[j].osm = element.osm
  BY DEF IInv, MadeInv, Same
<1>7. \A i \in DOMAIN rows : ~(rows[i].kind = element.kind /\ rows[i].osm = element.osm)
  BY <1>1 DEF IInv, RowsInv, Same
<1>8. OrderInv'
  <2>1. WayRead' => WayRead
    BY <1>1, <1>2, <1>4, <1>6 DEF WayRead
  <2>. QED BY <1>1, <1>2, <2>1 DEF InheritInv, OrderInv
<1>9. \A x : ~(relation /\ x = element.osm) => HandsDown(x)' = HandsDown(x)
  <2> SUFFICES ASSUME NEW x, ~(relation /\ x = element.osm) PROVE HandsDown(x)' = HandsDown(x)
    OBVIOUS
  <2>1. ASSUME NEW i \in DOMAIN rows', rows'[i].kind = "relation", rows'[i].osm = x
        PROVE  i \in DOMAIN rows
    <3>1. ASSUME i \notin DOMAIN rows PROVE FALSE
      <4>1. i - Len(rows) \in DOMAIN made /\ rows'[i] = made[i - Len(rows)]
        BY <1>4, <3>1
      <4>2. element.kind = "relation" /\ element.osm = x
        BY <1>6, <2>1, <4>1
      <4>3. made # <<>>
        BY <4>1, EmptyIsSeq
      <4>. QED BY <4>2, <4>3
    <3>. QED BY <3>1
  <2>. QED BY <1>1, <1>3, <1>5, <2>1, HandsDownSame
<1>10. CASE ~relation
  <2>1. members' = members /\ exported' = exported
    <3>1. DOMAIN captured = {}
      BY <1>10 DEF Empty
    <3>. QED BY <1>1, <1>10, <3>1
  <2>2. \A w, o : FromParents(w, o)' = FromParents(w, o)
    BY <1>1, <2>1, FromParentsKept
  <2>3. HandInv'
    <3> SUFFICES ASSUME NEW x \in DOMAIN members
                 PROVE  /\ \E i \in DOMAIN rows' : rows'[i].kind = "relation" /\ rows'[i].osm = x
                        /\ x \in DOMAIN exported => exported[x] = HandsDown(x)' /\ DOMAIN HandsDown(x)' # {}
                        /\ x \notin DOMAIN exported => DOMAIN HandsDown(x)' = {}
      BY <2>1 DEF HandInv
    <3>1. HandsDown(x)' = HandsDown(x)
      BY <1>9, <1>10
    <3>. QED BY <1>5, <3>1 DEF InheritInv, HandInv
  <2>4. ASSUME NEW i \in DOMAIN rows', rows'[i].kind = "way"
        PROVE  FromParents(rows'[i].osm, rows'[i])
    <3>1. CASE i \in DOMAIN rows
      BY <1>5, <2>4, <3>1 DEF InheritInv, SeenInv
    <3>2. CASE i \notin DOMAIN rows
      <4>1. i - Len(rows) \in DOMAIN made /\ rows'[i] = made[i - Len(rows)]
        BY <1>4, <3>2
      <4>2. element.kind = "way" /\ rows'[i].osm = element.osm
        BY <1>6, <2>4, <4>1
      <4>. QED BY <4>1, <4>2 DEF InheritInv, SeenInv
    <3>. QED BY <3>1, <3>2
  <2>5. SeenInv'
    BY <1>2, <2>2, <2>4 DEF SeenInv
  <2>. QED BY <1>8, <2>3, <2>5 DEF InheritInv
<1>11. CASE relation
  <2>0. PICK e : e = element.osm
    OBVIOUS
  <2>1. ~WayRead
    BY <1>1, <1>11 DEF InheritInv, OrderInv
  <2>2. \A i \in DOMAIN rows' : rows'[i].kind # "way"
    BY <1>4, <1>6, <1>11, <2>1 DEF WayRead
  <2>3. SeenInv'
    BY <1>2, <2>2 DEF SeenInv
  <2>4. e \notin DOMAIN members /\ e \notin DOMAIN exported
    <3>1. e \notin DOMAIN members
      BY <1>7, <1>11, <2>0 DEF InheritInv, HandInv
    <3>. QED BY <3>1 DEF IInv, StoreInv
  <2>5. /\ DOMAIN members' = {e} \cup DOMAIN members
    <3>1. members' = Overlay(One(e, element.members), members)
      BY <1>1, <1>11, <2>0
    <3>. QED BY <3>1, OverlayFacts
  <2>6. 1 \in DOMAIN made
    <3>1. PICK S : made \in Seq(S)
      BY <1>3 DEF IsSeq
    <3>2. Len(made) # 0
      BY <1>11, <3>1, EmptySeq
    <3>. QED BY <1>4, <3>2
  <2>7. /\ Len(rows) + 1 \in DOMAIN rows' /\ Len(rows) + 1 \notin DOMAIN rows
        /\ rows'[Len(rows) + 1] = made[1]
    <3>1. Len(rows) + 1 \in DOMAIN rows' /\ Len(rows) + 1 \notin DOMAIN rows
      BY <1>4, <2>6
    <3>2. rows'[Len(rows) + 1] = made[(Len(rows) + 1) - Len(rows)]
      BY <1>4, <3>1
    <3>3. (Len(rows) + 1) - Len(rows) = 1
      BY <1>4
    <3>. QED BY <3>1, <3>2, <3>3
  <2>8. HandsDown(e)' = captured
    <3> DEFINE own == {i \in DOMAIN rows' : rows'[i].kind = "relation" /\ rows'[i].osm = e}
               first == CHOOSE i \in own : \A j \in own : i <= j
    <3>1. Len(rows) + 1 \in own
      BY <1>6, <1>11, <2>0, <2>6, <2>7
    <3>2. \A j \in own : j \in Nat /\ Len(rows) + 1 <= j
      <4> SUFFICES ASSUME NEW j \in own PROVE j \in Nat /\ Len(rows) + 1 <= j
        OBVIOUS
      <4>1. j \notin DOMAIN rows
        BY <1>5, <1>7, <1>11, <2>0
      <4>. QED BY <1>4, <4>1
    <3>3. first = Len(rows) + 1
      <4> HIDE DEF own
      <4>1. first \in own /\ \A j \in own : first <= j
        BY <3>1, <3>2
      <4>. QED BY <1>4, <3>1, <3>2, <4>1
    <3>4. HandsDown(e)' = IF own = {} THEN Empty
                          ELSE [f \in topic'.inherit \cap DOMAIN rows'[first].produced |-> rows'[first].produced[f]]
      BY DEF HandsDown
    <3> HIDE DEF own, first
    <3>5. HandsDown(e)' = [f \in topic.inherit \cap DOMAIN made[1].produced |-> made[1].produced[f]]
      BY <1>1, <2>7, <3>1, <3>3, <3>4
    <3>. QED BY <1>11, <3>5 DEF Captured
  <2>9. /\ DOMAIN captured = {} => exported' = exported
        /\ DOMAIN captured # {} => /\ DOMAIN exported' = {e} \cup DOMAIN exported
                                   /\ exported'[e] = captured
                                   /\ \A x \in DOMAIN exported : x # e => exported'[x] = exported[x]
    <3> HIDE DEF captured
    <3>1. DOMAIN captured = {} => exported' = exported
      BY <1>1
    <3>2. DOMAIN captured # {} => exported' = Overlay(One(e, captured), exported)
      BY <1>1, <2>0
    <3>3. DOMAIN Overlay(One(e, captured), exported) = {e} \cup DOMAIN exported
      BY OverlayFacts
    <3>4. Overlay(One(e, captured), exported)[e] = captured
      BY <3>3, OverlayFacts
    <3>5. \A x \in DOMAIN exported : x # e => Overlay(One(e, captured), exported)[x] = exported[x]
      <4> SUFFICES ASSUME NEW x \in DOMAIN exported, x # e
                   PROVE  Overlay(One(e, captured), exported)[x] = exported[x]
        OBVIOUS
      <4>1. x \in DOMAIN Overlay(One(e, captured), exported)
        BY <3>3
      <4>2. Overlay(One(e, captured), exported)[x] = IF x = e THEN captured ELSE exported[x]
        BY <4>1 DEF Overlay, One
      <4>. QED BY <4>2
    <3>. QED BY ONLY <3>1, <3>2, <3>3, <3>4, <3>5
  <2> HIDE DEF captured
  <2>10. ASSUME NEW x \in DOMAIN members'
         PROVE  /\ \E i \in DOMAIN rows' : rows'[i].kind = "relation" /\ rows'[i].osm = x
                /\ x \in DOMAIN exported' => exported'[x] = HandsDown(x)' /\ DOMAIN HandsDown(x)' # {}
                /\ x \notin DOMAIN exported' => DOMAIN HandsDown(x)' = {}
    <3>1. CASE x = e
      <4>1. \E i \in DOMAIN rows' : rows'[i].kind = "relation" /\ rows'[i].osm = x
        BY <1>6, <1>11, <2>0, <2>6, <2>7, <3>1
      <4>2. HandsDown(x)' = captured
        BY <2>8, <3>1
      <4>. QED BY <2>4, <2>9, <3>1, <4>1, <4>2
    <3>2. CASE x # e
      <4>1. x \in DOMAIN members
        BY <2>5, <3>2
      <4>2. HandsDown(x)' = HandsDown(x)
        BY <1>9, <2>0, <3>2
      <4>3. /\ \E i \in DOMAIN rows : rows[i].kind = "relation" /\ rows[i].osm = x
            /\ x \in DOMAIN exported => exported[x] = HandsDown(x) /\ DOMAIN HandsDown(x) # {}
            /\ x \notin DOMAIN exported => DOMAIN HandsDown(x) = {}
        BY <4>1 DEF InheritInv, HandInv
      <4>4. \E i \in DOMAIN rows' : rows'[i].kind = "relation" /\ rows'[i].osm = x
        BY <1>5, <4>3
      <4>5. (x \in DOMAIN exported' <=> x \in DOMAIN exported) /\ (x \in DOMAIN exported => exported'[x] = exported[x])
        BY <2>9, <3>2
      <4>. QED BY <4>2, <4>3, <4>4, <4>5
    <3>. QED BY <3>1, <3>2
  <2>11. HandInv'
    BY <2>10 DEF HandInv
  <2>. QED BY <1>8, <2>3, <2>11 DEF InheritInv
<1>. QED BY <1>10, <1>11

LEMMA InheritNext ==
  ASSUME TopicsAreLoaded, ClonesNameNoRelation, IInv, InheritInv, [RowsNext]_topicVars
  PROVE  InheritInv'
<1>1. ASSUME NEW k \in probes, Probe(k) PROVE InheritInv'
  <2>1. /\ Idle /\ element' = Untagged(k)
        /\ UNCHANGED <<topic, queue, out, made, rows, members, exported>>
    BY <1>1 DEF Probe, stores
  <2>2. out' = <<>> /\ made' = <<>> /\ element'.osm = 0
    BY <2>1 DEF IInv, ElementInv, Idle, Untagged
  <2>. QED BY <2>1, <2>2, InheritIdle
<1>2. CASE Apply \/ StartClone \/ KeepClone \/ UNCHANGED topicVars
  <2>1. UNCHANGED <<topic, queue, element, out, made, rows, members, exported>>
    BY <1>2, TransformKeeps DEF topicVars, input, stores
  <2>. QED BY <2>1, WithinElement DEF InheritInv, SeenInv
<1>3. CASE FinishProbe
  <2>1. /\ out = <<>> /\ made' = <<>> /\ element' = NoElement
        /\ UNCHANGED <<topic, queue, out, rows, members, exported>>
    BY <1>3 DEF FinishProbe, Done, stores
  <2>2. element'.osm = 0
    BY <2>1 DEF NoElement, Untagged
  <2>. QED BY <2>1, <2>2, InheritIdle
<1>. QED BY <1>1, <1>2, <1>3, InheritRead, InheritEndPipeline, InheritEmit, InheritFinish DEF RowsNext, EndOfInput

\* Each row of a way that is its own was given what the rows of the way's relations hand down:
\* `capture` of the first row and `parents_for` agree, for every topic and every input in which
\* relations come first.
LEMMA GivenByRows ==
  ASSUME StoreInv, InheritInv
  PROVE  InheritedFromItsRelations
<1> SUFFICES ASSUME NEW i \in DOMAIN rows, rows[i].kind = "way",
                    rows[i].suffix = <<>> \/ rows[i].suffix[1] = "relation"
             PROVE  LET r == rows[i]
                        parents == {x \in DOMAIN members : r.osm \in Range(members[x]) /\ DOMAIN HandsDown(x) # {}}
                    IN  /\ topic.mode = "fan_out" =>
                             IF parents = {} THEN r.suffix = <<>> /\ r.parents = {}
                             ELSE \E x \in parents : r.suffix = <<"relation", x>> /\ r.parents = {HandsDown(x)}
                        /\ topic.mode = "merge" =>
                             r.parents = IF parents = {} THEN {}
                               ELSE {[f \in UNION {DOMAIN HandsDown(x) : x \in parents} |->
                                       LET x == CHOOSE y \in parents :
                                                  /\ f \in DOMAIN HandsDown(y)
                                                  /\ \A z \in parents : z > y => f \notin DOMAIN HandsDown(z)
                                       IN  HandsDown(x)[f]]}
  BY DEF InheritedFromItsRelations
<1> DEFINE r == rows[i]
           ps == ExportingParents(r.osm)
           parents == {x \in DOMAIN members : r.osm \in Range(members[x]) /\ DOMAIN HandsDown(x) # {}}
           merged == [f \in UNION {DOMAIN HandsDown(x) : x \in parents} |->
                       LET x == CHOOSE y \in parents :
                                  /\ f \in DOMAIN HandsDown(y)
                                  /\ \A z \in parents : z > y => f \notin DOMAIN HandsDown(z)
                       IN  HandsDown(x)[f]]
<1>1. parents = ps
  BY DEF ExportingParents, StoreInv, InheritInv, HandInv
<1>2. \A x \in ps : HandsDown(x) = exported[x]
  BY DEF ExportingParents, StoreInv, InheritInv, HandInv
<1>3. FromParents(r.osm, r)
  BY DEF InheritInv, SeenInv
<1>4. merged = HighestWins(ps)
  <2> HIDE DEF parents, ps, r
  <2> DEFINE top(f) == CHOOSE y \in ps : /\ f \in DOMAIN exported[y]
                                         /\ \A z \in ps : z > y => f \notin DOMAIN exported[z]
             high(f) == CHOOSE y \in ps : /\ f \in DOMAIN HandsDown(y)
                                          /\ \A z \in ps : z > y => f \notin DOMAIN HandsDown(z)
  <2>1. \A f : high(f) = top(f)
    BY <1>2
  <2>2. UNION {DOMAIN HandsDown(x) : x \in ps} = UNION {DOMAIN exported[x] : x \in ps}
    BY <1>2
  <2>3. ASSUME NEW f \in UNION {DOMAIN exported[x] : x \in ps}
        PROVE  HandsDown(top(f))[f] = exported[top(f)][f]
    <3> DEFINE T == {y \in ps : f \in DOMAIN exported[y]}
    <3>1. T # {} /\ T \subseteq Int /\ IsFiniteSet(T)
      <4>1. T \subseteq DOMAIN exported /\ T \subseteq Int
        BY DEF ps, ExportingParents, StoreInv
      <4>2. IsFiniteSet(T)
        BY <4>1, FS_Subset DEF StoreInv
      <4>. QED BY <4>1, <4>2
    <3>2. PICK y \in T : \A z \in T : ~(z > y)
      BY <3>1, GreatestOfFinite
    <3>3. top(f) \in ps
      BY <3>2
    <3>. QED BY <1>2, <3>3
  <2>4. merged = [f \in UNION {DOMAIN HandsDown(x) : x \in ps} |-> HandsDown(high(f))[f]]
    BY <1>1
  <2>5. HighestWins(ps) = [f \in UNION {DOMAIN exported[x] : x \in ps} |-> exported[top(f)][f]]
    BY DEF HighestWins
  <2> HIDE DEF merged, top, high
  <2>. QED BY <2>1, <2>2, <2>3, <2>4, <2>5
<1>. QED BY <1>1, <1>2, <1>3, <1>4 DEF FromParents

\* A way's own rows were evaluated against what its relations' rows say, for any topic and any
\* input that meets its relations first.
THEOREM WaysInherit ==
  ASSUME DistinctElements, MembersAreWays, TopicsAreLoaded, ClonesNameNoRelation, RelationsFirst
  PROVE  RowsSpec => []InheritedFromItsRelations
<1>1. RowsInit => IInv /\ ProbesInv /\ InheritInv
  BY InitHolds, ProbesHold, InheritInit
<1>2. IInv /\ ProbesInv /\ InheritInv /\ [RowsNext]_topicVars => IInv' /\ ProbesInv' /\ InheritInv'
  BY NextHolds, ProbesHold, InheritNext
<1>3. IInv /\ InheritInv => InheritedFromItsRelations
  BY GivenByRows DEF IInv
<1>. QED BY <1>1, <1>2, <1>3, PTL DEF RowsSpec

-----------------------------------------------------------------------------
(* Keys.                                                                   *)

\* The key a name has under a prefix and an infix.
Key(p, x, s) == (<<p>> \o x) \o s

LEMMA KeyFacts ==
  ASSUME NEW p \in Words, NEW x \in Seq(Words), NEW s \in Seq(Words)
  PROVE  /\ Key(p, x, s) \in Keys
         /\ Len(<<p>> \o x) = Len(x) + 1 /\ Len(Key(p, x, s)) = Len(x) + 1 + Len(s)
         /\ Key(p, x, s)[1] = p
         /\ IsPrefix(<<p>> \o x, Key(p, x, s))
         /\ SubSeq(Key(p, x, s), Len(x) + 2, Len(Key(p, x, s))) = s
<1>. DEFINE full == <<p>> \o x
            k == Key(p, x, s)
<1>1. /\ <<p>> \in Seq(Words) /\ Len(<<p>>) = 1 /\ <<p>>[1] = p
      /\ Len(x) \in Nat /\ Len(s) \in Nat
  BY LenProperties
<1>2. /\ full \in Seq(Words) /\ Len(full) = Len(x) + 1
      /\ \A i \in 1..(1 + Len(x)) : full[i] = IF i <= 1 THEN <<p>>[i] ELSE x[i - 1]
  BY <1>1, ConcatProperties
<1>3. full[1] = p
  BY <1>1, <1>2
<1>4. /\ k \in Seq(Words) /\ Len(k) = Len(full) + Len(s)
      /\ \A i \in 1..(Len(full) + Len(s)) : k[i] = IF i <= Len(full) THEN full[i] ELSE s[i - Len(full)]
  BY <1>2, ConcatProperties DEF Key
<1>5. Len(k) = Len(x) + 1 + Len(s) /\ k[1] = p /\ k # <<>>
  BY <1>1, <1>2, <1>3, <1>4, EmptySeq
<1>6. SubSeq(full, 1, Len(full)) = SubSeq(k, 1, Len(full))
  <2>1. k = full \o s
    BY DEF Key
  <2>2. 1 \in 1..Len(full) /\ Len(full) \in 1..Len(full)
    BY <1>1, <1>2
  <2>. QED BY <1>2, <2>1, <2>2, SubSeqOfConcat1
<1>7. SubSeq(k, Len(x) + 2, Len(k)) = s
  <2>1. CASE s = <<>>
    <3>1. Len(s) = 0 /\ Len(k) < Len(x) + 2 /\ Len(x) + 2 \in Int /\ Len(k) \in Int
      BY <1>1, <1>5, <2>1, EmptySeq
    <3>. QED BY <2>1, <3>1, SubSeqEmpty
  <2>2. CASE s # <<>>
    <3>1. Len(s) >= 1
      BY <1>1, <2>2, EmptySeq
    <3>2. k = full \o s /\ Len(full) + Len(s) = Len(k)
      BY <1>4 DEF Key
    <3>3. Len(x) + 2 \in (Len(full) + 1)..(Len(full) + Len(s)) /\ Len(k) \in (Len(full) + 1)..(Len(full) + Len(s))
      BY <1>1, <1>2, <1>4, <3>1
    <3>4. SubSeq(k, Len(x) + 2, Len(k)) = SubSeq(s, Len(x) + 2 - Len(full), Len(k) - Len(full))
      BY <1>2, <3>2, <3>3, SubSeqOfConcat2
    <3>5. Len(x) + 2 - Len(full) = 1 /\ Len(k) - Len(full) = Len(s)
      BY <1>1, <1>2, <1>4
    <3>. QED BY <3>4, <3>5, SubSeqFull
  <2>. QED BY <2>1, <2>2
<1>. QED BY <1>2, <1>4, <1>5, <1>6, <1>7 DEF IsPrefix, Keys

LEMMA SubKey ==
  ASSUME NEW k \in Keys, NEW n \in Nat \ {0}
  PROVE  SubSeq(k, n, Len(k)) \in Seq(Words)
<1>1. k \in Seq(Words) /\ Len(k) \in Nat /\ \A i \in n..Len(k) : k[i] \in Words
  BY LenProperties, ElementOfSeq DEF Keys
<1>. QED BY <1>1, SubSeqProperties

\* A key is its prefix, its infix and its suffix.
LEMMA KeyIs ==
  ASSUME NEW p \in Words, NEW x \in Seq(Words), NEW k \in Keys, IsPrefix(<<p>> \o x, k)
  PROVE  /\ SubSeq(k, Len(x) + 2, Len(k)) \in Seq(Words)
         /\ k = Key(p, x, SubSeq(k, Len(x) + 2, Len(k)))
<1>. DEFINE full == <<p>> \o x
<1>1. /\ k \in Seq(Words) /\ Len(k) \in Nat /\ Len(x) \in Nat
      /\ full \in Seq(Words) /\ Len(full) = Len(x) + 1
  <2>1. <<p>> \in Seq(Words) /\ Len(<<p>>) = 1
    OBVIOUS
  <2>. QED BY <2>1, LenProperties, ConcatProperties DEF Keys
<1>2. Len(full) <= Len(k) /\ SubSeq(full, 1, Len(full)) = SubSeq(k, 1, Len(full))
  BY DEF IsPrefix
<1>3. SubSeq(k, 1, Len(full)) = full
  BY <1>1, <1>2, SubSeqFull
<1>4. SubSeq(k, 1, Len(full)) \o SubSeq(k, Len(full) + 1, Len(k)) = SubSeq(k, 1, Len(k))
  <2>1. 1 \in 1..(Len(k) + 1) /\ Len(full) \in (1 - 1)..Len(k) /\ Len(k) \in Len(full)..Len(k)
    BY <1>1, <1>2
  <2>. QED BY <1>1, <2>1, ConcatAdjacentSubSeq
<1>5. SubSeq(k, 1, Len(k)) = k
  BY <1>1, SubSeqFull
<1>6. Len(full) + 1 = Len(x) + 2
  BY <1>1
<1>7. SubSeq(k, Len(x) + 2, Len(k)) \in Seq(Words)
  BY <1>1, SubKey
<1>. QED BY <1>3, <1>4, <1>5, <1>6, <1>7 DEF Key

\* The infixes of a side, in the order its clone unnests them.
Infixes(side) == <<<<>>, <<"both">>, <<side>>>>
AnyInfix == {<<>>} \cup {<<y>> : y \in Sides}

LEMMA InfixFacts ==
  ASSUME NEW side \in {"left", "right"}, NEW j \in 1..3
  PROVE  /\ Infixes(side)[j] \in AnyInfix /\ Infixes(side)[j] \in Seq(Words)
         /\ Infixes(side)[j] = <<>> \/ \E y \in {"both", side} : Infixes(side)[j] = <<y>> /\ y \in Sides
<1>1. "both" \in Words /\ "left" \in Words /\ "right" \in Words /\ side \in Sides /\ "both" \in Sides
  BY SidesAreWords DEF Sides
<1>2. Infixes(side)[1] = <<>> /\ Infixes(side)[2] = <<"both">> /\ Infixes(side)[3] = <<side>>
  BY DEF Infixes
<1>3. <<>> \in Seq(Words) /\ <<"both">> \in Seq(Words) /\ <<side>> \in Seq(Words)
  BY <1>1
<1>4. j = 1 \/ j = 2 \/ j = 3
  OBVIOUS
<1>. QED BY <1>1, <1>2, <1>3, <1>4 DEF AnyInfix

LEMMA AnyInfixFacts ==
  ASSUME NEW x \in AnyInfix
  PROVE  x \in Seq(Words) /\ (x = <<>> \/ \E y \in Sides : x = <<y>>)
<1>1. Sides \subseteq Words
  BY SidesAreWords DEF Sides
<1>2. ASSUME NEW y \in Sides PROVE <<y>> \in Seq(Words)
  BY <1>1
<1>3. <<>> \in Seq(Words)
  OBVIOUS
<1>. QED BY <1>2, <1>3 DEF AnyInfix

-----------------------------------------------------------------------------
(* What is said of a side.                                                 *)

\* The key a side object holds a name under.
Name(p, s) == IF s = <<>> THEN <<p>> ELSE s

\* What tags hold under a key, over what else holds there.
Layer(P, k, below) == IF k \in DOMAIN P THEN {P[k]} ELSE below

\* What j passes over the tags P have said under a name.
SaidBy(P, p, side, s, j) ==
  LET bare == Layer(P, Key(p, <<>>, s), {})
      both == Layer(P, Key(p, <<"both">>, s), bare)
  IN  IF j = 0 THEN {} ELSE IF j = 1 THEN bare ELSE IF j = 2 THEN both
      ELSE Layer(P, Key(p, <<side>>, s), both)

\* A name that only one key of a pass, and no other step, writes.
Undisputed(P, p, kind, s) ==
  /\ s \in Seq(Words)
  /\ s = <<>> => \A x \in AnyInfix : Key(p, x, <<p>>) \notin DOMAIN P
  /\ s # <<>> => s # <<p>> /\ s[1] \notin Sides
  /\ OnlyUnnested(kind, Name(p, s))

\* After j passes, and with keys of the next one still to come.
Passed(P, tags, p, side, kind, j) ==
  \A s : Undisputed(P, p, kind, s) => Got(tags, Name(p, s)) = SaidBy(P, p, side, s, j)

Passing(P, tags, p, side, kind, j, keys) ==
  \A s : Undisputed(P, p, kind, s) =>
    LET k == Key(p, Infixes(side)[j], s)
    IN  Got(tags, Name(p, s)) = IF k \in DOMAIN P /\ k \notin keys THEN {P[k]} ELSE SaidBy(P, p, side, s, j - 1)

\* A name that begins with a side comes from a key with two of them.
OfItsSide(P, tags, p, side) ==
  \A k \in DOMAIN tags : k[1] \in Sides => \E x \in {"both", side} : Key(p, <<x>>, k) \in DOMAIN P

\* An object of a side says what its way does.
SideTruth(P, tags, ann, kind) ==
  "_prefix" \in DOMAIN ann =>
    LET p == ann["_prefix"] IN
    /\ p \in Words \ Sides /\ Side(ann) \in {"left", "right"} /\ DOMAIN P \subseteq Keys
    /\ Passed(P, tags, p, Side(ann), kind, 3) /\ OfItsSide(P, tags, p, Side(ann))

LEMMA SaidByPass ==
  ASSUME NEW P, NEW p, NEW side, NEW s, NEW j \in 1..3
  PROVE  SaidBy(P, p, side, s, j) = Layer(P, Key(p, Infixes(side)[j], s), SaidBy(P, p, side, s, j - 1))
<1>1. Infixes(side)[1] = <<>> /\ Infixes(side)[2] = <<"both">> /\ Infixes(side)[3] = <<side>>
  BY DEF Infixes
<1>2. j = 1 \/ j = 2 \/ j = 3
  OBVIOUS
<1>. QED BY <1>1, <1>2 DEF SaidBy

\* What one matched key writes: its value under its name, and companions, whose names are disputed.
LEMMA UnnestedIs ==
  ASSUME NEW P, DOMAIN P \subseteq Keys, NEW step, WritesKeys(step), step.do = "unnest",
         NEW k \in Matches(P, step)
  PROVE  LET u == Unnested(P, k, step) IN
         /\ k = Key(step.prefix, step.infix, Suffix(k, step)) /\ Suffix(k, step) \in Seq(Words)
         /\ Dest(k, step) \in DOMAIN u /\ DOMAIN u \subseteq Keys
         /\ \A d \in DOMAIN u : d # Dest(k, step) => d[1] \in step.meta
         /\ Dest(k, step)[1] \notin step.meta => u[Dest(k, step)] = P[k]
<1>1. /\ step.prefix \in Words /\ step.infix \in Seq(Words) /\ step.meta \subseteq Words
      /\ k \in Keys /\ IsPrefix(<<step.prefix>> \o step.infix, k)
  BY DEF WritesKeys, Matches
<1>2. k = Key(step.prefix, step.infix, Suffix(k, step)) /\ Suffix(k, step) \in Seq(Words)
  BY <1>1, KeyIs DEF Suffix
<1>. DEFINE present == {m \in step.meta : <<m>> \o k \in DOMAIN P}
            written == {<<Dest(k, step), P[k]>>}
                       \cup {<<<<m>> \o Suffix(k, step), P[<<m>> \o k]>> : m \in present}
            u == Unnested(P, k, step)
<1>3. u = [d \in {w[1] : w \in written} |-> (CHOOSE w \in written : w[1] = d)[2]]
  BY DEF Unnested
<1>4. Dest(k, step) \in Keys
  <2>1. CASE Suffix(k, step) = <<>>
    <3>1. <<step.prefix>> \in Seq(Words) /\ <<step.prefix>> # <<>>
      BY <1>1
    <3>. QED BY <2>1, <3>1 DEF Dest, Keys
  <2>2. CASE Suffix(k, step) # <<>>
    BY <1>2, <2>2 DEF Dest, Keys
  <2>. QED BY <2>1, <2>2
<1>5. ASSUME NEW m \in present
      PROVE  <<m>> \o Suffix(k, step) \in Keys /\ (<<m>> \o Suffix(k, step))[1] = m /\ m \in step.meta
  <2>1. /\ m \in step.meta /\ <<m>> \in Seq(Words) /\ Len(<<m>>) = 1 /\ <<m>>[1] = m
        /\ Len(Suffix(k, step)) \in Nat
    BY <1>1, <1>2, LenProperties
  <2> DEFINE c == <<m>> \o Suffix(k, step)
  <2>2. /\ c \in Seq(Words) /\ Len(c) = 1 + Len(Suffix(k, step))
        /\ \A i \in 1..(1 + Len(Suffix(k, step))) : c[i] = IF i <= 1 THEN <<m>>[i] ELSE Suffix(k, step)[i - 1]
    BY <1>2, <2>1, ConcatProperties
  <2>3. c[1] = m
    BY <2>1, <2>2
  <2>4. c # <<>>
    BY <2>1, <2>2, EmptySeq
  <2>. QED BY <2>1, <2>2, <2>3, <2>4 DEF Keys
<1>6. \A w \in written : w = <<Dest(k, step), P[k]>> \/ (w[1] \in Keys /\ w[1][1] \in step.meta)
  <2>1. ASSUME NEW m \in present, NEW w, w = <<<<m>> \o Suffix(k, step), P[<<m>> \o k]>>
        PROVE  w[1] \in Keys /\ w[1][1] \in step.meta
    BY <1>5, <2>1
  <2>. QED BY <2>1
<1>7. <<Dest(k, step), P[k]>> \in written
  OBVIOUS
<1>. HIDE DEF written
<1>8. DOMAIN u = {w[1] : w \in written}
  BY <1>3
<1>9. Dest(k, step) \in DOMAIN u
  <2>1. <<Dest(k, step), P[k]>>[1] = Dest(k, step)
    OBVIOUS
  <2>. QED BY <1>7, <1>8, <2>1
<1>10. DOMAIN u \subseteq Keys /\ \A d \in DOMAIN u : d # Dest(k, step) => d[1] \in step.meta
  <2>. SUFFICES ASSUME NEW w \in written
                PROVE  w[1] \in Keys /\ (w[1] # Dest(k, step) => w[1][1] \in step.meta)
    BY <1>8
  <2>. QED BY <1>4, <1>6
<1>11. ASSUME Dest(k, step)[1] \notin step.meta PROVE u[Dest(k, step)] = P[k]
  <2>1. \A w \in written : w[1] = Dest(k, step) => w = <<Dest(k, step), P[k]>>
    BY <1>6, <1>11
  <2>2. <<Dest(k, step), P[k]>>[1] = Dest(k, step) /\ <<Dest(k, step), P[k]>>[2] = P[k]
    OBVIOUS
  <2>3. (CHOOSE w \in written : w[1] = Dest(k, step)) = <<Dest(k, step), P[k]>>
    BY <1>7, <2>1, <2>2
  <2>4. u[Dest(k, step)] = (CHOOSE w \in written : w[1] = Dest(k, step))[2]
    BY <1>3, <1>9
  <2>. QED BY <2>2, <2>3, <2>4
<1>. QED BY <1>2, <1>9, <1>10, <1>11

\* A step of a side's clone that unnests under its prefix, of the kinds of a topic's clones.
UnnestsAt(step, p, x, kind) ==
  /\ step.do = "unnest" /\ WritesKeys(step) /\ step.prefix = p /\ step.infix = x
  /\ step.meta \cap Sides = {} /\ step.meta \subseteq Companions(kind)

\* An undisputed name is matched under its key.
LEMMA MatchesKey ==
  ASSUME NEW P, DOMAIN P \subseteq Keys, NEW p \in Words \ Sides, NEW x \in AnyInfix, NEW kind,
         NEW step, UnnestsAt(step, p, x, kind), NEW s, Undisputed(P, p, kind, s)
  PROVE  Key(p, x, s) \in DOMAIN P <=> Key(p, x, s) \in Matches(P, step)
<1>. DEFINE k == Key(p, x, s)
<1>1. x \in Seq(Words) /\ s \in Seq(Words)
  BY AnyInfixFacts DEF Undisputed
<1>2. IsPrefix(<<p>> \o x, k)
  BY <1>1, KeyFacts
<1>3. ASSUME x = <<>>, Len(k) > 1 PROVE k[2] \notin Sides
  <2>1. Len(<<>>) = 0 /\ Len(k) = Len(x) + 1 + Len(s) /\ Len(s) \in Nat
    BY <1>1, KeyFacts, EmptySeq, LenProperties
  <2>2. s # <<>> /\ Len(s) >= 1
    BY <1>3, <2>1
  <2>3. s[1] \notin Sides
    BY <2>2 DEF Undisputed
  <2>4. k[2] = s[1]
    <3>1. /\ <<p>> \in Seq(Words) /\ Len(<<p>>) = 1
      OBVIOUS
    <3>2. <<p>> \o x = <<p>>
      BY <1>3, <3>1, ConcatEmptySeq
    <3>3. \A i \in 1..(1 + Len(s)) : (<<p>> \o s)[i] = IF i <= 1 THEN <<p>>[i] ELSE s[i - 1]
      BY <1>1, <3>1, ConcatProperties
    <3>4. k = <<p>> \o s
      BY <3>2 DEF Key
    <3>5. 2 \in 1..(1 + Len(s))
      BY <2>1, <2>2
    <3>. QED BY <3>3, <3>4, <3>5
  <2>. QED BY <2>3, <2>4
<1>. QED BY <1>2, <1>3 DEF Matches, UnnestsAt

\* A matched key writes an undisputed name if and only if it is that name's key.
LEMMA UnnestedName ==
  ASSUME NEW P, DOMAIN P \subseteq Keys, NEW p \in Words \ Sides, NEW x \in AnyInfix, NEW kind,
         NEW step, UnnestsAt(step, p, x, kind), NEW k \in Matches(P, step),
         NEW s, Undisputed(P, p, kind, s)
  PROVE  LET u == Unnested(P, k, step) IN
         /\ Name(p, s) \in DOMAIN u <=> k = Key(p, x, s)
         /\ k = Key(p, x, s) => u[Name(p, s)] = P[k]
<1>. DEFINE u == Unnested(P, k, step)
            t == Suffix(k, step)
<1>1. /\ x \in Seq(Words) /\ s \in Seq(Words) /\ step.do = "unnest" /\ WritesKeys(step)
      /\ step.prefix = p /\ step.infix = x /\ k \in DOMAIN P
  BY AnyInfixFacts DEF Undisputed, UnnestsAt, Matches
<1>2. /\ k = Key(p, x, t) /\ t \in Seq(Words) /\ Dest(k, step) \in DOMAIN u
      /\ \A d \in DOMAIN u : d # Dest(k, step) => d[1] \in step.meta
      /\ Dest(k, step)[1] \notin step.meta => u[Dest(k, step)] = P[k]
  BY <1>1, UnnestedIs
<1>3. Name(p, s)[1] \notin step.meta
  BY DEF Undisputed, OnlyUnnested, UnnestsAt
<1>4. Dest(k, step) = Name(p, t)
  BY <1>1 DEF Dest, Name
<1>5. Name(p, s) \in DOMAIN u <=> Name(p, s) = Name(p, t)
  BY <1>2, <1>3, <1>4
<1>6. Name(p, s) = Name(p, t) <=> s = t
  <2>1. CASE s = <<>>
    <3>1. t # <<p>>
      BY <1>1, <1>2, <2>1 DEF Undisputed
    <3>. QED BY <2>1, <3>1 DEF Name
  <2>2. CASE s # <<>>
    BY <2>2 DEF Name, Undisputed
  <2>. QED BY <2>1, <2>2
<1>7. k = Key(p, x, s) <=> s = t
  <2>1. ASSUME k = Key(p, x, s) PROVE s = t
    <3>1. SubSeq(k, Len(x) + 2, Len(k)) = s
      BY <1>1, <2>1, KeyFacts
    <3>. QED BY <1>1, <3>1 DEF Suffix
  <2>. QED BY <1>2, <2>1
<1>8. s = t => u[Name(p, s)] = P[k]
  BY <1>2, <1>3, <1>4
<1>. QED BY <1>5, <1>6, <1>7, <1>8

LEMMA GotOverlay ==
  ASSUME NEW over, NEW tags, NEW name
  PROVE  Got(Overlay(over, tags), name) = Layer(over, name, Got(tags, name))
BY DEF Got, Overlay, Layer

\* A pass begins with all its keys to come.
LEMMA PassBegins ==
  ASSUME NEW P, DOMAIN P \subseteq Keys, NEW tags, NEW p \in Words \ Sides, NEW side \in {"left", "right"},
         NEW kind, NEW j \in 1..3, NEW step, UnnestsAt(step, p, Infixes(side)[j], kind),
         Passed(P, tags, p, side, kind, j - 1)
  PROVE  Passing(P, tags, p, side, kind, j, Matches(P, step))
<1>. SUFFICES ASSUME NEW s, Undisputed(P, p, kind, s)
              PROVE  LET k == Key(p, Infixes(side)[j], s)
                     IN  Got(tags, Name(p, s)) = IF k \in DOMAIN P /\ k \notin Matches(P, step) THEN {P[k]}
                                                 ELSE SaidBy(P, p, side, s, j - 1)
  BY DEF Passing
<1>1. Infixes(side)[j] \in AnyInfix
  BY InfixFacts
<1>2. Key(p, Infixes(side)[j], s) \in DOMAIN P <=> Key(p, Infixes(side)[j], s) \in Matches(P, step)
  BY <1>1, MatchesKey
<1>. QED BY <1>2 DEF Passed

\* Each key of a pass takes its own name on, in whatever order they come.
LEMMA PassVisits ==
  ASSUME NEW P, DOMAIN P \subseteq Keys, NEW tags, NEW p \in Words \ Sides, NEW side \in {"left", "right"},
         NEW kind, NEW j \in 1..3, NEW step, UnnestsAt(step, p, Infixes(side)[j], kind),
         NEW keys, NEW k \in Matches(P, step), Passing(P, tags, p, side, kind, j, keys),
         NEW left, \A l : l \in left <=> l \in keys /\ l # k
  PROVE  Passing(P, Overlay(Unnested(P, k, step), tags), p, side, kind, j, left)
<1>. DEFINE over == Overlay(Unnested(P, k, step), tags)
<1>. SUFFICES ASSUME NEW s, Undisputed(P, p, kind, s)
              PROVE  LET l == Key(p, Infixes(side)[j], s)
                     IN  Got(over, Name(p, s)) = IF l \in DOMAIN P /\ l \notin left THEN {P[l]}
                                                 ELSE SaidBy(P, p, side, s, j - 1)
  BY DEF Passing
<1>. DEFINE l == Key(p, Infixes(side)[j], s)
<1>1. Infixes(side)[j] \in AnyInfix /\ k \in Matches(P, step) /\ k \in DOMAIN P
  BY InfixFacts DEF Matches
<1>2. /\ Name(p, s) \in DOMAIN Unnested(P, k, step) <=> k = l
      /\ k = l => Unnested(P, k, step)[Name(p, s)] = P[k]
  BY <1>1, UnnestedName
<1>3. Got(over, Name(p, s)) = IF k = l THEN {P[l]} ELSE Got(tags, Name(p, s))
  BY <1>2, GotOverlay DEF Layer
<1>4. Got(tags, Name(p, s)) = IF l \in DOMAIN P /\ l \notin keys THEN {P[l]} ELSE SaidBy(P, p, side, s, j - 1)
  BY DEF Passing
<1>. QED BY <1>1, <1>3, <1>4

\* With no key left the pass is over.
LEMMA PassEnds ==
  ASSUME NEW P, NEW tags, NEW p, NEW side, NEW kind, NEW j \in 1..3,
         Passing(P, tags, p, side, kind, j, {})
  PROVE  Passed(P, tags, p, side, kind, j)
<1>. SUFFICES ASSUME NEW s, Undisputed(P, p, kind, s)
              PROVE  Got(tags, Name(p, s)) = SaidBy(P, p, side, s, j)
  BY DEF Passed
<1>1. LET k == Key(p, Infixes(side)[j], s)
      IN  Got(tags, Name(p, s)) = IF k \in DOMAIN P THEN {P[k]} ELSE SaidBy(P, p, side, s, j - 1)
  BY DEF Passing
<1>. QED BY <1>1, SaidByPass DEF Layer

\* What is unnested is of the side.
LEMMA UnnestedOfItsSide ==
  ASSUME NEW P, DOMAIN P \subseteq Keys, NEW tags, NEW p \in Words \ Sides, NEW side \in {"left", "right"},
         NEW kind, NEW j \in 1..3, NEW step, UnnestsAt(step, p, Infixes(side)[j], kind),
         NEW k \in Matches(P, step), OfItsSide(P, tags, p, side)
  PROVE  OfItsSide(P, Overlay(Unnested(P, k, step), tags), p, side)
<1>. DEFINE u == Unnested(P, k, step)
            t == Suffix(k, step)
            x == Infixes(side)[j]
<1>1. /\ x \in Seq(Words) /\ step.do = "unnest" /\ WritesKeys(step) /\ step.prefix = p /\ step.infix = x
      /\ k \in DOMAIN P
  BY InfixFacts DEF UnnestsAt, Matches
<1>2. /\ k = Key(p, x, t) /\ t \in Seq(Words)
      /\ \A d \in DOMAIN u : d # Dest(k, step) => d[1] \in step.meta
  BY <1>1, UnnestedIs
<1>3. ASSUME NEW d \in DOMAIN u, d[1] \in Sides PROVE \E y \in {"both", side} : Key(p, <<y>>, d) \in DOMAIN P
  <2>1. d = Dest(k, step)
    BY <1>2, <1>3 DEF UnnestsAt
  <2>2. <<p>>[1] = p /\ p \notin Sides
    OBVIOUS
  <2>3. t # <<>> /\ d = t
    BY <1>1, <1>3, <2>1, <2>2 DEF Dest
  <2>4. x # <<>>
    <3>. SUFFICES ASSUME x = <<>> PROVE FALSE
      OBVIOUS
    <3>1. Len(x) = 0 /\ Len(t) \in Nat \ {0} /\ Len(k) = Len(x) + 1 + Len(t)
      <4>1. Len(x) = 0 /\ Len(t) \in Nat \ {0}
        BY <1>2, <2>3, <2>4, EmptySeq, LenProperties
      <4>2. Len(Key(p, x, t)) = Len(x) + 1 + Len(t)
        <5>1. p \in Words /\ x \in Seq(Words) /\ t \in Seq(Words)
          BY <1>1, <1>2
        <5>. HIDE DEF x, t
        <5>. QED BY ONLY <5>1, KeyFacts
      <4>. QED BY <1>2, <4>1, <4>2
    <3>2. k[2] \notin Sides
      BY <1>1, <3>1 DEF Matches
    <3>3. <<p>> \in Seq(Words) /\ Len(<<p>>) = 1
      OBVIOUS
    <3>4. k = <<p>> \o t
      BY <1>2, <3>3, ConcatEmptySeq DEF Key
    <3>5. \A i \in 1..(1 + Len(t)) : (<<p>> \o t)[i] = IF i <= 1 THEN <<p>>[i] ELSE t[i - 1]
      BY <1>2, <3>3, ConcatProperties
    <3>6. k[2] = t[1]
      BY <3>1, <3>4, <3>5
    <3>. QED BY <1>3, <2>3, <3>2, <3>6
  <2>5. \E y \in {"both", side} : x = <<y>>
    BY <2>4, InfixFacts
  <2>. QED BY <1>1, <1>2, <2>3, <2>5
<1>4. ASSUME NEW d \in DOMAIN Overlay(u, tags), d[1] \in Sides
      PROVE  \E y \in {"both", side} : Key(p, <<y>>, d) \in DOMAIN P
  <2>1. d \in DOMAIN u \/ d \in DOMAIN tags
    BY DEF Overlay
  <2>. QED BY <1>3, <1>4, <2>1 DEF OfItsSide
<1>. QED BY <1>4 DEF OfItsSide

\* A step after the passes leaves undisputed names alone.
LEMMA OtherNames ==
  ASSUME NEW P, NEW tags, NEW after, NEW p, NEW side, NEW kind, NEW output \in Outputs(kind),
         output[1] \notin Sides, Passed(P, tags, p, side, kind, 3), OfItsSide(P, tags, p, side),
         \A name : name # output => Got(after, name) = Got(tags, name)
  PROVE  Passed(P, after, p, side, kind, 3) /\ OfItsSide(P, after, p, side)
<1>1. Passed(P, after, p, side, kind, 3)
  <2>. SUFFICES ASSUME NEW s, Undisputed(P, p, kind, s)
                PROVE  Got(after, Name(p, s)) = SaidBy(P, p, side, s, 3)
    BY DEF Passed
  <2>1. Name(p, s) # output
    BY DEF Undisputed, OnlyUnnested
  <2>. QED BY <2>1 DEF Passed
<1>2. ASSUME NEW d \in DOMAIN after, d[1] \in Sides PROVE d \in DOMAIN tags
  <2>1. Got(after, d) = Got(tags, d) /\ Got(after, d) # {}
    BY <1>2 DEF Got
  <2>. QED BY <2>1 DEF Got
<1>. QED BY <1>1, <1>2 DEF OfItsSide

-----------------------------------------------------------------------------
(* The invariant of side objects.                                          *)

\* Annotations with the marks of a clone's own.
SameMarks(ann, own) ==
  /\ "_prefix" \in DOMAIN ann <=> "_prefix" \in DOMAIN own
  /\ "_prefix" \in DOMAIN own => ann["_prefix"] = own["_prefix"]
  /\ Side(ann) = Side(own)

\* A side's object whose next step is at a place, with the keys left of a scan.
SideObject(P, tags, p, side, kind, at, left) ==
  /\ OfItsSide(P, tags, p, side)
  /\ left = {} => Passed(P, tags, p, side, kind, IF at <= 3 THEN at - 1 ELSE 3)
  /\ \A s \in left : at \in 1..3 /\ Passing(P, tags, p, side, kind, at, s.keys)

\* The clone step the object on top is of.
Cloning == frames[1].steps[frames[1].at]

\* The element's object is past a step that made a side of it.
Settled == \E n \in DOMAIN frames[1].steps : n < frames[1].at /\ IsSide(frames[1].steps[n])

LowInv ==
  frames # <<>> => /\ \A i \in DOMAIN frames : DOMAIN frames[i].tags \subseteq Keys
                   /\ "_prefix" \notin DOMAIN frames[1].ann

CloneInv ==
  Len(frames) = 2 =>
    /\ frames[2].steps = Cloning.steps /\ frames[2].at \in Nat \ {0}
    /\ SameMarks(frames[2].ann, Cloning.annotate)
    /\ IsSide(Cloning) => SideObject(frames[1].tags, frames[2].tags, Cloning.annotate["_prefix"],
                                     Side(Cloning.annotate), element.kind, frames[2].at, scan)

KeptInv ==
  frames # <<>> =>
    \A i \in DOMAIN clones : "_prefix" \in DOMAIN clones[i].ann =>
      Settled /\ SideTruth(frames[1].tags, clones[i].tags, clones[i].ann, element.kind)

\* The scan at hand is of the step at hand; a clone's is over the object below.
ScanInv ==
  scan # {} =>
    /\ frames # <<>> /\ Running /\ Step.do \in {"unnest", "strip"}
    /\ \E source, keys, before :
         /\ scan = {[source |-> source, keys |-> keys, before |-> before]}
         /\ keys \subseteq DOMAIN source /\ DOMAIN source \subseteq Keys
         /\ Step.do = "unnest" => keys \subseteq Matches(source, Step)
         /\ Step.do = "unnest" /\ InClone => source = frames[1].tags
         /\ Step.do = "strip" => \A k \in keys : Len(k) > 1

WorkInv == LowInv /\ CloneInv /\ KeptInv /\ ScanInv

TopicsHold == TopicsAreLoaded /\ TopicsWriteKeys /\ SidesAreUnnested

-----------------------------------------------------------------------------
(* The step at hand.                                                       *)

LEMMA FrameShapes ==
  ASSUME FramesInv, frames # <<>>
  PROVE  \/ /\ Len(frames) = 1 /\ ~InClone /\ frames = <<frames[1]>> /\ Top = frames[1] /\ DOMAIN frames = {1}
         \/ /\ Len(frames) = 2 /\ InClone /\ frames = <<frames[1], frames[2]>> /\ Top = frames[2]
            /\ DOMAIN frames = {1, 2}
<1>1. PICK b : frames = <<b>> \/ \E c : frames = <<b, c>>
  BY DEF FramesInv
<1>2. CASE frames = <<b>>
  <2>1. Len(frames) = 1 /\ frames[1] = b /\ DOMAIN frames = {1}
    BY <1>2, SingleIsSeq
  <2>. QED BY <1>2, <2>1 DEF InClone, Top
<1>3. ASSUME NEW c, frames = <<b, c>>
      PROVE  Len(frames) = 2 /\ InClone /\ frames = <<frames[1], frames[2]>> /\ Top = frames[2] /\ DOMAIN frames = {1, 2}
  <2>1. Len(frames) = 2 /\ frames[1] = b /\ frames[2] = c /\ DOMAIN frames = 1..2
    BY <1>3
  <2>. QED BY <1>3, <2>1 DEF InClone, Top
<1>. QED BY <1>1, <1>2, <1>3

\* A step of the element's own object is one of its pipeline's.
LEMMA LowStep ==
  ASSUME TopicsHold, topic \in Topics, FramesInv, frames # <<>>, Len(frames) = 1, Running
  PROVE  /\ HasKind(element.kind) /\ frames[1].steps = topic.pipelines[element.kind]
         /\ frames[1].at \in DOMAIN frames[1].steps /\ DOMAIN frames[1].steps \subseteq Int
         /\ Step = frames[1].steps[frames[1].at] /\ WritesKeys(Step)
         /\ Settled => Step.do \in {"clone", "drop"}
<1>1. /\ HasKind(element.kind) /\ frames[1].steps = topic.pipelines[element.kind]
      /\ frames[1].at \in Nat \ {0} /\ Top = frames[1]
  BY FrameShapes DEF FramesInv
<1>2. /\ Len(frames[1].steps) \in Nat /\ DOMAIN frames[1].steps = 1..Len(frames[1].steps)
  BY <1>1, PipelineFacts DEF TopicsHold
<1>3. frames[1].at \in DOMAIN frames[1].steps /\ Step = frames[1].steps[frames[1].at]
  BY <1>1, <1>2 DEF Running, Step
<1>4. Step \in Range(topic.pipelines[element.kind])
  BY <1>1, <1>3 DEF Range
<1>5. WritesKeys(Step)
  BY <1>1, <1>4 DEF TopicsHold, TopicsWriteKeys, HasKind
<1>6. ASSUME Settled PROVE Step.do \in {"clone", "drop"}
  <2>1. PICK n \in DOMAIN frames[1].steps : n < frames[1].at /\ IsSide(frames[1].steps[n])
    BY <1>6 DEF Settled
  <2>2. frames[1].at > n
    BY <1>2, <1>3, <2>1
  <2>. QED BY <1>1, <1>3, <2>1, <2>2 DEF TopicsHold, SidesAreUnnested, HasKind
<1>. QED BY <1>1, <1>2, <1>3, <1>5, <1>6

\* The clone at hand, and what makes it a side.
LEMMA CloneIs ==
  ASSUME TopicsHold, topic \in Topics, FramesInv, Len(frames) = 2
  PROVE  /\ HasKind(element.kind) /\ frames[1].steps = topic.pipelines[element.kind]
         /\ frames[1].at \in DOMAIN frames[1].steps /\ DOMAIN frames[1].steps \subseteq Int
         /\ IsClone(Cloning) /\ Cloning \in Range(topic.pipelines[element.kind])
         /\ Cloning.steps \in Seq(Range(Cloning.steps))
         /\ \A x \in Range(Cloning.steps) : ~IsClone(x) /\ WritesKeys(x)
         /\ IsSide(Cloning) => UnnestsItsSide(Cloning)
<1>1. Len(<<>>) = 0
  BY EmptySeq
<1>2. /\ HasKind(element.kind) /\ frames[1].steps = topic.pipelines[element.kind]
      /\ frames[1].at \in DOMAIN frames[1].steps /\ IsClone(Cloning)
  BY <1>1 DEF FramesInv, Cloning
<1>3. DOMAIN frames[1].steps \subseteq Int
  BY <1>2, PipelineFacts DEF TopicsHold
<1>4. Cloning \in Range(topic.pipelines[element.kind])
  BY <1>2 DEF Range, Cloning
<1>5. /\ Cloning.steps \in Seq(Range(Cloning.steps))
      /\ \A x \in Range(Cloning.steps) : ~IsClone(x) /\ WritesKeys(x)
  BY <1>2, <1>4 DEF TopicsHold, TopicsWriteKeys, HasKind
<1>6. IsSide(Cloning) => UnnestsItsSide(Cloning)
  BY <1>2 DEF TopicsHold, SidesAreUnnested, HasKind, Cloning
<1>. QED BY <1>2, <1>3, <1>4, <1>5, <1>6

LEMMA SideIs ==
  ASSUME TopicsHold, topic \in Topics, FramesInv, Len(frames) = 2, IsSide(Cloning)
  PROVE  /\ Cloning.annotate["_prefix"] \in Words \ Sides /\ Side(Cloning.annotate) \in {"left", "right"}
         /\ Len(Cloning.steps) \in Nat /\ Len(Cloning.steps) >= 3
BY CloneIs, LenProperties DEF UnnestsItsSide

\* A step of a clone's object; a side's unnests first and leaves its names alone after that.
LEMMA CloneStep ==
  ASSUME TopicsHold, topic \in Topics, FramesInv, CloneInv, Len(frames) = 2, Running
  PROVE  /\ Step.do # "clone" /\ WritesKeys(Step) /\ Top.at \in Nat \ {0}
         /\ IsSide(Cloning) =>
              /\ Top.at <= 3 => /\ UnnestsAt(Step, Cloning.annotate["_prefix"],
                                             Infixes(Side(Cloning.annotate))[Top.at], element.kind)
                                /\ Step.guard = {}
              /\ Top.at > 3 => /\ Step.do \in {"drop", "rule", "directed"}
                               /\ Step.do # "drop" => /\ Step.output \in Outputs(element.kind)
                                                      /\ Step.output[1] \notin Sides
<1>. DEFINE c == Cloning
<1>0. frames # <<>>
  <2>1. Len(<<>>) = 0
    BY EmptySeq
  <2>. QED BY <2>1
<1>1. Top = frames[2] /\ Top.steps = c.steps /\ Top.at \in Nat \ {0}
  BY <1>0, FrameShapes DEF CloneInv
<1>2. /\ IsClone(c) /\ c \in Range(topic.pipelines[element.kind])
      /\ c.steps \in Seq(Range(c.steps)) /\ \A x \in Range(c.steps) : ~IsClone(x) /\ WritesKeys(x)
      /\ IsSide(c) => UnnestsItsSide(c)
  BY CloneIs
<1>3. Len(c.steps) \in Nat /\ DOMAIN c.steps = 1..Len(c.steps)
  BY <1>2, LenProperties
<1>4. Top.at \in DOMAIN c.steps /\ Step = c.steps[Top.at]
  BY <1>1, <1>3 DEF Running, Step
<1>5. Step \in Range(c.steps)
  BY <1>4 DEF Range
<1>6. Step \in SideSteps(element.kind)
  BY <1>2, <1>5 DEF SideSteps
<1>7. Step.do # "clone" /\ WritesKeys(Step)
  BY <1>2, <1>5 DEF IsClone
<1>8. ASSUME IsSide(c), Top.at <= 3
      PROVE  /\ UnnestsAt(Step, c.annotate["_prefix"], Infixes(Side(c.annotate))[Top.at], element.kind)
             /\ Step.guard = {}
  <2>1. Top.at \in 1..3
    BY <1>1, <1>8
  <2>2. /\ Step.do = "unnest" /\ Step.prefix = c.annotate["_prefix"]
        /\ Step.infix = <<<<>>, <<"both">>, <<Side(c.annotate)>>>>[Top.at]
        /\ Step.guard = {} /\ Step.meta \cap Sides = {}
    BY <1>2, <1>4, <1>8, <2>1 DEF UnnestsItsSide
  <2>3. Step.meta \subseteq Companions(element.kind)
    BY <1>6, <2>2 DEF Companions
  <2>. QED BY <1>7, <2>2, <2>3 DEF UnnestsAt, Infixes
<1>9. ASSUME IsSide(c), Top.at > 3
      PROVE  /\ Step.do \in {"drop", "rule", "directed"}
             /\ Step.do # "drop" => Step.output \in Outputs(element.kind) /\ Step.output[1] \notin Sides
  <2>1. Top.at \in 4..Len(c.steps)
    BY <1>1, <1>3, <1>4, <1>9
  <2>2. /\ Step.do \in {"drop", "rule", "directed"}
        /\ Step.do # "drop" => Step.output[1] \notin Sides
    BY <1>2, <1>4, <1>9, <2>1 DEF UnnestsItsSide
  <2>. QED BY <1>6, <2>2 DEF Outputs
<1>. QED BY <1>1, <1>7, <1>8, <1>9

-----------------------------------------------------------------------------
(* Moves of the object at hand.                                            *)

\* What is said of objects depends on the topic alone.
LEMMA SameTopic ==
  ASSUME topic' = topic
  PROVE  /\ \A P, tags, p, side, kind, at, left :
              SideObject(P, tags, p, side, kind, at, left)' = SideObject(P, tags, p, side, kind, at, left)
         /\ \A P, tags, ann, kind : SideTruth(P, tags, ann, kind)' = SideTruth(P, tags, ann, kind)
<1>1. \A kind, name : OnlyUnnested(kind, name)' = OnlyUnnested(kind, name)
  BY DEF OnlyUnnested, Companions, Outputs, SideSteps
<1>2. \A P, p, kind, s : Undisputed(P, p, kind, s)' = Undisputed(P, p, kind, s)
  BY <1>1 DEF Undisputed
<1>3. \A P, tags, p, side, kind, j : Passed(P, tags, p, side, kind, j)' = Passed(P, tags, p, side, kind, j)
  BY <1>2 DEF Passed
<1>4. \A P, tags, p, side, kind, j, keys :
        Passing(P, tags, p, side, kind, j, keys)' = Passing(P, tags, p, side, kind, j, keys)
  BY <1>2 DEF Passing
<1>5. \A P, tags, p, side, kind, at, left :
        SideObject(P, tags, p, side, kind, at, left)' = SideObject(P, tags, p, side, kind, at, left)
  BY <1>3, <1>4 DEF SideObject
<1>6. \A P, tags, ann, kind : SideTruth(P, tags, ann, kind)' = SideTruth(P, tags, ann, kind)
  BY <1>3 DEF SideTruth
<1>. QED BY <1>5, <1>6

\* The element's own object moves, and keeps its tags once it has made a side.
LEMMA LowMoves ==
  ASSUME topic' = topic, element' = element, clones' = clones, FramesInv, KeptInv,
         frames # <<>>, Len(frames) = 1, DOMAIN frames[1].steps \subseteq Int, frames[1].at \in Int,
         NEW x, frames' = <<x>>, x.steps = frames[1].steps, x.at = frames[1].at \/ x.at = frames[1].at + 1,
         DOMAIN x.tags \subseteq Keys, "_prefix" \notin DOMAIN x.ann, Settled => x.tags = frames[1].tags
  PROVE  LowInv' /\ CloneInv' /\ KeptInv'
<1>1. Len(frames') = 1 /\ frames'[1] = x /\ DOMAIN frames' = {1}
  BY SingleIsSeq
<1>2. LowInv'
  BY <1>1 DEF LowInv
<1>3. CloneInv'
  BY <1>1 DEF CloneInv
<1>4. Settled => Settled'
  <2>. SUFFICES ASSUME Settled PROVE Settled'
    OBVIOUS
  <2>1. PICK n \in DOMAIN frames[1].steps : n < frames[1].at /\ IsSide(frames[1].steps[n])
    BY DEF Settled
  <2>2. n < x.at
    BY <2>1
  <2>. QED BY <1>1, <2>1, <2>2 DEF Settled
<1>5. ASSUME NEW i \in DOMAIN clones', "_prefix" \in DOMAIN clones'[i].ann
      PROVE  Settled' /\ SideTruth(frames[1].tags, clones[i].tags, clones[i].ann, element.kind)'
  <2>1. /\ Settled /\ SideTruth(frames[1].tags, clones[i].tags, clones[i].ann, element.kind)
        /\ clones'[i] = clones[i]
    BY <1>5 DEF KeptInv
  <2>2. frames'[1].tags = frames[1].tags
    BY <1>1, <2>1
  <2>. QED BY <1>4, <2>1, <2>2, SameTopic
<1>6. KeptInv'
  BY <1>5 DEF KeptInv
<1>. QED BY <1>2, <1>3, <1>6

\* A clone's object moves, over the same object.
LEMMA CloneMoves ==
  ASSUME topic' = topic, element' = element, clones' = clones, FramesInv, LowInv, CloneInv, KeptInv,
         Len(frames) = 2,
         NEW x, frames' = <<frames[1], x>>, x.steps = Top.steps, x.at = Top.at \/ x.at = Top.at + 1,
         DOMAIN x.tags \subseteq Keys, SameMarks(x.ann, Top.ann),
         IsSide(Cloning) => SideObject(frames[1].tags, x.tags, Cloning.annotate["_prefix"],
                                       Side(Cloning.annotate), element.kind, x.at, scan')
  PROVE  LowInv' /\ CloneInv' /\ KeptInv'
<1>1. frames # <<>>
  <2>1. Len(<<>>) = 0
    BY EmptySeq
  <2>. QED BY <2>1
<1>2. Top = frames[2] /\ DOMAIN frames = {1, 2}
  BY <1>1, FrameShapes
<1>3. Len(frames') = 2 /\ frames'[1] = frames[1] /\ frames'[2] = x /\ DOMAIN frames' = 1..2
  OBVIOUS
<1>4. LowInv'
  <2>1. DOMAIN frames[1].tags \subseteq Keys /\ "_prefix" \notin DOMAIN frames[1].ann
    BY <1>1, <1>2 DEF LowInv
  <2>2. \A i \in DOMAIN frames' : i = 1 \/ i = 2
    BY <1>3
  <2>. QED BY <1>3, <2>1, <2>2 DEF LowInv
<1>5. Cloning' = Cloning
  BY <1>3 DEF Cloning
<1>6. /\ Top.steps = Cloning.steps /\ Top.at \in Nat \ {0} /\ SameMarks(Top.ann, Cloning.annotate)
  BY <1>2 DEF CloneInv
<1>7. SameMarks(x.ann, Cloning.annotate)
  BY <1>6 DEF SameMarks
<1>8. x.at \in Nat \ {0}
  BY <1>6
<1>9. CloneInv'
  <2>. SUFFICES ASSUME IsSide(Cloning)
                PROVE  SideObject(frames[1].tags, x.tags, Cloning.annotate["_prefix"],
                                  Side(Cloning.annotate), element.kind, x.at, scan)'
    BY <1>3, <1>5, <1>6, <1>7, <1>8 DEF CloneInv, SameMarks, IsSide, IsClone, Side
  <2>. QED BY <1>3, <1>5, SameTopic
<1>10. Settled' = Settled
  BY <1>3 DEF Settled
<1>11. KeptInv'
  <2>. SUFFICES ASSUME NEW i \in DOMAIN clones', "_prefix" \in DOMAIN clones'[i].ann
                PROVE  Settled' /\ SideTruth(frames[1].tags, clones[i].tags, clones[i].ann, element.kind)'
    BY DEF KeptInv
  <2>1. /\ Settled /\ SideTruth(frames[1].tags, clones[i].tags, clones[i].ann, element.kind)
        /\ clones'[i] = clones[i]
    BY <1>1 DEF KeptInv
  <2>. QED BY <1>3, <1>10, <2>1, SameTopic
<1>. QED BY <1>4, <1>9, <1>11

\* The object on top moves: the obligations of both.
LEMMA TopMoves ==
  ASSUME TopicsHold, topic \in Topics, FramesInv, LowInv, CloneInv, KeptInv, frames # <<>>, Running,
         topic' = topic, element' = element, clones' = clones,
         NEW x, frames' = Replace(x), x.steps = Top.steps, x.at = Top.at \/ x.at = Top.at + 1,
         DOMAIN x.tags \subseteq Keys, SameMarks(x.ann, Top.ann),
         ~InClone => (Settled => x.tags = Top.tags),
         InClone /\ IsSide(Cloning) => SideObject(frames[1].tags, x.tags, Cloning.annotate["_prefix"],
                                                  Side(Cloning.annotate), element.kind, x.at, scan')
  PROVE  LowInv' /\ CloneInv' /\ KeptInv'
<1>1. CASE Len(frames) = 1
  <2>1. Top = frames[1] /\ ~InClone
    BY <1>1, FrameShapes
  <2>2. frames' = <<x>>
    BY <2>1 DEF Replace
  <2>3. frames[1].at \in DOMAIN frames[1].steps /\ DOMAIN frames[1].steps \subseteq Int
    BY <1>1, LowStep
  <2>4. "_prefix" \notin DOMAIN x.ann
    BY <2>1 DEF SameMarks, LowInv
  <2>. QED BY <1>1, <2>1, <2>2, <2>3, <2>4, LowMoves
<1>2. CASE Len(frames) = 2
  <2>1. InClone /\ frames' = <<frames[1], x>>
    BY <1>2, FrameShapes DEF Replace
  <2>. QED BY <1>2, <2>1, CloneMoves
<1>. QED BY <1>1, <1>2, FrameShapes

LEMMA OwnMarks == \A ann : SameMarks(ann, ann)
BY DEF SameMarks

\* The tags of the object on top are keyed by words, and its step writes keys.
LEMMA TopIs ==
  ASSUME TopicsHold, topic \in Topics, FramesInv, LowInv, CloneInv, frames # <<>>
  PROVE  /\ DOMAIN Top.tags \subseteq Keys /\ DOMAIN frames[1].tags \subseteq Keys
         /\ Running => WritesKeys(Step)
<1>1. DOMAIN Top.tags \subseteq Keys /\ DOMAIN frames[1].tags \subseteq Keys
  BY FrameShapes DEF LowInv
<1>. QED BY <1>1, FrameShapes, LowStep, CloneStep

-----------------------------------------------------------------------------
(* Steps that write one name.                                              *)

Writes(tags, after, output) ==
  /\ DOMAIN after \subseteq DOMAIN tags \cup {output}
  /\ \A name : name # output => Got(after, name) = Got(tags, name)

LEMMA WriteStep ==
  ASSUME TopicsHold, topic \in Topics, FramesInv, WorkInv, Running, frames # <<>>, scan = {}, scan' = scan,
         Step.do \in {"rule", "directed"}, UNCHANGED <<topic, element, clones>>,
         NEW after, Writes(Top.tags, after, Step.output), frames' = Advance(after, Top.ann)
  PROVE  WorkInv'
<1>. DEFINE x == Frame(after, Top.ann, Top.steps, Top.at + 1)
<1>1. frames' = Replace(x)
  BY DEF Advance
<1>2. x.tags = after /\ x.ann = Top.ann /\ x.steps = Top.steps /\ x.at = Top.at + 1
  BY DEF Frame
<1>. HIDE DEF x
<1>3. DOMAIN x.tags \subseteq Keys
  <2>1. DOMAIN Top.tags \subseteq Keys /\ WritesKeys(Step)
    BY TopIs DEF WorkInv
  <2>. QED BY <1>2, <2>1 DEF WritesKeys, Writes
<1>4. ~InClone => ~Settled
  BY FrameShapes, LowStep
<1>5. ASSUME InClone, IsSide(Cloning)
      PROVE  SideObject(frames[1].tags, x.tags, Cloning.annotate["_prefix"],
                        Side(Cloning.annotate), element.kind, x.at, scan')
  <2>1. Len(frames) = 2 /\ Top = frames[2] /\ CloneInv
    BY <1>5, FrameShapes DEF WorkInv
  <2>2. Top.at \in Nat \ {0} /\ ~(Top.at <= 3)
    BY <1>5, <2>1, CloneStep DEF UnnestsAt
  <2>3. Step.output \in Outputs(element.kind) /\ Step.output[1] \notin Sides
    BY <1>5, <2>1, <2>2, CloneStep
  <2>4. SideObject(frames[1].tags, Top.tags, Cloning.annotate["_prefix"],
                   Side(Cloning.annotate), element.kind, Top.at, {})
    BY <1>5, <2>1 DEF CloneInv
  <2>5. /\ Passed(frames[1].tags, Top.tags, Cloning.annotate["_prefix"], Side(Cloning.annotate), element.kind, 3)
        /\ OfItsSide(frames[1].tags, Top.tags, Cloning.annotate["_prefix"], Side(Cloning.annotate))
    BY <2>2, <2>4 DEF SideObject
  <2>6. /\ Passed(frames[1].tags, after, Cloning.annotate["_prefix"], Side(Cloning.annotate), element.kind, 3)
        /\ OfItsSide(frames[1].tags, after, Cloning.annotate["_prefix"], Side(Cloning.annotate))
    BY <2>3, <2>5, OtherNames DEF Writes
  <2>7. ~(x.at <= 3)
    BY <1>2, <2>2
  <2>. QED BY <1>2, <2>6, <2>7 DEF SideObject
<1>6. LowInv' /\ CloneInv' /\ KeptInv'
  BY <1>1, <1>2, <1>3, <1>4, <1>5, TopMoves, OwnMarks DEF WorkInv
<1>7. ScanInv'
  BY DEF ScanInv
<1>. QED BY <1>6, <1>7 DEF WorkInv

LEMMA RuleWrites ==
  ASSUME WorkInv, ApplyRule \/ ApplyDirected
  PROVE  \E after : Writes(Top.tags, after, Step.output) /\ frames' = Advance(after, Top.ann)
<1>1. Writes(Top.tags, Top.tags, Step.output)
  BY DEF Writes
<1>2. Writes(Top.tags, Without(Top.tags, {Step.output}), Step.output)
  BY DEF Writes, Without, Got
<1>3. ASSUME NEW over, DOMAIN over \subseteq {Step.output}
      PROVE  Writes(Top.tags, Overlay(over, Top.tags), Step.output)
  <2>1. DOMAIN Overlay(over, Top.tags) \subseteq DOMAIN Top.tags \cup {Step.output}
    BY <1>3 DEF Overlay
  <2>2. ASSUME NEW name, name # Step.output PROVE Got(Overlay(over, Top.tags), name) = Got(Top.tags, name)
    BY <1>3, <2>2, GotOverlay DEF Layer
  <2>. QED BY <2>1, <2>2 DEF Writes
<1>4. CASE ApplyRule
  <2>. DEFINE value == Produce(Step.source, Context)
              over  == [k \in {Step.output} |-> CHOOSE v \in value : TRUE]
  <2>1. frames' = Advance(IF value = {} THEN Top.tags
                          ELSE IF value = {Null} THEN Without(Top.tags, {Step.output})
                          ELSE Overlay(over, Top.tags), Top.ann)
    BY <1>4 DEF ApplyRule
  <2>2. DOMAIN over \subseteq {Step.output}
    OBVIOUS
  <2>3. Writes(Top.tags, Overlay(over, Top.tags), Step.output)
    BY <1>3, <2>2
  <2>. QED BY <1>1, <1>2, <2>1, <2>3
<1>5. CASE ApplyDirected
  <2>. DEFINE raw == ReadDirected(Top.tags, Parents, Top.ann, Step) \cap DOMAIN Step.chain
              over == [k \in {Step.output : v \in raw} |-> Step.chain[CHOOSE v \in raw : TRUE]]
  <2>1. frames' = Advance(Overlay(over, Top.tags), Top.ann)
    BY <1>5 DEF ApplyDirected
  <2>2. DOMAIN over \subseteq {Step.output}
    OBVIOUS
  <2>. QED BY <1>3, <2>1, <2>2
<1>. QED BY <1>4, <1>5

\* A step that is done without a change: none a side's pass is waiting for.
LEMMA PassOn ==
  ASSUME TopicsHold, topic \in Topics, FramesInv, WorkInv, Running, frames # <<>>, scan = {}, scan' = scan,
         UNCHANGED <<topic, element, clones>>, frames' = Advance(Top.tags, Top.ann),
         InClone /\ IsSide(Cloning) =>
           SideObject(frames[1].tags, Top.tags, Cloning.annotate["_prefix"],
                      Side(Cloning.annotate), element.kind, Top.at + 1, {})
  PROVE  WorkInv'
<1>. DEFINE x == Frame(Top.tags, Top.ann, Top.steps, Top.at + 1)
<1>1. frames' = Replace(x)
  BY DEF Advance
<1>2. x.tags = Top.tags /\ x.ann = Top.ann /\ x.steps = Top.steps /\ x.at = Top.at + 1
  BY DEF Frame
<1>. HIDE DEF x
<1>3. DOMAIN x.tags \subseteq Keys
  BY <1>2, TopIs DEF WorkInv
<1>4. LowInv' /\ CloneInv' /\ KeptInv'
  BY <1>1, <1>2, <1>3, TopMoves, OwnMarks DEF WorkInv
<1>5. ScanInv'
  BY DEF ScanInv
<1>. QED BY <1>4, <1>5 DEF WorkInv

\* An object keeps all its passes when it moves on past them.
LEMMA PastPasses ==
  ASSUME TopicsHold, topic \in Topics, FramesInv, WorkInv, Running, scan = {}, InClone, IsSide(Cloning),
         Step.do # "unnest"
  PROVE  SideObject(frames[1].tags, Top.tags, Cloning.annotate["_prefix"],
                    Side(Cloning.annotate), element.kind, Top.at + 1, {})
<1>1. Len(frames) = 2 /\ CloneInv
  BY DEF InClone, WorkInv
<1>2. frames # <<>>
  <2>1. Len(<<>>) = 0
    BY EmptySeq
  <2>. QED BY <1>1, <2>1
<1>3. Top = frames[2] /\ Top.at \in Nat \ {0} /\ ~(Top.at <= 3)
  BY <1>1, <1>2, FrameShapes, CloneStep DEF UnnestsAt
<1>4. SideObject(frames[1].tags, Top.tags, Cloning.annotate["_prefix"],
                 Side(Cloning.annotate), element.kind, Top.at, {})
  BY <1>1, <1>3 DEF CloneInv
<1>5. ~(Top.at + 1 <= 3)
  BY <1>3
<1>. QED BY <1>3, <1>4, <1>5 DEF SideObject

LEMMA DropKeeps ==
  ASSUME TopicsHold, topic \in Topics, FramesInv, WorkInv, ApplyDrop
  PROVE  WorkInv'
<1>1. /\ Running /\ frames # <<>> /\ scan = {} /\ scan' = scan /\ Step.do = "drop"
      /\ topic' = topic /\ element' = element
  BY DEF ApplyDrop, Transforming, Running, input
<1>2. CASE ~Holds(Step.when, Context)
  <2>1. frames' = Advance(Top.tags, Top.ann) /\ clones' = clones
    BY <1>2 DEF ApplyDrop
  <2>. QED BY <1>1, <2>1, PassOn, PastPasses
<1>3. CASE Holds(Step.when, Context) /\ InClone
  <2>. DEFINE x == Frame(frames[1].tags, frames[1].ann, frames[1].steps, frames[1].at + 1)
  <2>1. frames' = <<x>> /\ clones' = clones
    BY <1>3 DEF ApplyDrop, EndClone
  <2>2. x.tags = frames[1].tags /\ x.ann = frames[1].ann /\ x.steps = frames[1].steps /\ x.at = frames[1].at + 1
    BY DEF Frame
  <2>. HIDE DEF x
  <2>3. Len(frames) = 2
    BY <1>3 DEF InClone
  <2>4. frames[1].at \in DOMAIN frames[1].steps /\ DOMAIN frames[1].steps \subseteq Int
    BY <2>3, CloneIs
  <2>5. Len(frames') = 1 /\ frames'[1] = x /\ DOMAIN frames' = {1}
    BY <2>1, SingleIsSeq
  <2>6. DOMAIN frames[1].tags \subseteq Keys /\ "_prefix" \notin DOMAIN frames[1].ann
    BY <1>1, FrameShapes DEF WorkInv, LowInv
  <2>7. LowInv' /\ CloneInv'
    BY <2>2, <2>5, <2>6 DEF LowInv, CloneInv
  <2>8. Settled => Settled'
    <3>. SUFFICES ASSUME Settled PROVE Settled'
      OBVIOUS
    <3>1. PICK n \in DOMAIN frames[1].steps : n < frames[1].at /\ IsSide(frames[1].steps[n])
      BY DEF Settled
    <3>2. n < x.at
      BY <2>2, <2>4, <3>1
    <3>. QED BY <2>2, <2>5, <3>1, <3>2 DEF Settled
  <2>9. KeptInv'
    <3>. SUFFICES ASSUME NEW i \in DOMAIN clones', "_prefix" \in DOMAIN clones'[i].ann
                  PROVE  Settled' /\ SideTruth(frames[1].tags, clones[i].tags, clones[i].ann, element.kind)'
      BY DEF KeptInv
    <3>1. /\ Settled /\ SideTruth(frames[1].tags, clones[i].tags, clones[i].ann, element.kind)
          /\ clones'[i] = clones[i]
      BY <1>1, <2>1 DEF KeptInv, WorkInv
    <3>. QED BY <1>1, <2>2, <2>5, <2>8, <3>1, SameTopic
  <2>10. ScanInv'
    BY <1>1 DEF ScanInv
  <2>. QED BY <2>7, <2>9, <2>10 DEF WorkInv
<1>4. CASE Holds(Step.when, Context) /\ ~InClone
  <2>1. frames' = <<>> /\ clones' = <<>>
    BY <1>4 DEF ApplyDrop
  <2>2. Len(<<>>) = 0
    BY EmptySeq
  <2>. QED BY <1>1, <2>1, <2>2 DEF WorkInv, LowInv, CloneInv, KeptInv, ScanInv
<1>. QED BY <1>2, <1>3, <1>4

\* What a side's clone scans for a pass: the object below, whose guard is empty.
LEMMA PassIs ==
  ASSUME TopicsHold, topic \in Topics, FramesInv, WorkInv, Running, InClone, IsSide(Cloning), Step.do = "unnest"
  PROVE  LET P == frames[1].tags
             p == Cloning.annotate["_prefix"]
             side == Side(Cloning.annotate)
         IN  /\ Top.at \in 1..3 /\ p \in Words \ Sides /\ side \in {"left", "right"} /\ DOMAIN P \subseteq Keys
             /\ UnnestsAt(Step, p, Infixes(side)[Top.at], element.kind) /\ AllHold(Step.guard)
             /\ SideObject(P, Top.tags, p, side, element.kind, Top.at, scan)
<1>1. Len(frames) = 2 /\ CloneInv
  BY DEF InClone, WorkInv
<1>2. frames # <<>>
  <2>1. Len(<<>>) = 0
    BY EmptySeq
  <2>. QED BY <1>1, <2>1
<1>3. Top = frames[2] /\ Top.at \in Nat \ {0} /\ Top.at <= 3
  BY <1>1, <1>2, FrameShapes, CloneStep
<1>4. /\ UnnestsAt(Step, Cloning.annotate["_prefix"], Infixes(Side(Cloning.annotate))[Top.at], element.kind)
      /\ Step.guard = {}
  BY <1>1, <1>3, CloneStep
<1>5. AllHold(Step.guard)
  BY <1>4 DEF AllHold
<1>6. DOMAIN frames[1].tags \subseteq Keys
  BY <1>2, TopIs DEF WorkInv
<1>7. SideObject(frames[1].tags, Top.tags, Cloning.annotate["_prefix"],
                 Side(Cloning.annotate), element.kind, Top.at, scan)
  BY <1>1, <1>3 DEF CloneInv
<1>. QED BY <1>1, <1>3, <1>4, <1>5, <1>6, <1>7, SideIs

LEMMA SkipKeeps ==
  ASSUME TopicsHold, topic \in Topics, FramesInv, WorkInv, SkipScan
  PROVE  WorkInv'
<1>1. /\ Running /\ frames # <<>> /\ scan = {} /\ scan' = scan /\ Step.do \in {"unnest", "strip"}
      /\ topic' = topic /\ element' = element /\ clones' = clones /\ frames' = Advance(Top.tags, Top.ann)
  BY DEF SkipScan, Transforming, Running, input
<1>2. ASSUME InClone, IsSide(Cloning)
      PROVE  SideObject(frames[1].tags, Top.tags, Cloning.annotate["_prefix"],
                        Side(Cloning.annotate), element.kind, Top.at + 1, {})
  <2>1. CASE Step.do # "unnest"
    BY <1>1, <1>2, <2>1, PastPasses
  <2>2. CASE Step.do = "unnest"
    <3>. DEFINE P == frames[1].tags
                p == Cloning.annotate["_prefix"]
                side == Side(Cloning.annotate)
    <3>1. /\ Top.at \in 1..3 /\ p \in Words \ Sides /\ side \in {"left", "right"} /\ DOMAIN P \subseteq Keys
          /\ UnnestsAt(Step, p, Infixes(side)[Top.at], element.kind) /\ AllHold(Step.guard)
          /\ SideObject(P, Top.tags, p, side, element.kind, Top.at, scan)
      BY <1>1, <1>2, <2>2, PassIs
    <3>2. Matches(P, Step) = {}
      BY <1>2, <2>2, <3>1 DEF SkipScan
    <3>. HIDE DEF P, p, side
    <3>3. Passed(P, Top.tags, p, side, element.kind, Top.at - 1) /\ OfItsSide(P, Top.tags, p, side)
      BY <1>1, <3>1 DEF SideObject
    <3>4. Passing(P, Top.tags, p, side, element.kind, Top.at, {})
      BY <3>1, <3>2, <3>3, PassBegins
    <3>5. Passed(P, Top.tags, p, side, element.kind, Top.at)
      BY <3>1, <3>4, PassEnds
    <3>6. Top.at = IF Top.at + 1 <= 3 THEN (Top.at + 1) - 1 ELSE 3
      BY <3>1
    <3>7. SideObject(P, Top.tags, p, side, element.kind, Top.at + 1, {})
      <4>1. Passed(P, Top.tags, p, side, element.kind, IF Top.at + 1 <= 3 THEN (Top.at + 1) - 1 ELSE 3)
        BY ONLY <3>5, <3>6
      <4>. QED BY <3>3, <4>1 DEF SideObject
    <3>. QED BY <3>7 DEF P, p, side
  <2>. QED BY <2>1, <2>2
<1>. QED BY <1>1, <1>2, PassOn

LEMMA ScanStarts ==
  ASSUME TopicsHold, topic \in Topics, FramesInv, WorkInv, StartScan
  PROVE  WorkInv'
<1>. DEFINE source == IF InClone /\ Step.do = "unnest" THEN frames[1].tags ELSE Top.tags
            keys   == IF Step.do = "unnest" THEN Matches(source, Step)
                      ELSE {k \in DOMAIN source : Len(k) > 1 /\ k[1] = Step.prefix}
            s      == [source |-> source, keys |-> keys, before |-> Cardinality(DOMAIN Top.tags)]
<1>1. /\ Running /\ frames # <<>> /\ scan = {} /\ scan' = {s} /\ Step.do \in {"unnest", "strip"}
      /\ UNCHANGED <<topic, element, frames, clones>>
  BY DEF StartScan, Transforming, Running, input
<1>2. Running' /\ Step' = Step /\ InClone' = InClone
  BY <1>1 DEF Running, Step, Top, InClone
<1>3. DOMAIN source \subseteq Keys
  BY <1>1, TopIs DEF WorkInv
<1>4. s.source = source /\ s.keys = keys
  OBVIOUS
<1>5. keys \subseteq DOMAIN source /\ (Step.do = "strip" => \A k \in keys : Len(k) > 1)
  BY DEF Matches
<1>6. Step.do = "unnest" => keys = Matches(source, Step)
  OBVIOUS
<1>7. Step.do = "unnest" /\ InClone => source = frames[1].tags
  OBVIOUS
<1>. HIDE DEF source, keys, s
<1>8. ScanInv'
  <2>1. \E from, left, before :
          /\ scan' = {[source |-> from, keys |-> left, before |-> before]}
          /\ left \subseteq DOMAIN from /\ DOMAIN from \subseteq Keys
          /\ Step.do = "unnest" => left \subseteq Matches(from, Step)
          /\ Step.do = "unnest" /\ InClone => from = frames[1].tags
          /\ Step.do = "strip" => \A k \in left : Len(k) > 1
    <3>. WITNESS source, keys, Cardinality(DOMAIN Top.tags)
    <3>. QED BY <1>1, <1>3, <1>5, <1>6, <1>7 DEF s
  <2>. QED BY <1>1, <1>2, <2>1 DEF ScanInv, Matches
<1>9. LowInv' /\ KeptInv'
  <2>1. LowInv'
    BY <1>1 DEF WorkInv, LowInv
  <2>2. Settled' = Settled
    BY <1>1 DEF Settled
  <2>3. KeptInv'
    <3>. SUFFICES ASSUME NEW i \in DOMAIN clones', "_prefix" \in DOMAIN clones'[i].ann
                  PROVE  Settled' /\ SideTruth(frames[1].tags, clones[i].tags, clones[i].ann, element.kind)'
      BY DEF KeptInv
    <3>1. /\ Settled /\ SideTruth(frames[1].tags, clones[i].tags, clones[i].ann, element.kind)
          /\ clones'[i] = clones[i]
      BY <1>1 DEF KeptInv, WorkInv
    <3>. QED BY <1>1, <2>2, <3>1, SameTopic
  <2>. QED BY <2>1, <2>3
<1>10. CloneInv'
  <2>. SUFFICES ASSUME Len(frames) = 2 PROVE CloneInv'
    BY <1>1 DEF CloneInv
  <2>1. Cloning' = Cloning /\ Top = frames[2] /\ InClone
    BY <1>1, FrameShapes DEF Cloning
  <2>2. /\ frames[2].steps = Cloning.steps /\ frames[2].at \in Nat \ {0}
        /\ SameMarks(frames[2].ann, Cloning.annotate)
    BY DEF WorkInv, CloneInv
  <2>3. ASSUME IsSide(Cloning)
        PROVE  SideObject(frames[1].tags, Top.tags, Cloning.annotate["_prefix"],
                          Side(Cloning.annotate), element.kind, Top.at, {s})
    <3>. DEFINE P == frames[1].tags
                p == Cloning.annotate["_prefix"]
                side == Side(Cloning.annotate)
    <3>1. Step.do = "unnest"
      <4>. SUFFICES ASSUME Step.do # "unnest" PROVE FALSE
        OBVIOUS
      <4>1. Top.at > 3 => Step.do \in {"drop", "rule", "directed"}
        BY <1>1, <2>3, CloneStep DEF WorkInv
      <4>2. Top.at <= 3 => Step.do = "unnest"
        BY <1>1, <2>3, CloneStep DEF WorkInv, UnnestsAt
      <4>3. Top.at \in Nat
        BY <2>1, <2>2
      <4>. QED BY <1>1, <4>1, <4>2, <4>3
    <3>2. /\ Top.at \in 1..3 /\ p \in Words \ Sides /\ side \in {"left", "right"} /\ DOMAIN P \subseteq Keys
          /\ UnnestsAt(Step, p, Infixes(side)[Top.at], element.kind)
          /\ SideObject(P, Top.tags, p, side, element.kind, Top.at, {})
      BY <1>1, <2>1, <2>3, <3>1, PassIs
    <3>3. keys = Matches(P, Step)
      BY <1>6, <1>7, <2>1, <3>1
    <3>. HIDE DEF P, p, side
    <3>4. Passed(P, Top.tags, p, side, element.kind, Top.at - 1) /\ OfItsSide(P, Top.tags, p, side)
      BY <3>2 DEF SideObject
    <3>5. Passing(P, Top.tags, p, side, element.kind, Top.at, keys)
      BY <3>2, <3>3, <3>4, PassBegins
    <3>6. SideObject(P, Top.tags, p, side, element.kind, Top.at, {s})
      BY <1>4, <3>2, <3>4, <3>5 DEF SideObject
    <3>. QED BY <3>6 DEF P, p, side
  <2>4. IsSide(Cloning) => SideObject(frames[1].tags, frames[2].tags, Cloning.annotate["_prefix"],
                                      Side(Cloning.annotate), element.kind, frames[2].at, scan)'
    BY <1>1, <2>1, <2>3, SameTopic
  <2>. QED BY <1>1, <2>1, <2>2, <2>4 DEF CloneInv, SameMarks, IsSide, IsClone, Side
<1>. QED BY <1>8, <1>9, <1>10 DEF WorkInv

\* A stripped key is a key, and so is the marker beside it.
LEMMA StrippedKeys ==
  ASSUME NEW tags, DOMAIN tags \subseteq Keys, NEW k \in Keys, Len(k) > 1,
         NEW step, step.stampKey \in Words
  PROVE  DOMAIN Stripped(tags, k, step) \subseteq Keys
<1>. DEFINE base == Tail(k)
            marker == IF base[1] \in step.nestedUnder /\ Len(base) > 1
                      THEN base \o <<step.stampKey>> ELSE <<step.stampKey>>
<1>1. base \in Seq(Words) /\ base # <<>>
  <2>1. k \in Seq(Words) /\ k # <<>>
    BY DEF Keys
  <2>2. base \in Seq(Words) /\ Len(base) = Len(k) - 1 /\ Len(k) \in Nat
    BY <2>1, HeadTailProperties, LenProperties
  <2>3. Len(base) # 0 /\ Len(<<>>) = 0
    <3>. HIDE DEF base
    <3>1. \A m, n \in Int : m = n - 1 /\ n > 1 => m # 0
      OBVIOUS
    <3>2. Len(k) \in Int /\ Len(base) \in Int
      BY <2>2, LenProperties
    <3>. QED BY <2>2, <3>1, <3>2, EmptySeq
  <2>. HIDE DEF base
  <2>. QED BY <2>2, <2>3
<1>2. marker \in Seq(Words) /\ marker # <<>>
  <2>1. <<step.stampKey>> \in Seq(Words) /\ <<step.stampKey>> # <<>> /\ Len(<<step.stampKey>>) = 1
    OBVIOUS
  <2>2. base \o <<step.stampKey>> \in Seq(Words) /\ Len(base \o <<step.stampKey>>) = Len(base) + 1
    BY <1>1, <2>1, ConcatProperties
  <2>3. base \o <<step.stampKey>> # <<>>
    BY <1>1, <2>2, EmptySeq, LenProperties
  <2>. QED BY <2>1, <2>2, <2>3
<1>3. Stripped(tags, k, step) = Overlay(One(marker, step.stampValue), Overlay(One(base, tags[k]), Without(tags, {k})))
  BY DEF Stripped
<1>. HIDE DEF base, marker
<1>4. DOMAIN Without(tags, {k}) \subseteq Keys
  BY DEF Without
<1>5. DOMAIN Overlay(One(base, tags[k]), Without(tags, {k})) \subseteq Keys
  <2>1. DOMAIN Overlay(One(base, tags[k]), Without(tags, {k})) = {base} \cup DOMAIN Without(tags, {k})
    BY OverlayFacts, Zenon
  <2>2. base \in Keys
    BY <1>1 DEF Keys
  <2>. QED BY <1>4, <2>1, <2>2
<1>6. DOMAIN Stripped(tags, k, step)
        = {marker} \cup DOMAIN Overlay(One(base, tags[k]), Without(tags, {k}))
  <2>. DEFINE below == Overlay(One(base, tags[k]), Without(tags, {k}))
  <2>. HIDE DEF below
  <2>1. DOMAIN Overlay(One(marker, step.stampValue), below) = {marker} \cup DOMAIN below
    BY OverlayFacts
  <2>. QED BY <1>3, <2>1 DEF below
<1>. QED BY <1>2, <1>5, <1>6 DEF Keys

\* A scan's stamp leaves the marks alone.
LEMMA StampedMarks ==
  ASSUME NEW stamp, NEW ann, DOMAIN stamp \cap {"_prefix", "_side"} = {}
  PROVE  SameMarks(Overlay(stamp, ann), ann)
<1>1. /\ DOMAIN Overlay(stamp, ann) = DOMAIN stamp \cup DOMAIN ann
      /\ \A k \in DOMAIN ann : k \notin DOMAIN stamp => Overlay(stamp, ann)[k] = ann[k]
  BY DEF Overlay
<1>2. "_prefix" \notin DOMAIN stamp /\ "_side" \notin DOMAIN stamp
  OBVIOUS
<1>3. Side(Overlay(stamp, ann)) = Side(ann)
  BY <1>1, <1>2 DEF Side
<1>. QED BY <1>1, <1>2, <1>3 DEF SameMarks

LEMMA VisitKeeps ==
  ASSUME TopicsHold, topic \in Topics, FramesInv, WorkInv, VisitKey
  PROVE  WorkInv'
<1>1. /\ Running /\ frames # <<>> /\ topic' = topic /\ element' = element /\ clones' = clones
  BY DEF VisitKey, Running, input, WorkInv, ScanInv
<1>2. PICK s \in scan : \E k \in s.keys :
        LET tags  == IF Step.do = "strip" THEN Stripped(Top.tags, k, Step)
                     ELSE Overlay(Unnested(s.source, k, Step), Top.tags)
            last  == s.keys = {k}
            stamp == IF last /\ Step.do = "unnest" /\ Cardinality(DOMAIN tags) > s.before
                     THEN [a \in Step.record |-> IF Step.infix = <<>> THEN "" ELSE Step.infix[1]]
                     ELSE Empty
            ann   == Overlay(stamp, Top.ann)
        IN  /\ frames' = IF last THEN Advance(tags, ann) ELSE Stay(tags, ann)
            /\ scan' = IF last THEN {} ELSE {[s EXCEPT !.keys = @ \ {k}]}
  BY DEF VisitKey
<1>3. PICK k \in s.keys :
        LET tags  == IF Step.do = "strip" THEN Stripped(Top.tags, k, Step)
                     ELSE Overlay(Unnested(s.source, k, Step), Top.tags)
            last  == s.keys = {k}
            stamp == IF last /\ Step.do = "unnest" /\ Cardinality(DOMAIN tags) > s.before
                     THEN [a \in Step.record |-> IF Step.infix = <<>> THEN "" ELSE Step.infix[1]]
                     ELSE Empty
            ann   == Overlay(stamp, Top.ann)
        IN  /\ frames' = IF last THEN Advance(tags, ann) ELSE Stay(tags, ann)
            /\ scan' = IF last THEN {} ELSE {[s EXCEPT !.keys = @ \ {k}]}
  BY <1>2
<1>. DEFINE tags  == IF Step.do = "strip" THEN Stripped(Top.tags, k, Step)
                     ELSE Overlay(Unnested(s.source, k, Step), Top.tags)
            last  == s.keys = {k}
            stamp == IF last /\ Step.do = "unnest" /\ Cardinality(DOMAIN tags) > s.before
                     THEN [a \in Step.record |-> IF Step.infix = <<>> THEN "" ELSE Step.infix[1]]
                     ELSE Empty
            ann   == Overlay(stamp, Top.ann)
            x     == Frame(tags, ann, Top.steps, IF last THEN Top.at + 1 ELSE Top.at)
<1>4. /\ frames' = Replace(x)
      /\ scan' = IF last THEN {} ELSE {[s EXCEPT !.keys = @ \ {k}]}
  BY <1>3 DEF Advance, Stay
<1>5. x.tags = tags /\ x.ann = ann /\ x.steps = Top.steps /\ x.at = IF last THEN Top.at + 1 ELSE Top.at
  BY DEF Frame
<1>6. PICK source, keys, before :
         /\ scan = {[source |-> source, keys |-> keys, before |-> before]}
         /\ keys \subseteq DOMAIN source /\ DOMAIN source \subseteq Keys
         /\ Step.do = "unnest" => keys \subseteq Matches(source, Step)
         /\ Step.do = "unnest" /\ InClone => source = frames[1].tags
         /\ Step.do = "strip" => \A l \in keys : Len(l) > 1
  BY DEF WorkInv, ScanInv
<1>7. /\ s = [source |-> source, keys |-> keys, before |-> before]
      /\ s.source = source /\ s.keys = keys /\ k \in keys
  BY <1>6
<1>8. Step.do \in {"unnest", "strip"}
  BY <1>6 DEF WorkInv, ScanInv
<1>9. DOMAIN Top.tags \subseteq Keys /\ WritesKeys(Step)
  BY <1>1, TopIs DEF WorkInv
<1>10. DOMAIN stamp \cap {"_prefix", "_side"} = {}
  BY <1>9 DEF WritesKeys, Empty
<1>11. DOMAIN tags \subseteq Keys
  <2>1. CASE Step.do = "strip"
    <3>1. k \in Keys /\ Len(k) > 1 /\ Step.stampKey \in Words
      BY <1>6, <1>7, <1>9, <2>1 DEF WritesKeys
    <3>. QED BY <1>9, <2>1, <3>1, StrippedKeys
  <2>2. CASE Step.do = "unnest"
    <3>1. k \in Matches(source, Step)
      BY <1>6, <1>7, <2>2
    <3>2. DOMAIN Unnested(source, k, Step) \subseteq Keys
      BY <1>6, <1>9, <2>2, <3>1, UnnestedIs
    <3>. QED BY <1>7, <1>9, <2>2, <3>2 DEF Overlay
  <2>. QED BY <1>8, <2>1, <2>2
<1>12. SameMarks(ann, Top.ann)
  <2>. HIDE DEF stamp
  <2>. QED BY <1>10, StampedMarks
<1>13. last => scan' = {}
  BY <1>4
<1>14. ~last => scan' = {[source |-> source, keys |-> keys \ {k}, before |-> before]}
  BY <1>4, <1>7
<1>15. last <=> keys = {k}
  BY <1>7
<1>16. Step.do = "unnest" => tags = Overlay(Unnested(source, k, Step), Top.tags)
  BY <1>7
<1>. HIDE DEF x, tags, ann, stamp, last
<1>17. ~InClone => ~Settled
  BY <1>1, <1>8, FrameShapes, LowStep
<1>18. ASSUME InClone, IsSide(Cloning)
       PROVE  SideObject(frames[1].tags, tags, Cloning.annotate["_prefix"],
                         Side(Cloning.annotate), element.kind, x.at, scan')
  <2>. DEFINE P == frames[1].tags
              p == Cloning.annotate["_prefix"]
              side == Side(Cloning.annotate)
  <2>1. Step.do = "unnest"
    <3>1. Len(frames) = 2 /\ Top = frames[2]
      BY <1>1, <1>18, FrameShapes
    <3>2. /\ Top.at \in Nat
          /\ Top.at > 3 => Step.do \in {"drop", "rule", "directed"}
          /\ Top.at <= 3 => Step.do = "unnest"
      BY <1>1, <1>18, <3>1, CloneStep DEF WorkInv, UnnestsAt
    <3>. QED BY <1>8, <3>2
  <2>2. /\ Top.at \in 1..3 /\ p \in Words \ Sides /\ side \in {"left", "right"} /\ DOMAIN P \subseteq Keys
        /\ UnnestsAt(Step, p, Infixes(side)[Top.at], element.kind)
        /\ SideObject(P, Top.tags, p, side, element.kind, Top.at, scan)
    BY <1>1, <1>18, <2>1, PassIs
  <2>3. source = P /\ keys \subseteq Matches(P, Step) /\ k \in keys
    BY <1>6, <1>7, <1>18, <2>1
  <2>. HIDE DEF P, p, side
  <2>4. Passing(P, Top.tags, p, side, element.kind, Top.at, keys) /\ OfItsSide(P, Top.tags, p, side)
    BY <1>6, <1>7, <2>2 DEF SideObject
  <2>5. Passing(P, tags, p, side, element.kind, Top.at, keys \ {k})
    <3>1. tags = Overlay(Unnested(P, k, Step), Top.tags)
      BY <1>16, <2>1, <2>3
    <3>2. k \in Matches(P, Step)
      BY <2>3
    <3>. DEFINE left == keys \ {k}
    <3>3. \A l : l \in left <=> l \in keys /\ l # k
      OBVIOUS
    <3>. HIDE DEF left
    <3>4. Passing(P, Overlay(Unnested(P, k, Step), Top.tags), p, side, element.kind, Top.at, left)
      BY ONLY <2>2, <2>4, <3>2, <3>3, PassVisits
    <3>. QED BY <3>1, <3>4 DEF left
  <2>6. OfItsSide(P, tags, p, side)
    BY <1>16, <2>1, <2>2, <2>3, <2>4, UnnestedOfItsSide
  <2>7. CASE last
    <3>1. Passed(P, tags, p, side, element.kind, Top.at)
      BY <1>15, <2>2, <2>5, <2>7, PassEnds
    <3>2. x.at = Top.at + 1 /\ Top.at = IF x.at <= 3 THEN x.at - 1 ELSE 3
      BY <1>5, <2>2, <2>7
    <3>3. Passed(P, tags, p, side, element.kind, IF x.at <= 3 THEN x.at - 1 ELSE 3)
      BY ONLY <3>1, <3>2
    <3>. QED BY <1>13, <2>6, <2>7, <3>3 DEF SideObject, P, p, side
  <2>8. CASE ~last
    <3>1. \A r \in scan' : r.keys = keys \ {k}
      BY <1>14, <2>8
    <3>2. x.at = Top.at /\ scan' # {}
      BY <1>5, <1>14, <2>8
    <3>. QED BY <2>2, <2>5, <2>6, <3>1, <3>2 DEF SideObject, P, p, side
  <2>. QED BY <2>7, <2>8
<1>19. x.at = Top.at \/ x.at = Top.at + 1
  BY <1>5
<1>20. LowInv' /\ CloneInv' /\ KeptInv'
  BY <1>1, <1>4, <1>5, <1>11, <1>12, <1>17, <1>18, <1>19, TopMoves DEF WorkInv
<1>21. ScanInv'
  <2>. SUFFICES ASSUME ~last PROVE ScanInv'
    BY <1>13 DEF ScanInv
  <2>1. x.at = Top.at
    BY <1>5
  <2>2. /\ Len(frames') = Len(frames) /\ frames' # <<>> /\ frames'[Len(frames)] = x
        /\ InClone => frames'[1] = frames[1]
    <3>1. CASE InClone
      <4>1. Len(frames) = 2 /\ frames' = <<frames[1], x>>
        BY <1>4, <3>1 DEF InClone, Replace
      <4>. QED BY <4>1
    <3>2. CASE ~InClone
      <4>1. Len(frames) = 1 /\ frames' = <<x>>
        BY <1>1, <1>4, <3>2, FrameShapes DEF Replace
      <4>. QED BY <3>2, <4>1
    <3>. QED BY <3>1, <3>2
  <2>3. Running' /\ Step' = Step /\ InClone' = InClone
    BY <1>1, <1>5, <2>1, <2>2 DEF Running, Step, Top, InClone
  <2>4. \E from, left, b :
          /\ scan' = {[source |-> from, keys |-> left, before |-> b]}
          /\ left \subseteq DOMAIN from /\ DOMAIN from \subseteq Keys
          /\ Step.do = "unnest" => left \subseteq Matches(from, Step)
          /\ Step.do = "unnest" /\ InClone => from = frames[1].tags
          /\ Step.do = "strip" => \A l \in left : Len(l) > 1
    <3>. WITNESS source, keys \ {k}, before
    <3>. QED BY <1>6, <1>14
  <2>. QED BY <1>8, <2>2, <2>3, <2>4 DEF ScanInv, Matches
<1>. QED BY <1>20, <1>21 DEF WorkInv

-----------------------------------------------------------------------------
(* Clones.                                                                 *)

LEMMA CloneStarts ==
  ASSUME TopicsHold, topic \in Topics, FramesInv, WorkInv, StartClone
  PROVE  WorkInv'
<1>1. /\ Running /\ frames # <<>> /\ scan = {} /\ scan' = scan /\ ~InClone /\ Step.do = "clone"
      /\ topic' = topic /\ element' = element /\ clones' = clones
  BY DEF StartClone, Transforming, Running, input
<1>2. Len(frames) = 1 /\ Top = frames[1] /\ frames = <<frames[1]>>
  BY <1>1, FrameShapes
<1>3. CASE ~AllHold(Step.whenever)
  <2>1. frames' = Advance(Top.tags, Top.ann)
    BY <1>3 DEF StartClone
  <2>. QED BY <1>1, <2>1, PassOn
<1>4. CASE AllHold(Step.whenever)
  <2>. DEFINE c == Fresh(Empty, Step.annotate, Step.steps)
  <2>1. frames' = <<frames[1], c>>
    BY <1>2, <1>4 DEF StartClone
  <2>2. c.tags = Empty /\ c.ann = Step.annotate /\ c.steps = Step.steps /\ c.at = 1
    BY DEF Fresh, Frame
  <2>. HIDE DEF c
  <2>3. Len(frames') = 2 /\ frames'[1] = frames[1] /\ frames'[2] = c /\ DOMAIN frames' = 1..2
    BY <2>1
  <2>4. Cloning' = Step
    BY <1>2, <2>3 DEF Cloning, Step
  <2>5. DOMAIN Empty = {}
    BY DEF Empty
  <2>6. LowInv'
    <3>1. DOMAIN frames[1].tags \subseteq Keys /\ "_prefix" \notin DOMAIN frames[1].ann
      BY <1>1, <1>2, SingleIsSeq DEF WorkInv, LowInv
    <3>2. \A i \in DOMAIN frames' : i = 1 \/ i = 2
      BY <2>3
    <3>. QED BY <2>2, <2>3, <2>5, <3>1, <3>2 DEF LowInv
  <2>7. \A P, p, side, kind : SideObject(P, Empty, p, side, kind, 1, {})
    <3>. SUFFICES ASSUME NEW P, NEW p, NEW side, NEW kind PROVE SideObject(P, Empty, p, side, kind, 1, {})
      OBVIOUS
    <3>1. \A s : Got(Empty, Name(p, s)) = {} /\ SaidBy(P, p, side, s, 0) = {}
      BY <2>5 DEF Got, SaidBy
    <3>2. Passed(P, Empty, p, side, kind, 0)
      BY <3>1 DEF Passed
    <3>3. 0 = IF 1 <= 3 THEN 1 - 1 ELSE 3
      OBVIOUS
    <3>4. Passed(P, Empty, p, side, kind, IF 1 <= 3 THEN 1 - 1 ELSE 3)
      BY ONLY <3>2, <3>3
    <3>. QED BY <2>5, <3>4 DEF SideObject, OfItsSide
  <2>8. CloneInv'
    <3>1. (IsSide(Cloning) => SideObject(frames[1].tags, frames[2].tags, Cloning.annotate["_prefix"],
                                         Side(Cloning.annotate), element.kind, frames[2].at, scan))'
      BY <1>1, <2>2, <2>3, <2>4, <2>7, SameTopic
    <3>2. SameMarks(Step.annotate, Step.annotate)
      BY OwnMarks
    <3>. QED BY <2>2, <2>3, <2>4, <3>1, <3>2 DEF CloneInv, SameMarks, Side
  <2>9. Settled' = Settled
    BY <2>3 DEF Settled
  <2>10. KeptInv'
    <3>. SUFFICES ASSUME NEW i \in DOMAIN clones', "_prefix" \in DOMAIN clones'[i].ann
                  PROVE  Settled' /\ SideTruth(frames[1].tags, clones[i].tags, clones[i].ann, element.kind)'
      BY DEF KeptInv
    <3>1. /\ Settled /\ SideTruth(frames[1].tags, clones[i].tags, clones[i].ann, element.kind)
          /\ clones'[i] = clones[i]
      BY <1>1 DEF KeptInv, WorkInv
    <3>. QED BY <1>1, <2>3, <2>9, <3>1, SameTopic
  <2>11. ScanInv'
    BY <1>1 DEF ScanInv
  <2>. QED BY <2>6, <2>8, <2>10, <2>11 DEF WorkInv
<1>. QED BY <1>3, <1>4

\* A side's object that has done its steps says what the object below it does.
LEMMA SideIsTold ==
  ASSUME TopicsHold, topic \in Topics, FramesInv, WorkInv, InClone, ~Running, "_prefix" \in DOMAIN Top.ann
  PROVE  IsSide(Cloning) /\ SideTruth(frames[1].tags, Top.tags, Top.ann, element.kind)
<1>1. Len(frames) = 2
  BY DEF InClone
<1>2. frames # <<>>
  <2>1. Len(<<>>) = 0
    BY EmptySeq
  <2>. QED BY ONLY <1>1, <2>1
<1>3. Top = frames[2] /\ scan = {}
  BY <1>1, <1>2, FrameShapes DEF WorkInv, ScanInv
<1>4. /\ Top.steps = Cloning.steps /\ Top.at \in Nat \ {0} /\ SameMarks(Top.ann, Cloning.annotate)
      /\ IsSide(Cloning) => SideObject(frames[1].tags, Top.tags, Cloning.annotate["_prefix"],
                                       Side(Cloning.annotate), element.kind, Top.at, {})
  BY <1>1, <1>3 DEF WorkInv, CloneInv
<1>5. IsSide(Cloning)
  BY <1>1, <1>4, CloneIs DEF IsSide, SameMarks
<1>6. /\ Cloning.annotate["_prefix"] \in Words \ Sides /\ Side(Cloning.annotate) \in {"left", "right"}
      /\ Len(Cloning.steps) \in Nat /\ Len(Cloning.steps) >= 3
  BY <1>1, <1>5, SideIs
<1>7. ~(Top.at <= 3)
  BY <1>2, <1>4, <1>6 DEF Running
<1>8. /\ Passed(frames[1].tags, Top.tags, Cloning.annotate["_prefix"], Side(Cloning.annotate), element.kind, 3)
      /\ OfItsSide(frames[1].tags, Top.tags, Cloning.annotate["_prefix"], Side(Cloning.annotate))
  BY <1>4, <1>5, <1>7 DEF SideObject
<1>9. Top.ann["_prefix"] = Cloning.annotate["_prefix"] /\ Side(Top.ann) = Side(Cloning.annotate)
  BY <1>4 DEF SameMarks
<1>10. DOMAIN frames[1].tags \subseteq Keys
  BY <1>2, TopIs DEF WorkInv
<1>. QED BY <1>5, <1>6, <1>8, <1>9, <1>10 DEF SideTruth

LEMMA CloneKeeps ==
  ASSUME TopicsHold, topic \in Topics, FramesInv, WorkInv, KeepClone
  PROVE  WorkInv'
<1>. DEFINE x == Frame(frames[1].tags, frames[1].ann, frames[1].steps, frames[1].at + 1)
            kept == [tags |-> Top.tags, ann |-> Top.ann, suffix |-> frames[1].steps[frames[1].at].suffix]
<1>1. /\ InClone /\ ~Running /\ Len(frames) = 2 /\ frames # <<>>
      /\ topic' = topic /\ element' = element /\ scan' = scan
      /\ frames' = <<x>> /\ clones' = Append(clones, kept)
  BY TransformKeeps DEF KeepClone, InClone, EndClone, input
<1>2. /\ x.tags = frames[1].tags /\ x.ann = frames[1].ann /\ x.steps = frames[1].steps /\ x.at = frames[1].at + 1
      /\ kept.tags = Top.tags /\ kept.ann = Top.ann
  BY DEF Frame
<1>. HIDE DEF x, kept
<1>3. frames[1].at \in DOMAIN frames[1].steps /\ DOMAIN frames[1].steps \subseteq Int
  BY <1>1, CloneIs
<1>4. Len(frames') = 1 /\ frames'[1] = x /\ DOMAIN frames' = {1}
  BY <1>1, SingleIsSeq
<1>5. DOMAIN frames[1].tags \subseteq Keys /\ "_prefix" \notin DOMAIN frames[1].ann
  BY <1>1, FrameShapes DEF WorkInv, LowInv
<1>6. LowInv' /\ CloneInv'
  BY <1>2, <1>4, <1>5 DEF LowInv, CloneInv
<1>7. Settled => Settled'
  <2>. SUFFICES ASSUME Settled PROVE Settled'
    OBVIOUS
  <2>1. PICK n \in DOMAIN frames[1].steps : n < frames[1].at /\ IsSide(frames[1].steps[n])
    BY DEF Settled
  <2>2. n < x.at
    BY <1>2, <1>3, <2>1
  <2>. QED BY <1>2, <1>4, <2>1, <2>2 DEF Settled
<1>8. IsSide(Cloning) => Settled'
  <2>1. frames[1].at < x.at
    BY <1>2, <1>3
  <2>. QED BY <1>2, <1>3, <1>4, <2>1 DEF Settled, Cloning
<1>9. /\ \A i \in DOMAIN clones : clones'[i] = clones[i]
      /\ clones'[Len(clones) + 1] = kept
      /\ \A i \in DOMAIN clones' : i \in DOMAIN clones \/ i = Len(clones) + 1
  BY <1>1, AppendFacts DEF FramesInv
<1>10. KeptInv'
  <2>. SUFFICES ASSUME NEW i \in DOMAIN clones', "_prefix" \in DOMAIN clones'[i].ann
                PROVE  Settled' /\ SideTruth(frames[1].tags, clones[i].tags, clones[i].ann, element.kind)'
    BY DEF KeptInv
  <2>1. CASE i \in DOMAIN clones
    <3>1. /\ Settled /\ SideTruth(frames[1].tags, clones[i].tags, clones[i].ann, element.kind)
          /\ clones'[i] = clones[i]
      BY <1>1, <1>9, <2>1 DEF KeptInv, WorkInv
    <3>. QED BY <1>1, <1>2, <1>4, <1>7, <3>1, SameTopic
  <2>2. CASE i = Len(clones) + 1
    <3>1. clones'[i] = kept
      BY <1>9, <2>2
    <3>2. "_prefix" \in DOMAIN Top.ann
      BY <1>2, <3>1
    <3>3. IsSide(Cloning) /\ SideTruth(frames[1].tags, Top.tags, Top.ann, element.kind)
      BY <1>1, <3>2, SideIsTold
    <3>4. frames'[1].tags = frames[1].tags /\ clones'[i].tags = Top.tags /\ clones'[i].ann = Top.ann
      BY <1>2, <1>4, <3>1
    <3>. QED BY <1>1, <1>8, <3>3, <3>4, SameTopic
  <2>. QED BY <1>9, <2>1, <2>2
<1>11. ScanInv'
  BY <1>1 DEF WorkInv, ScanInv
<1>. QED BY <1>6, <1>10, <1>11 DEF WorkInv

-----------------------------------------------------------------------------
(* From objects to rows.                                                   *)

\* What an object or a row holds for a side is what each parent of it says.
Told(x, kind) == \A P \in x.parents : SideTruth(P, x.obj, x.ann, kind)

ToldInv ==
  /\ \A i \in DOMAIN queue : DOMAIN queue[i].tags \subseteq Keys
  /\ \A i \in DOMAIN out : Told(out[i], element.kind)
  /\ \A i \in DOMAIN made : Told(made[i], made[i].kind)
  /\ \A i \in DOMAIN rows : Told(rows[i], rows[i].kind)

LEMMA ToldSame ==
  ASSUME topic' = topic
  PROVE  \A x, kind : Told(x, kind)' = Told(x, kind)
BY SameTopic DEF Told

LEMMA NoWork ==
  ASSUME frames' = <<>>, scan' = {}
  PROVE  WorkInv'
<1>1. Len(<<>>) = 0
  BY EmptySeq
<1>. QED BY <1>1 DEF WorkInv, LowInv, CloneInv, KeptInv, ScanInv

LEMMA SideInit ==
  ASSUME InputsTagged, RowsInit
  PROVE  WorkInv /\ ToldInv
<1>1. /\ queue \in Inputs /\ frames = <<>> /\ scan = {} /\ out = <<>> /\ made = <<>> /\ rows = <<>>
  BY DEF RowsInit
<1>2. Len(<<>>) = 0
  BY EmptySeq
<1>3. WorkInv
  BY <1>1, <1>2 DEF WorkInv, LowInv, CloneInv, KeptInv, ScanInv
<1>4. ToldInv
  BY <1>1, EmptyIsSeq DEF ToldInv, InputsTagged
<1>. QED BY <1>3, <1>4

\* An element's own object is no side.
LEMMA SideStart ==
  ASSUME FramesInv, WorkInv, frames = <<>>, NEW e, DOMAIN e.tags \subseteq Keys,
         frames' = Started(e), UNCHANGED <<clones, scan>>
  PROVE  WorkInv'
<1>1. clones' = <<>> /\ scan' = {} /\ DOMAIN <<>> = {}
  <2>1. Len(<<>>) = 0
    BY EmptySeq
  <2>. QED BY <2>1, EmptyIsSeq DEF FramesInv, WorkInv, ScanInv
<1>2. CASE frames' = <<>>
  BY <1>1, <1>2, NoWork
<1>3. CASE frames' # <<>>
  <2>. DEFINE ann == IF StampsSide(e.kind) THEN One("_side", "self") ELSE Empty
              f == Frame(e.tags, ann, topic.pipelines[e.kind], 1)
  <2>1. frames' = <<f>>
    BY <1>3 DEF Started, Fresh
  <2>2. f.tags = e.tags /\ f.ann = ann
    BY DEF Frame
  <2>3. "_prefix" \notin DOMAIN ann
    BY DEF One, Empty
  <2>. HIDE DEF f, ann
  <2>4. Len(frames') = 1 /\ frames'[1] = f /\ DOMAIN frames' = {1}
    BY <2>1, SingleIsSeq
  <2>. QED BY <1>1, <2>2, <2>3, <2>4 DEF WorkInv, LowInv, CloneInv, KeptInv, ScanInv
<1>. QED BY <1>2, <1>3

LEMMA SideProbe ==
  ASSUME IInv, WorkInv, ToldInv, NEW k \in probes, Probe(k)
  PROVE  WorkInv' /\ ToldInv'
<1>1. /\ Idle /\ element' = Untagged(k) /\ frames' = Started(Untagged(k))
      /\ UNCHANGED <<topic, queue, scan, clones, out, made, rows>>
  BY DEF Probe, stores
<1>2. frames = <<>> /\ out = <<>>
  BY <1>1 DEF IInv, QueueInv, ElementInv, MadeInv, RowsInv, Idle
<1>3. DOMAIN Untagged(k).tags \subseteq Keys
  BY DEF Untagged, Empty
<1>4. WorkInv'
  BY <1>1, <1>2, <1>3, SideStart DEF IInv, QueueInv, ElementInv, MadeInv, RowsInv, Idle
<1>5. ToldInv'
  BY <1>1, <1>2, ToldSame, EmptyIsSeq DEF ToldInv
<1>. QED BY <1>4, <1>5

LEMMA SideRead ==
  ASSUME IInv, WorkInv, ToldInv, Read
  PROVE  WorkInv' /\ ToldInv'
<1>1. /\ Idle /\ queue # <<>> /\ queue' = Tail(queue)
      /\ element' = Head(queue) /\ frames' = Started(Head(queue))
      /\ UNCHANGED <<topic, scan, clones, out, made, rows>>
  BY DEF Read, stores
<1>2. frames = <<>> /\ out = <<>>
  BY <1>1 DEF IInv, QueueInv, ElementInv, MadeInv, RowsInv, Idle
<1>3. /\ 1 \in DOMAIN queue /\ Head(queue) = queue[1]
      /\ \A i \in DOMAIN queue' : i + 1 \in DOMAIN queue /\ queue'[i] = queue[i + 1]
  BY <1>1, TailFacts DEF IInv, QueueInv, ElementInv, MadeInv, RowsInv, Idle
<1>4. WorkInv'
  BY <1>1, <1>2, <1>3, SideStart DEF IInv, QueueInv, ElementInv, MadeInv, RowsInv, Idle, ToldInv
<1>5. ToldInv'
  BY <1>1, <1>2, <1>3, ToldSame, EmptyIsSeq DEF ToldInv
<1>. QED BY <1>4, <1>5

LEMMA SideApply ==
  ASSUME TopicsHold, IInv, WorkInv, ToldInv, Apply \/ StartClone \/ KeepClone
  PROVE  WorkInv' /\ ToldInv'
<1>1. UNCHANGED <<topic, queue, element, out, made, rows>> /\ frames # <<>> /\ topic \in Topics /\ FramesInv
  BY TransformKeeps DEF input, stores, IInv
<1>2. ToldInv'
  BY <1>1, ToldSame DEF ToldInv
<1>3. ASSUME ApplyRule \/ ApplyDirected PROVE WorkInv'
  <2>1. /\ Running /\ scan = {} /\ scan' = scan /\ Step.do \in {"rule", "directed"} /\ clones' = clones
    BY <1>3 DEF ApplyRule, ApplyDirected, Transforming
  <2>2. PICK after : Writes(Top.tags, after, Step.output) /\ frames' = Advance(after, Top.ann)
    BY <1>3, RuleWrites
  <2>. QED BY <1>1, <2>1, <2>2, WriteStep
<1>. QED BY <1>1, <1>2, <1>3, DropKeeps, SkipKeeps, ScanStarts, VisitKeeps, CloneStarts, CloneKeeps DEF Apply

\* An element's own objects bear no prefix.
LEMMA BaseAnn ==
  ASSUME NEW f, NEW q
  PROVE  \A i \in DOMAIN BaseObjects(f, q) : BaseObjects(f, q)[i].ann = f.ann
<1>1. CASE q # <<>> /\ topic.mode = "fan_out"
  BY <1>1 DEF BaseObjects, Object
<1>2. CASE ~(q # <<>> /\ topic.mode = "fan_out")
  <2>1. \E ps : BaseObjects(f, q) = <<Object(f.tags, ps, f.ann, <<>>)>>
    BY <1>2 DEF BaseObjects
  <2>2. PICK x : BaseObjects(f, q) = <<x>> /\ x.ann = f.ann
    BY <2>1 DEF Object
  <2>. QED BY <2>2, SingleIsSeq
<1>. QED BY <1>1, <1>2

LEMMA SideEndPipeline ==
  ASSUME TopicsHold, IInv, WorkInv, ToldInv, EndPipeline
  PROVE  WorkInv' /\ ToldInv'
<1>1. /\ UNCHANGED <<topic, queue, element, scan, made, rows>>
      /\ Len(frames) = 1 /\ ~Running /\ frames' = <<>>
  BY DEF EndPipeline, input, stores
<1>2. frames # <<>>
  <2>1. Len(<<>>) = 0
    BY EmptySeq
  <2>. QED BY ONLY <1>1, <2>1
<1>3. WorkInv'
  BY <1>1, NoWork DEF WorkInv, ScanInv
<1>4. Top = frames[1] /\ DOMAIN frames = {1}
  BY <1>1, <1>2, FrameShapes DEF IInv, QueueInv, ElementInv, MadeInv, RowsInv, Idle
<1>5. PICK q \in ParentLists(element) : out' = BaseObjects(Top, q) \o CloneObjects(Top)
  BY DEF EndPipeline
<1>. DEFINE b == BaseObjects(Top, q)
            c == CloneObjects(Top)
<1>6. IsSeq(b) /\ IsSeq(c)
  BY <1>2, BaseFacts, CloneFacts DEF IInv, TopicsHold
<1>7. ASSUME NEW i \in DOMAIN b PROVE Told(b[i], element.kind)
  <2>1. "_prefix" \notin DOMAIN b[i].ann
    BY <1>2, <1>4, BaseAnn DEF WorkInv, LowInv
  <2>. QED BY <2>1 DEF Told, SideTruth
<1>8. ASSUME NEW i \in DOMAIN c PROVE Told(c[i], element.kind)
  <2>1. /\ i \in DOMAIN clones /\ c[i].obj = clones[i].tags /\ c[i].ann = clones[i].ann
        /\ c[i].parents = {frames[1].tags}
    BY <1>4 DEF CloneObjects, Object
  <2>2. CASE "_prefix" \in DOMAIN clones[i].ann
    BY <1>2, <2>1, <2>2 DEF Told, WorkInv, KeptInv
  <2>3. CASE "_prefix" \notin DOMAIN clones[i].ann
    BY <2>1, <2>3 DEF Told, SideTruth
  <2>. QED BY <2>2, <2>3
<1>. HIDE DEF b, c
<1>9. \A i \in DOMAIN out' : \/ i \in DOMAIN b /\ out'[i] = b[i]
                             \/ i - Len(b) \in DOMAIN c /\ out'[i] = c[i - Len(b)]
  BY <1>5, <1>6, ConcatFacts DEF b, c
<1>10. \A i \in DOMAIN out' : Told(out'[i], element.kind)
  BY <1>7, <1>8, <1>9
<1>11. ToldInv'
  BY <1>1, <1>10, ToldSame DEF ToldInv
<1>. QED BY <1>3, <1>11

LEMMA SideEmit ==
  ASSUME IInv, WorkInv, ToldInv, Emit
  PROVE  WorkInv' /\ ToldInv'
<1>1. /\ out # <<>> /\ out' = Tail(out)
      /\ UNCHANGED <<topic, queue, element, frames, scan, rows>>
  BY DEF Emit, input, stores
<1>2. IsSeq(out) /\ IsSeq(made) /\ frames = <<>>
  BY <1>1 DEF IInv, QueueInv, ElementInv, MadeInv, RowsInv, Idle, FramesInv
<1>3. WorkInv'
  BY <1>1, <1>2, NoWork DEF WorkInv, ScanInv
<1>4. /\ 1 \in DOMAIN out /\ Head(out) = out[1]
      /\ \A i \in DOMAIN out' : i + 1 \in DOMAIN out /\ out'[i] = out[i + 1]
  BY <1>1, <1>2, TailFacts
<1>5. \A i \in DOMAIN out' : Told(out'[i], element.kind)
  BY <1>4 DEF ToldInv
<1>6. ASSUME \A i \in DOMAIN made' : Told(made'[i], made'[i].kind) PROVE ToldInv'
  <2>1. (\A i \in DOMAIN made : Told(made[i], made[i].kind))'
    BY <1>1, <1>6, ToldSame
  <2>2. (\A i \in DOMAIN out : Told(out[i], element.kind))'
    BY <1>1, <1>5, ToldSame
  <2>3. (\A i \in DOMAIN rows : Told(rows[i], rows[i].kind))'
    BY <1>1, ToldSame DEF ToldInv
  <2>4. (\A i \in DOMAIN queue : DOMAIN queue[i].tags \subseteq Keys)'
    BY <1>1 DEF ToldInv
  <2>. QED BY <2>1, <2>2, <2>3, <2>4 DEF ToldInv
<1>7. CASE made' = made
  BY <1>3, <1>6, <1>7 DEF ToldInv
<1>8. CASE made' # made
  <2>1. PICK row : /\ made' = Append(made, row) /\ row.kind = element.kind /\ row.obj = Head(out).obj
                   /\ row.parents = Head(out).parents /\ row.ann = Head(out).ann
    <3> DEFINE o == Head(out)
               ctx == [obj |-> o.obj, parents |-> o.parents, ann |-> o.ann]
               cats == IF element.kind \in topic.categorized THEN Category(topic, element.kind, ctx)
                       ELSE {Uncategorized}
               row == [kind |-> element.kind, osm |-> element.osm, id |-> RowId(element, o.suffix),
                       category |-> CHOOSE c \in cats : TRUE,
                       produced |-> Produced(o, ctx), ann |-> o.ann,
                       obj |-> o.obj, parents |-> o.parents, suffix |-> o.suffix]
    <3>1. made' = IF cats = {} THEN made ELSE Append(made, row)
      BY DEF Emit
    <3>2. made' = Append(made, row)
      BY <1>8, <3>1
    <3>3. row.kind = element.kind /\ row.obj = o.obj /\ row.parents = o.parents /\ row.ann = o.ann
      OBVIOUS
    <3>. QED BY <3>2, <3>3
  <2>2. /\ \A i \in DOMAIN made : made'[i] = made[i]
        /\ made'[Len(made) + 1] = row
        /\ \A i \in DOMAIN made' : i \in DOMAIN made \/ i = Len(made) + 1
    BY <1>2, <2>1, AppendFacts
  <2>3. Told(row, row.kind)
    BY <1>4, <2>1 DEF ToldInv, Told
  <2>4. \A i \in DOMAIN made' : Told(made'[i], made'[i].kind)
    BY <2>2, <2>3 DEF ToldInv
  <2>. QED BY <1>3, <1>6, <2>4
<1>. QED BY <1>3, <1>7, <1>8

LEMMA SideFinish ==
  ASSUME IInv, WorkInv, ToldInv, FinishProbe \/ FinishElement
  PROVE  WorkInv' /\ ToldInv'
<1>1. /\ frames = <<>> /\ out = <<>> /\ made' = <<>>
      /\ UNCHANGED <<topic, queue, frames, scan, out>>
  BY DEF FinishProbe, FinishElement, Done, input
<1>2. WorkInv'
  BY <1>1, NoWork DEF WorkInv, ScanInv
<1>3. \A i \in DOMAIN rows' : Told(rows'[i], rows'[i].kind)
  <2>1. CASE FinishProbe
    BY <2>1 DEF FinishProbe, stores, ToldInv
  <2>2. CASE FinishElement
    <3>1. rows' = rows \o made
      BY <2>2 DEF FinishElement
    <3>2. \A i \in DOMAIN rows' : \/ i \in DOMAIN rows /\ rows'[i] = rows[i]
                                  \/ i - Len(rows) \in DOMAIN made /\ rows'[i] = made[i - Len(rows)]
      BY <3>1, ConcatFacts DEF IInv, QueueInv, ElementInv, MadeInv, RowsInv, Idle
    <3>. QED BY <3>2 DEF ToldInv
  <2>. QED BY <2>1, <2>2
<1>4. ToldInv'
  BY <1>1, <1>3, ToldSame, EmptyIsSeq DEF ToldInv
<1>. QED BY <1>2, <1>4

LEMMA SideNext ==
  ASSUME TopicsHold, IInv, WorkInv, ToldInv, [RowsNext]_topicVars
  PROVE  WorkInv' /\ ToldInv'
<1>1. CASE UNCHANGED topicVars
  <2>1. UNCHANGED <<topic, queue, element, frames, scan, clones, out, made, rows>>
    BY <1>1 DEF topicVars, input, stores
  <2>2. ToldInv'
    BY <2>1, ToldSame DEF ToldInv
  <2>3. Settled' = Settled /\ Cloning' = Cloning
    BY <2>1 DEF Settled, Cloning
  <2>4. LowInv' /\ ScanInv'
    BY <2>1 DEF WorkInv, LowInv, ScanInv, Running, Step, Top, InClone, Matches
  <2>5. CloneInv'
    BY <2>1, <2>3, SameTopic DEF WorkInv, CloneInv, SameMarks, IsSide, IsClone, Side
  <2>6. KeptInv'
    BY <2>1, <2>3, SameTopic DEF WorkInv, KeptInv
  <2>. QED BY <2>2, <2>4, <2>5, <2>6 DEF WorkInv
<1>2. CASE EndOfInput
  BY <1>1, <1>2 DEF EndOfInput
<1>. QED BY <1>1, <1>2, SideProbe, SideRead, SideApply, SideEndPipeline, SideEmit, SideFinish DEF RowsNext

-----------------------------------------------------------------------------
(* The most specific key wins.                                             *)

\* The first of three keys that holds something is what the layers hold.
LEMMA FirstHolds ==
  ASSUME NEW P, NEW a, NEW b, NEW c
  PROVE  LET ks == <<a, b, c>>
             set == {n \in DOMAIN ks : ks[n] \in DOMAIN P}
         IN  {P[ks[n]] : n \in {m \in set : \A h \in set : m <= h}}
               = Layer(P, a, Layer(P, b, Layer(P, c, {})))
<1>. DEFINE ks == <<a, b, c>>
            set == {n \in DOMAIN ks : ks[n] \in DOMAIN P}
            first == {m \in set : \A h \in set : m <= h}
<1>1. DOMAIN ks = {1, 2, 3} /\ ks[1] = a /\ ks[2] = b /\ ks[3] = c
  OBVIOUS
<1>. HIDE DEF ks
<1>2. CASE a \in DOMAIN P
  <2>1. first = {1}
    BY <1>1, <1>2
  <2>. QED BY <1>1, <1>2, <2>1 DEF Layer
<1>3. CASE a \notin DOMAIN P /\ b \in DOMAIN P
  <2>1. first = {2}
    BY <1>1, <1>3
  <2>. QED BY <1>1, <1>3, <2>1 DEF Layer
<1>4. CASE a \notin DOMAIN P /\ b \notin DOMAIN P /\ c \in DOMAIN P
  <2>1. first = {3}
    BY <1>1, <1>4
  <2>. QED BY <1>1, <1>4, <2>1 DEF Layer
<1>5. CASE a \notin DOMAIN P /\ b \notin DOMAIN P /\ c \notin DOMAIN P
  <2>1. first = {}
    BY <1>1, <1>5
  <2>. QED BY <1>1, <1>5, <2>1 DEF Layer
<1>. QED BY <1>2, <1>3, <1>4, <1>5 DEF ks

LEMMA PairIs ==
  ASSUME NEW p, NEW y
  PROVE  <<p>> \o <<y>> = <<p, y>>
<1>. DEFINE S == {p, y}
<1>1. <<p>> \in Seq(S) /\ <<y>> \in Seq(S) /\ Len(<<p>>) = 1 /\ Len(<<y>>) = 1
  OBVIOUS
<1>2. /\ <<p>> \o <<y>> \in Seq(S) /\ Len(<<p>> \o <<y>>) = 2
      /\ \A i \in 1..2 : (<<p>> \o <<y>>)[i] = IF i <= 1 THEN <<p>>[i] ELSE <<y>>[i - 1]
  BY <1>1, ConcatProperties
<1>3. <<p, y>> \in Seq(S) /\ Len(<<p, y>>) = 2 /\ <<p, y>>[1] = p /\ <<p, y>>[2] = y
  OBVIOUS
<1>4. \A i \in 1..2 : i = 1 \/ i = 2
  OBVIOUS
<1>5. \A i \in 1..2 : (<<p>> \o <<y>>)[i] = <<p, y>>[i]
  BY <1>2, <1>3, <1>4
<1>. HIDE DEF S
<1>. QED BY <1>2, <1>3, <1>5, SeqEqual

LEMMA TripleIs ==
  ASSUME NEW a, NEW b, NEW c
  PROVE  <<a, b>> \o <<c>> = <<a, b, c>>
<1>. DEFINE S == {a, b, c}
<1>1. <<a, b>> \in Seq(S) /\ <<c>> \in Seq(S) /\ Len(<<a, b>>) = 2 /\ Len(<<c>>) = 1
  OBVIOUS
<1>2. /\ <<a, b>> \o <<c>> \in Seq(S) /\ Len(<<a, b>> \o <<c>>) = 3
      /\ \A i \in 1..3 : (<<a, b>> \o <<c>>)[i] = IF i <= 2 THEN <<a, b>>[i] ELSE <<c>>[i - 2]
  BY <1>1, ConcatProperties
<1>3. <<a, b, c>> \in Seq(S) /\ Len(<<a, b, c>>) = 3 /\ <<a, b, c>>[1] = a /\ <<a, b, c>>[2] = b /\ <<a, b, c>>[3] = c
  OBVIOUS
<1>4. \A i \in 1..3 : i = 1 \/ i = 2 \/ i = 3
  OBVIOUS
<1>5. \A i \in 1..3 : (<<a, b>> \o <<c>>)[i] = <<a, b, c>>[i]
  BY <1>2, <1>3, <1>4
<1>. HIDE DEF S
<1>. QED BY <1>2, <1>3, <1>5, SeqEqual

\* What the most specific key of a way says is what three passes over it said.
LEMMA SaysIs ==
  ASSUME NEW P, NEW p \in Words, NEW side, NEW s, s # <<>> => s[1] \notin Sides
  PROVE  Says(P, p, side, s) = SaidBy(P, p, side, s, 3)
<1>. DEFINE a == Key(p, <<side>>, s)
            b == Key(p, <<"both">>, s)
            c == Key(p, <<>>, s)
<1>1. <<p>> \o <<>> = <<p>>
  <2>1. <<p>> \in Seq(Words)
    OBVIOUS
  <2>. QED BY <2>1, ConcatEmptySeq
<1>2. a = <<p, side>> \o s /\ b = <<p, "both">> \o s /\ c = <<p>> \o s
  BY <1>1, PairIs DEF Key
<1>. HIDE DEF a, b, c
<1>3. Sources(p, side, s) = <<a, b>> \o <<c>>
  BY <1>2 DEF Sources
<1>4. Sources(p, side, s) = <<a, b, c>>
  BY <1>3, TripleIs
<1>5. SaidBy(P, p, side, s, 3) = Layer(P, a, Layer(P, b, Layer(P, c, {})))
  BY DEF SaidBy, a, b, c
<1>6. Says(P, p, side, s) = Layer(P, a, Layer(P, b, Layer(P, c, {})))
  BY <1>4, FirstHolds DEF Says
<1>. QED BY <1>5, <1>6

LEMMA SuffixFacts ==
  ASSUME NEW P, NEW p
  PROVE  /\ \A k \in DOMAIN P : k[1] = p => SubSeq(k, 2, Len(k)) \in NamesUnder(P, p)
                                            /\ SubSeq(k, 3, Len(k)) \in NamesUnder(P, p)
         /\ \A s \in NamesUnder(P, p) : \E k \in DOMAIN P : s = SubSeq(k, 2, Len(k)) \/ s = SubSeq(k, 3, Len(k))
BY DEF NamesUnder

\* A row that says what a way does says the most specific of it.
LEMMA TruthIsTold ==
  ASSUME NEW P, NEW r, SideTruth(P, r.obj, r.ann, r.kind), "_prefix" \in DOMAIN r.ann
  PROVE  TellsItsSide(r, P)
<1>. DEFINE p == r.ann["_prefix"]
            side == Side(r.ann)
<1>1. /\ p \in Words \ Sides /\ side \in {"left", "right"} /\ DOMAIN P \subseteq Keys
      /\ Passed(P, r.obj, p, side, r.kind, 3) /\ OfItsSide(P, r.obj, p, side)
  BY DEF SideTruth
<1>. HIDE DEF p, side
<1>2. ASSUME NEW s, Undisputed(P, p, r.kind, s) PROVE Says(P, p, side, s) = Got(r.obj, Name(p, s))
  <2>1. Got(r.obj, Name(p, s)) = SaidBy(P, p, side, s, 3)
    BY <1>1, <1>2 DEF Passed
  <2>2. s # <<>> => s[1] \notin Sides
    BY <1>2 DEF Undisputed
  <2>. QED BY <1>1, <2>1, <2>2, SaysIs
<1>3. ASSUME <<p>> \notin NamesUnder(P, p), OnlyUnnested(r.kind, <<p>>)
      PROVE  Says(P, p, side, <<>>) = Got(r.obj, <<p>>)
  <2>1. ASSUME NEW x \in AnyInfix, Key(p, x, <<p>>) \in DOMAIN P PROVE FALSE
    <3>. DEFINE k == Key(p, x, <<p>>)
    <3>1. x \in Seq(Words) /\ <<p>> \in Seq(Words)
      BY <1>1, AnyInfixFacts
    <3>2. k[1] = p /\ SubSeq(k, Len(x) + 2, Len(k)) = <<p>>
      BY <1>1, <3>1, KeyFacts
    <3>3. Len(x) = 0 \/ Len(x) = 1
      <4>1. CASE x = <<>>
        BY <4>1, EmptySeq
      <4>2. ASSUME NEW y, x = <<y>> PROVE Len(x) = 1
        BY <4>2
      <4>. QED BY <4>1, <4>2, AnyInfixFacts
    <3>. HIDE DEF k
    <3>4. SubSeq(k, 2, Len(k)) = <<p>> \/ SubSeq(k, 3, Len(k)) = <<p>>
      <4>1. Len(x) + 2 = 2 \/ Len(x) + 2 = 3
        <5>1. 0 + 2 = 2 /\ 1 + 2 = 3
          OBVIOUS
        <5>2. CASE Len(x) = 0
          BY ONLY <5>1, <5>2, Zenon
        <5>3. CASE Len(x) = 1
          BY ONLY <5>1, <5>3, Zenon
        <5>. QED BY ONLY <3>3, <5>2, <5>3
      <4>. QED BY ONLY <3>2, <4>1
    <3>. QED BY <1>3, <2>1, <3>2, <3>4, SuffixFacts DEF k
  <2>2. Name(p, <<>>) = <<p>>
    BY DEF Name
  <2>3. Undisputed(P, p, r.kind, <<>>)
    BY <1>3, <2>1, <2>2 DEF Undisputed
  <2>. QED BY <1>2, <2>2, <2>3
<1>4. ASSUME NEW s \in NamesUnder(P, p), s # <<>>, s # <<p>>, s[1] \notin Sides, OnlyUnnested(r.kind, s)
      PROVE  Says(P, p, side, s) = Got(r.obj, s)
  <2>1. s \in Seq(Words)
    <3>1. PICK k \in DOMAIN P : s = SubSeq(k, 2, Len(k)) \/ s = SubSeq(k, 3, Len(k))
      BY SuffixFacts
    <3>2. k \in Keys
      BY <1>1
    <3>3. SubSeq(k, 2, Len(k)) \in Seq(Words)
      BY <3>2, SubKey
    <3>4. SubSeq(k, 3, Len(k)) \in Seq(Words)
      BY <3>2, SubKey
    <3>. QED BY <3>1, <3>3, <3>4
  <2>2. Name(p, s) = s
    BY <1>4 DEF Name
  <2>3. Undisputed(P, p, r.kind, s)
    BY <1>4, <2>1, <2>2 DEF Undisputed
  <2>. QED BY <1>2, <2>2, <2>3
<1>5. ASSUME NEW k \in DOMAIN r.obj, k[1] \in Sides
      PROVE  \E x \in {"both", side} : <<p, x>> \o k \in DOMAIN P
  <2>1. PICK x \in {"both", side} : Key(p, <<x>>, k) \in DOMAIN P
    BY <1>1, <1>5 DEF OfItsSide
  <2>2. Key(p, <<x>>, k) = <<p, x>> \o k
    BY PairIs DEF Key
  <2>. QED BY <2>1, <2>2
<1>. QED BY <1>3, <1>4, <1>5 DEF TellsItsSide, p, side

LEMMA RowsTellTheirSides ==
  ASSUME ToldInv
  PROVE  MostSpecificWins
BY TruthIsTold DEF ToldInv, Told, MostSpecificWins

\* A side object unnested bare, both and then its side says under each name what the most
\* specific key of its way says: the passes of `Unnest` in `InputTransform::apply` settle it
\* in whatever order the tag map gives the keys, for every topic that unnests its sides.
THEOREM SpecificKeysWin ==
  ASSUME DistinctElements, MembersAreWays, InputsTagged,
         TopicsAreLoaded, TopicsWriteKeys, SidesAreUnnested
  PROVE  RowsSpec => []MostSpecificWins
<1>1. RowsInit => IInv /\ ProbesInv /\ WorkInv /\ ToldInv
  BY InitHolds, ProbesHold, SideInit
<1>2. TopicsHold
  BY DEF TopicsHold
<1>3. IInv /\ ProbesInv /\ WorkInv /\ ToldInv /\ [RowsNext]_topicVars => IInv' /\ ProbesInv' /\ WorkInv' /\ ToldInv'
  BY <1>2, NextHolds, ProbesHold, SideNext
<1>4. ToldInv => MostSpecificWins
  BY RowsTellTheirSides
<1>. QED BY <1>1, <1>3, <1>4, PTL DEF RowsSpec

=============================================================================
