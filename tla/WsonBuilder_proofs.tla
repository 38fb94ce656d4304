------------------------- MODULE WsonBuilder_proofs -------------------------
(***************************************************************************)
(* The Builder and the Pool, for every object graph, any nesting of calls, *)
(* any exceptions and any timing of the garbage collector.                 *)
(*                                                                         *)
(* First the types and the buffers.  Then the list of references and the   *)
(* path, the objects that are being written.  The list need not be the     *)
(* path: an exception leaves elements in it that nothing takes out.  But   *)
(* the path is always a subsequence of the list (PathInv), so no object is *)
(* written inside itself.  Getters that call toWson are excluded there:    *)
(* the inner call clears the list of the outer one.  On clean graphs, that *)
(* leave nothing behind, the list is the path exactly (CleanInv).          *)
(*                                                                         *)
(* Last the output.  What each frame has still to write is an encoding, or *)
(* the end of one, and with what has been written it makes up the encoding *)
(* of the root (Due).  That needs some facts about recursive functions,    *)
(* which the encodings are (CommonLemmas).                                 *)
(***************************************************************************)
EXTENDS WsonEncoding, CommonLemmas, SequenceTheorems, FiniteSetTheorems

-----------------------------------------------------------------------------
(* Stacks: the innermost call and the ones around it.                      *)
LEMMA StackProperties ==
  ASSUME NEW S, NEW s \in Seq(S), s # <<>>
  PROVE  /\ Len(s) \in Nat \ {0}
         /\ s[Len(s)] \in S
         /\ SubSeq(s, 1, Len(s) - 1) \in Seq(S)
         /\ Len(SubSeq(s, 1, Len(s) - 1)) = Len(s) - 1
         /\ \A i \in 1..(Len(s) - 1) : SubSeq(s, 1, Len(s) - 1)[i] = s[i]
<1>1. Len(s) \in Nat \ {0} BY EmptySeq
<1>2. \A i \in 1..Len(s) : s[i] \in S BY ElementOfSeq
<1>3. \A i \in 1..(Len(s) - 1) : s[i] \in S BY <1>1, <1>2
<1>4. /\ SubSeq(s, 1, Len(s) - 1) \in Seq(S)
      /\ Len(SubSeq(s, 1, Len(s) - 1)) =
           IF 1 <= Len(s) - 1 THEN Len(s) - 1 - 1 + 1 ELSE 0
      /\ \A i \in 1..(Len(s) - 1 - 1 + 1) :
            SubSeq(s, 1, Len(s) - 1)[i] = s[1 + i - 1]
  BY <1>1, <1>3, SubSeqProperties
<1> DEFINE n == Len(s)
           t == SubSeq(s, 1, n - 1)
<1>5. n \in Nat \ {0} BY <1>1
<1>6. s[n] \in S BY <1>2, <1>5
<1>7. t \in Seq(S) BY <1>4
<1>8. Len(t) = n - 1
  <2>1. Len(t) = IF 1 <= n - 1 THEN n - 1 - 1 + 1 ELSE 0 BY <1>4
  <2> HIDE DEF n, t
  <2> QED BY <2>1, <1>5
<1>9. \A i \in 1..(n - 1) : t[i] = s[i]
  <2>1. \A i \in 1..(n - 1 - 1 + 1) : t[i] = s[1 + i - 1] BY <1>4
  <2> HIDE DEF n, t
  <2> TAKE i \in 1..(n - 1)
  <2>2. i \in 1..(n - 1 - 1 + 1) /\ 1 + i - 1 = i BY <1>5
  <2> QED BY <2>1, <2>2
<1> QED BY <1>5, <1>6, <1>7, <1>8, <1>9

LEMMA PushProperties ==
  ASSUME NEW S, NEW s \in Seq(S), NEW e \in S
  PROVE  /\ Append(s, e) \in Seq(S)
         /\ Len(Append(s, e)) = Len(s) + 1
         /\ \A i \in 1..Len(s) : Append(s, e)[i] = s[i]
         /\ Append(s, e)[Len(s) + 1] = e
BY AppendProperties

LEMMA TopProperties ==
  ASSUME TypeOK, Active
  PROVE  /\ Len(builders) \in Nat \ {0}
         /\ Top \in BuilderSet
         /\ Outer \in Seq(BuilderSet)
         /\ Len(Outer) = Len(builders) - 1
         /\ \A i \in 1..(Len(builders) - 1) : Outer[i] = builders[i]
         /\ Top.list \in Lists /\ Top.buffer \in Buffers
         /\ Top.out \in Seq(TokenSet) /\ Frames \in Seq(FrameSet)
         /\ Refs \in Seq(Objects)
<1>1. /\ Len(builders) \in Nat \ {0}
      /\ Top \in BuilderSet
      /\ Outer \in Seq(BuilderSet)
      /\ Len(Outer) = Len(builders) - 1
      /\ \A i \in 1..(Len(builders) - 1) : Outer[i] = builders[i]
  BY StackProperties DEF TypeOK, Active, Top, Outer
<1>2. /\ Top.list \in Lists /\ Top.buffer \in Buffers
      /\ Top.out \in Seq(TokenSet) /\ Frames \in Seq(FrameSet)
  BY <1>1 DEF BuilderSet, Frames
<1>3. Refs \in Seq(Objects)
  BY <1>2 DEF TypeOK, Refs
<1> QED BY <1>1, <1>2, <1>3

LEMMA FrameProperties ==
  ASSUME TypeOK, Active, Frames # <<>>
  PROVE  Frame \in FrameSet /\ Below \in Seq(FrameSet)
<1>1. Frames \in Seq(FrameSet) BY TopProperties
<1> QED BY <1>1, StackProperties DEF Frame, Below

(* Going on with other frames and output keeps every buffer and list where *)
(* it is.                                                                  *)
LEMMA ContinueProperties ==
  ASSUME TypeOK, Active,
         NEW frames \in Seq(FrameSet), NEW out \in Seq(TokenSet),
         Continue(frames, out)
  PROVE  /\ builders' \in Seq(BuilderSet)
         /\ Len(builders') = Len(builders)
         /\ \A i \in 1..Len(builders) :
              /\ builders'[i].buffer = builders[i].buffer
              /\ builders'[i].list = builders[i].list
         /\ \A i \in 1..(Len(builders) - 1) : builders'[i] = builders[i]
         /\ builders'[Len(builders)].frames = frames
<1> DEFINE c == [Top EXCEPT !.frames = frames, !.out = out]
           n == Len(builders)
<1>1. /\ n \in Nat \ {0} /\ Top \in BuilderSet /\ Outer \in Seq(BuilderSet)
      /\ Len(Outer) = n - 1 /\ \A i \in 1..(n - 1) : Outer[i] = builders[i]
  BY TopProperties
<1>2. /\ c \in BuilderSet /\ c.buffer = Top.buffer /\ c.list = Top.list
      /\ c.frames = frames
  BY <1>1 DEF BuilderSet
<1>3. builders' = Append(Outer, c)
  BY DEF Continue
<1>4. Top = builders[n] BY DEF Top
<1> HIDE DEF c, n
<1>5. /\ builders' \in Seq(BuilderSet)
      /\ Len(builders') = n
      /\ \A i \in 1..(n - 1) : builders'[i] = builders[i]
      /\ builders'[n] = c
  BY <1>1, <1>2, <1>3, PushProperties
<1>6. ASSUME NEW i \in 1..n
      PROVE  /\ builders'[i].buffer = builders[i].buffer
             /\ builders'[i].list = builders[i].list
  <2>1. CASE i = n
    BY <2>1, <1>5, <1>2, <1>4
  <2>2. CASE i # n
    <3>1. i \in 1..(n - 1) BY <2>2, <1>1
    <3> QED BY <3>1, <1>5
  <2> QED BY <2>1, <2>2
<1> QED BY <1>2, <1>5, <1>6 DEF n

-----------------------------------------------------------------------------
(* Tokens and frames.                                                      *)
LEMMA TokenType ==
  ASSUME NEW tag \in {"null", "leaf", "key", "array", "map"}
  PROVE  Token(tag) \in TokenSet
BY DEF Token, TokenSet

LEMMA ItemType ==
  ASSUME NEW o \in Objects, NEW i \in Nat \ {0}, i <= Len(Items[o])
  PROVE  Items[o][i].val \in Values /\ i \in 1..Len(Items[o])
<1>1. Items[o] \in Seq([key : {"key", NullKey}, val : Values])
  BY GraphAssumption
<1>2. i \in 1..Len(Items[o])
  BY <1>1
<1>3. Items[o][i] \in [key : {"key", NullKey}, val : Values]
  BY <1>1, <1>2, ElementOfSeq
<1> QED BY <1>2, <1>3

LEMMA HeaderType ==
  ASSUME NEW o \in Objects
  PROVE  Header(o) \in TokenSet
<1>1. Items[o] \in Seq([key : {"key", NullKey}, val : Values])
  BY GraphAssumption
<1>2. Len(Items[o]) \in Nat /\ DOMAIN Items[o] = 1..Len(Items[o])
  BY <1>1, LenProperties
<1>3. IsFiniteSet(1..Len(Items[o]))
  BY <1>2, FS_Interval
<1>4. Entries(o) \subseteq 1..Len(Items[o])
  BY <1>2 DEF Entries
<1>5. Cardinality(Entries(o)) \in Nat
  BY <1>3, <1>4, FS_Subset, FS_CardinalityType
<1> QED BY <1>2, <1>5 DEF Header, TokenSet

LEMMA FrameTypes ==
  /\ \A val \in Values : [op |-> "write", obj |-> val, next |-> 0] \in FrameSet
  /\ \A o \in Objects : [op |-> "items", obj |-> o, next |-> 1] \in FrameSet
  /\ \A o \in BeanSet : /\ [op |-> "getters", obj |-> o, next |-> 1] \in FrameSet
                       /\ [op |-> "json", obj |-> o, next |-> 1] \in FrameSet
BY DEF FrameSet

(* A frame other than a pending write belongs to an object and moves on to *)
(* its next entry.                                                         *)
LEMMA AdvanceType ==
  ASSUME TypeOK, Active, Frames # <<>>, Frame.op # "write"
  PROVE  /\ Frame.obj \in Objects /\ Frame.next \in Nat \ {0}
         /\ Frame.op \in {"getters", "json"} => Frame.obj \in BeanSet
         /\ Append(Below, [Frame EXCEPT !.next = @ + 1]) \in Seq(FrameSet)
<1>1. Frame \in FrameSet /\ Below \in Seq(FrameSet)
  BY FrameProperties
<1>2. /\ Frame.obj \in Objects /\ Frame.next \in Nat \ {0}
      /\ Frame.op \in {"getters", "json"} => Frame.obj \in BeanSet
  BY <1>1 DEF FrameSet, BeanSet
<1>3. [Frame EXCEPT !.next = @ + 1] \in FrameSet
  <2>1. CASE Frame \in [op : {"items"}, obj : Objects, next : Nat \ {0}]
    BY <2>1 DEF FrameSet
  <2>2. CASE Frame \in [op : {"getters", "json"}, obj : BeanSet, next : Nat \ {0}]
    BY <2>2 DEF FrameSet
  <2>3. CASE Frame \in [op : {"write"}, obj : Values, next : {0}]
    BY <2>3
  <2> QED BY <1>1, <2>1, <2>2, <2>3 DEF FrameSet
<1> QED BY <1>1, <1>2, <1>3, AppendProperties

-----------------------------------------------------------------------------
(* The steps of the walk: all but the calls, the returns and the           *)
(* environment.                                                            *)
Walk ==
  \/ WriteValue \/ WriteThrows \/ WriteCycle \/ WriteContainer \/ WriteBean
  \/ CallGetter \/ WriteBeanMap \/ WriteElement \/ SkipNullEntry \/ WriteEntry
  \/ WriteJson \/ Leave \/ Catch

(* The innermost catch block exists. *)
LEMMA LastCatcher ==
  ASSUME NEW n \in Nat, NEW C, C \subseteq 1..n, C # {}
  PROVE  (CHOOSE i \in C : \A j \in C : j <= i) \in C
<1> DEFINE T == {n - i : i \in C}
<1>1. \A i \in C : i \in Nat /\ n - i \in Nat
  OBVIOUS
<1>2. T \subseteq Nat /\ T # {}
  BY <1>1
<1> HIDE DEF T
<1>3. PICK x \in T : \A y \in T : ~(<<y, x>> \in OpToRel(<, Nat))
  <2> DEFINE R == OpToRel(<, Nat)
  <2>1. IsWellFoundedOn(R, Nat) BY NatLessThanWellFounded
  <2> HIDE DEF R
  <2>2. \E x \in T : \A y \in T : ~(<<y, x>> \in R)
    BY <1>2, <2>1, WFMin
  <2> QED BY <2>2 DEF R
<1>4. \A y \in T : x <= y
  <2> TAKE y \in T
  <2>1. x \in Nat /\ y \in Nat BY <1>2
  <2>2. ~(y < x)
    BY <1>3, <2>1 DEF OpToRel
  <2> QED BY <2>1, <2>2
<1>5. PICK i \in C : x = n - i
  BY DEF T
<1>6. \A j \in C : j <= i
  <2> TAKE j \in C
  <2>1. n - j \in T BY DEF T
  <2>2. n - i <= n - j BY <2>1, <1>4, <1>5
  <2> QED BY <2>2, <1>1
<1> QED BY <1>6

(* The frame whose catch block runs is that of a bean. *)
LastTry == CHOOSE i \in Catchers : \A j \in Catchers : j <= i

LEMMA CatcherProperties ==
  ASSUME Frames \in Seq(FrameSet), Catchers # {}
  PROVE  /\ LastTry \in 1..Len(Frames)
         /\ Frames[LastTry].obj \in BeanSet
<1>1. Catchers \subseteq DOMAIN Frames
  BY DEF Catchers
<1>2. DOMAIN Frames = 1..Len(Frames) /\ Len(Frames) \in Nat
  OBVIOUS
<1>3. LastTry \in Catchers
  BY <1>1, <1>2, LastCatcher DEF LastTry
<1>4. LastTry \in 1..Len(Frames)
  BY <1>1, <1>2, <1>3
<1>5. Frames[LastTry] \in FrameSet
  BY <1>4, ElementOfSeq
<1>6. \/ Frames[LastTry].op = "getters"
      \/ Frames[LastTry].op = "items" /\ Kind[Frames[LastTry].obj] = "bean"
  BY <1>3 DEF Catchers
<1> QED BY <1>4, <1>5, <1>6 DEF FrameSet, BeanSet

(* What the catch block does, with the frame it runs in named.             *)
LEMMA CatchSteps ==
  ASSUME Catch
  PROVE  /\ Active /\ raised /\ Catchers # {}
         /\ special' = special \cup {Class[Frames[LastTry].obj]}
         /\ Continue(Append(SubSeq(Frames, 1, LastTry - 1),
              [op |-> "json", obj |-> Frames[LastTry].obj, next |-> 1]), Top.out)
         /\ raised' = FALSE
         /\ UNCHANGED <<slot, content, result>>
BY DEF Catch, LastTry

LEMMA WalkContinues ==
  ASSUME TypeOK, Walk
  PROVE  /\ Active
         /\ \E frames \in Seq(FrameSet), out \in Seq(TokenSet) :
              Continue(frames, out)
<1> DEFINE Goal == \E frames \in Seq(FrameSet), out \in Seq(TokenSet) :
                     Continue(frames, out)
<1>1. Active
  BY DEF Walk, WriteValue, WriteThrows, WriteCycle, WriteContainer, WriteBean,
     CallGetter, WriteBeanMap, WriteElement, SkipNullEntry, WriteEntry,
     WriteJson, Leave, Catch, Writing, Reading, Iterating, Finished
<1>2. Top.out \in Seq(TokenSet) /\ Frames \in Seq(FrameSet)
  BY <1>1, TopProperties
<1>3. ASSUME NEW t \in TokenSet PROVE Append(Top.out, t) \in Seq(TokenSet)
  BY <1>2, AppendProperties
<1>4. Frames # <<>> => Below \in Seq(FrameSet)
  BY <1>1, FrameProperties
<1>5. ASSUME Below \in Seq(FrameSet), NEW f \in FrameSet
      PROVE  Append(Below, f) \in Seq(FrameSet)
  BY <1>5, AppendProperties
<1>6. CASE WriteValue
  <2>1. Token(IF Frame.obj = Null THEN "null" ELSE "leaf") \in TokenSet
    BY TokenType
  <2> QED BY <1>6, <1>1, <2>1, <1>3, <1>4 DEF WriteValue, Writing
<1>7. CASE WriteThrows
  <2>1. Token("leaf") \in TokenSet BY TokenType
  <2> QED BY <1>7, <1>1, <2>1, <1>3, <1>4 DEF WriteThrows, Writing
<1>8. CASE WriteCycle
  <2>1. Token("null") \in TokenSet BY TokenType
  <2> QED BY <1>8, <1>1, <2>1, <1>3, <1>4 DEF WriteCycle, Writing
<1>9. CASE WriteContainer
  <2>1. Frame.obj \in Objects /\ Frames # <<>>
    BY <1>9 DEF WriteContainer, Writing
  <2>2. Header(Frame.obj) \in TokenSet
    BY <2>1, HeaderType
  <2>3. [op |-> "items", obj |-> Frame.obj, next |-> 1] \in FrameSet
    BY <2>1, FrameTypes
  <2> QED BY <1>9, <1>1, <2>1, <2>2, <2>3, <1>3, <1>4, <1>5 DEF WriteContainer
<1>10. CASE WriteBean
  <2>1. Frame.obj \in BeanSet /\ Frames # <<>>
    BY <1>10 DEF WriteBean, Writing, BeanSet
  <2>2. [op |-> IF Class[Frame.obj] \in special THEN "json" ELSE "getters",
         obj |-> Frame.obj, next |-> 1] \in FrameSet
    BY <2>1, FrameTypes
  <2> QED BY <1>10, <1>1, <1>2, <2>1, <2>2, <1>4, <1>5 DEF WriteBean
<1>11. CASE CallGetter
  <2>1. Frames # <<>> /\ Frame.op # "write"
    BY <1>11 DEF CallGetter, Reading
  <2>2. NextGetter \in Seq(FrameSet)
    BY <1>1, <2>1, AdvanceType DEF NextGetter
  <2> QED BY <1>11, <1>1, <1>2, <2>2 DEF CallGetter
<1>12. CASE WriteBeanMap
  <2>1. Frames # <<>> /\ Frame.op # "write"
    BY <1>12 DEF WriteBeanMap, Reading
  <2>2. Frame.obj \in Objects
    BY <1>1, <2>1, AdvanceType
  <2>3. [op |-> "items", obj |-> Frame.obj, next |-> 1] \in FrameSet
    BY <2>2, FrameTypes
  <2>4. Header(Frame.obj) \in TokenSet
    BY <2>2, HeaderType
  <2> QED BY <1>12, <1>1, <2>1, <2>3, <2>4, <1>3, <1>4, <1>5 DEF WriteBeanMap
<1>13. ASSUME Iterating, Frame.next <= Len(Items[Frame.obj])
       PROVE  /\ NextItem \in Seq(FrameSet)
              /\ Item.val \in Values
  <2>1. Frames # <<>> /\ Frame.op # "write"
    BY <1>13 DEF Iterating
  <2>2. /\ Frame.obj \in Objects /\ Frame.next \in Nat \ {0}
        /\ NextItem \in Seq(FrameSet)
    BY <1>1, <2>1, AdvanceType DEF NextItem
  <2> QED BY <2>2, <1>13, ItemType DEF Item
<1>14. ASSUME NEW fs \in Seq(FrameSet), NEW val \in Values
       PROVE  Append(fs, [op |-> "write", obj |-> val, next |-> 0]) \in Seq(FrameSet)
  BY FrameTypes, AppendProperties
<1>15. CASE WriteElement
  <2>1. NextItem \in Seq(FrameSet) /\ Item.val \in Values
    BY <1>15, <1>13 DEF WriteElement
  <2> QED BY <1>15, <1>1, <1>2, <2>1, <1>14 DEF WriteElement
<1>16. CASE SkipNullEntry
  <2>1. NextItem \in Seq(FrameSet)
    BY <1>16, <1>13 DEF SkipNullEntry
  <2> QED BY <1>16, <1>1, <1>2, <2>1 DEF SkipNullEntry
<1>17. CASE WriteEntry
  <2>1. NextItem \in Seq(FrameSet) /\ Item.val \in Values
    BY <1>17, <1>13 DEF WriteEntry
  <2>2. Written(Item.val) \in Values
    BY <2>1 DEF Written, Values
  <2>3. Token("key") \in TokenSet
    BY TokenType
  <2> QED BY <1>17, <1>1, <2>1, <2>2, <2>3, <1>3, <1>14 DEF WriteEntry
<1>18. CASE WriteJson
  <2>1. Frames # <<>> /\ Frame.op = "json"
    BY <1>18 DEF WriteJson
  <2>2. Frame.obj \in BeanSet /\ NextItem \in Seq(FrameSet)
    BY <1>1, <2>1, AdvanceType DEF NextItem
  <2>3. Json[Frame.obj] # Thrower => Json[Frame.obj] \in Values
    BY <2>2, GraphAssumption DEF BeanSet, Values
  <2> QED BY <1>18, <1>1, <1>2, <1>4, <2>1, <2>2, <2>3, <1>14 DEF WriteJson
<1>19. CASE Leave
  BY <1>19, <1>1, <1>2, <1>4 DEF Leave, Finished
<1>20. CASE Catch
  <2>1. LastTry \in 1..Len(Frames) /\ Frames[LastTry].obj \in BeanSet
    BY <1>20, <1>2, CatchSteps, CatcherProperties
  <2>2. SubSeq(Frames, 1, LastTry - 1) \in Seq(FrameSet)
    <3>1. \A i \in 1..(LastTry - 1) : Frames[i] \in FrameSet
      BY <2>1, <1>2, ElementOfSeq
    <3> QED BY <2>1, <3>1, SubSeqProperties
  <2>3. [op |-> "json", obj |-> Frames[LastTry].obj, next |-> 1] \in FrameSet
    BY <2>1, FrameTypes
  <2>4. Append(SubSeq(Frames, 1, LastTry - 1),
               [op |-> "json", obj |-> Frames[LastTry].obj, next |-> 1])
          \in Seq(FrameSet)
    BY <2>2, <2>3, AppendProperties
  <2> QED BY <1>20, <1>1, <1>2, <2>4, CatchSteps
<1> QED
  BY <1>6, <1>7, <1>8, <1>9, <1>10, <1>11, <1>12, <1>15, <1>16, <1>17, <1>18,
     <1>19, <1>20 DEF Walk

(* What the walk does to the rest of the state. *)
LEMMA WalkKeeps ==
  ASSUME TypeOK, Walk
  PROVE  /\ slot' = slot
         /\ result' = result
         /\ content' \in [Lists -> Seq(Objects)]
         /\ special' \subseteq {Class[o] : o \in BeanSet}
         /\ raised' \in BOOLEAN
<1> DEFINE Keeps == /\ slot' = slot
                    /\ result' = result
                    /\ content' \in [Lists -> Seq(Objects)]
                    /\ special' \subseteq {Class[o] : o \in BeanSet}
                    /\ raised' \in BOOLEAN
<1>1. /\ content \in [Lists -> Seq(Objects)]
      /\ special \subseteq {Class[o] : o \in BeanSet}
      /\ raised \in BOOLEAN
  BY DEF TypeOK
<1>2. Active
  BY WalkContinues
<1>3. Top.list \in Lists /\ Refs \in Seq(Objects)
  BY <1>2, TopProperties
<1>4. ASSUME NEW o \in Objects, Push(o)
      PROVE  content' \in [Lists -> Seq(Objects)]
  <2>1. Append(content[Top.list], o) \in Seq(Objects)
    BY <1>3, AppendProperties DEF Refs
  <2> QED BY <2>1, <1>1, <1>3, <1>4 DEF Push
<1>5. CASE WriteValue \/ WriteCycle \/ CallGetter \/ WriteBeanMap \/ WriteElement
           \/ SkipNullEntry \/ WriteEntry
  BY <1>5, <1>1 DEF WriteValue, WriteCycle, CallGetter, WriteBeanMap,
     WriteElement, SkipNullEntry, WriteEntry
<1>6. CASE WriteThrows
  BY <1>6, <1>1 DEF WriteThrows
<1>7. CASE WriteContainer
  BY <1>7, <1>1, <1>4 DEF WriteContainer
<1>8. CASE WriteBean
  BY <1>8, <1>1, <1>4 DEF WriteBean
<1>9. CASE WriteJson
  BY <1>9, <1>1 DEF WriteJson
<1>10. CASE Leave
  <2>1. CASE Refs = <<>>
    BY <1>10, <2>1, <1>1 DEF Leave
  <2>2. CASE Refs # <<>>
    <3>1. SubSeq(Refs, 1, Len(Refs) - 1) \in Seq(Objects)
      BY <1>3, <2>2, StackProperties
    <3>2. content' = [content EXCEPT ![Top.list] = SubSeq(Refs, 1, Len(Refs) - 1)]
      BY <1>10, <2>2 DEF Leave, Refs
    <3>3. content' \in [Lists -> Seq(Objects)]
      BY <3>1, <3>2, <1>1, <1>3
    <3> QED BY <1>10, <2>2, <3>3, <1>1 DEF Leave
  <2> QED BY <2>1, <2>2
<1>11. CASE Catch
  <2>1. Frames[LastTry].obj \in BeanSet
    BY <1>11, <1>2, TopProperties, CatchSteps, CatcherProperties
  <2>2. special' \subseteq {Class[o] : o \in BeanSet}
    BY <1>11, <2>1, <1>1, CatchSteps
  <2> QED BY <1>11, <2>2, <1>1, CatchSteps
<1> QED BY <1>5, <1>6, <1>7, <1>8, <1>9, <1>10, <1>11 DEF Walk

-----------------------------------------------------------------------------
(* Opening a call on top of the active ones.                               *)
LEMMA OpenProperties ==
  ASSUME TypeOK, NEW root \in Objects, NEW active \in Seq(BuilderSet),
         Open(root, active)
  PROVE  /\ builders' \in Seq(BuilderSet)
         /\ Len(builders') = Len(active) + 1
         /\ \A i \in 1..Len(active) : builders'[i] = active[i]
         /\ builders'[Len(active) + 1].buffer \in Buffers
         /\ \/ /\ slot.buffer # None
               /\ builders'[Len(active) + 1].buffer = slot.buffer
            \/ builders'[Len(active) + 1].buffer \notin HeldBuffers
         /\ slot' = [slot EXCEPT !.buffer = None]
         /\ content' \in [Lists -> Seq(Objects)]
<1>1. PICK b \in Buffers, l \in Lists :
        /\ RequireBuffer(b)
        /\ RequireArrayList(l)
        /\ slot' = [slot EXCEPT !.buffer = None]
        /\ builders' = Append(active, Builder(root, b, l))
  BY DEF Open
<1>2. Builder(root, b, l) \in BuilderSet /\ Builder(root, b, l).buffer = b
  <2>1. [op |-> "write", obj |-> root, next |-> 0] \in FrameSet
    BY FrameTypes DEF Values
  <2>2. <<[op |-> "write", obj |-> root, next |-> 0]>> \in Seq(FrameSet)
    BY <2>1
  <2> QED BY <2>2 DEF Builder, BuilderSet
<1>3. /\ builders' \in Seq(BuilderSet)
      /\ Len(builders') = Len(active) + 1
      /\ \A i \in 1..Len(active) : builders'[i] = active[i]
      /\ builders'[Len(active) + 1] = Builder(root, b, l)
  BY <1>1, <1>2, PushProperties
<1>4. content' \in [Lists -> Seq(Objects)]
  <2>1. <<>> \in Seq(Objects) BY EmptySeq
  <2> QED BY <1>1, <2>1 DEF RequireArrayList, TypeOK
<1>5. \/ slot.buffer # None /\ b = slot.buffer
      \/ b \notin HeldBuffers
  BY <1>1 DEF RequireBuffer
<1> QED BY <1>1, <1>2, <1>3, <1>4, <1>5

-----------------------------------------------------------------------------
(* The inductive invariant: types, and buffers lent to one builder each.   *)
Inv == TypeOK /\ BuffersExclusive

LEMMA BuildersDomain ==
  ASSUME TypeOK
  PROVE  Len(builders) \in Nat /\ DOMAIN builders = 1..Len(builders)
BY LenProperties DEF TypeOK

LEMMA InitInv == Init => Inv
<1> SUFFICES ASSUME Init PROVE Inv
  OBVIOUS
<1>1. TypeOK
  <2>1. <<>> \in Seq(BuilderSet) /\ <<>> \in Seq(Objects) /\ <<>> \in Seq(TokenSet)
    BY EmptySeq
  <2> QED BY <2>1 DEF Init, TypeOK
<1>2. BuffersExclusive
  <2>1. builders = <<>> /\ slot.buffer = None BY DEF Init
  <2>2. DOMAIN builders = {} BY <2>1
  <2> QED BY <2>2 DEF BuffersExclusive, HeldBuffers
<1> QED BY <1>1, <1>2 DEF Inv

(* A step that keeps the stack, its buffers and the pool's buffer. *)
LEMMA SameBuffers ==
  ASSUME Inv, TypeOK', slot'.buffer = slot.buffer \/ slot'.buffer = None,
         Len(builders') = Len(builders),
         \A i \in 1..Len(builders) : builders'[i].buffer = builders[i].buffer
  PROVE  BuffersExclusive'
<1> DEFINE n == Len(builders)
<1>1. n \in Nat /\ DOMAIN builders = 1..n /\ DOMAIN builders' = 1..n
  <2>1. Len(builders') \in Nat /\ DOMAIN builders' = 1..Len(builders')
    BY LenProperties DEF TypeOK
  <2> QED BY <2>1, BuildersDomain DEF Inv
<1>2. \A i \in 1..n : builders[i] \in BuilderSet
  BY ElementOfSeq DEF Inv, TypeOK
<1>3. \A i \in 1..n : builders[i].buffer \in Buffers
  BY <1>2 DEF BuilderSet
<1>4. /\ \A i, j \in 1..n : builders[i].buffer = builders[j].buffer => i = j
      /\ \A i \in 1..n : builders[i].buffer # slot.buffer
  BY <1>1 DEF Inv, BuffersExclusive, HeldBuffers
<1>5. \A i \in 1..n : builders[i].buffer # slot'.buffer
  BY <1>3, <1>4, GraphAssumption
<1> HIDE DEF n
<1> QED BY <1>1, <1>4, <1>5 DEF BuffersExclusive, HeldBuffers, n

(* A new call takes the pooled buffer out of the pool, or a new one. *)
LEMMA OpenExclusive ==
  ASSUME Inv, TypeOK', slot'.buffer = None, NEW n \in Nat, n = Len(builders),
         Len(builders') = n + 1,
         \A i \in 1..n : builders'[i].buffer = builders[i].buffer,
         \/ slot.buffer # None /\ builders'[n + 1].buffer = slot.buffer
         \/ builders'[n + 1].buffer \notin HeldBuffers
  PROVE  BuffersExclusive'
<1>1. DOMAIN builders = 1..n /\ DOMAIN builders' = 1..(n + 1)
  <2>1. DOMAIN builders' = 1..Len(builders')
    BY LenProperties DEF TypeOK
  <2> QED BY <2>1, BuildersDomain DEF Inv
<1>2. \A i \in 1..(n + 1) : builders'[i].buffer \in Buffers
  <2>1. \A i \in 1..(n + 1) : builders'[i] \in BuilderSet
    BY ElementOfSeq DEF TypeOK
  <2> QED BY <2>1 DEF BuilderSet
<1>3. /\ \A i, j \in 1..n : builders[i].buffer = builders[j].buffer => i = j
      /\ \A i \in 1..n : builders[i].buffer # slot.buffer
  BY <1>1 DEF Inv, BuffersExclusive, HeldBuffers
<1>4. \A i \in 1..n : builders'[n + 1].buffer # builders'[i].buffer
  BY <1>1, <1>3 DEF HeldBuffers
<1>5. \A i, j \in 1..(n + 1) :
         builders'[i].buffer = builders'[j].buffer => i = j
  <2> TAKE i, j \in 1..(n + 1)
  <2>1. CASE i \in 1..n /\ j \in 1..n
    BY <2>1, <1>3
  <2>2. CASE i = n + 1 \/ j = n + 1
    BY <2>2, <1>4
  <2> QED BY <2>1, <2>2
<1>6. \A i \in 1..(n + 1) : builders'[i].buffer # slot'.buffer
  BY <1>2, GraphAssumption
<1> QED BY <1>1, <1>5, <1>6 DEF BuffersExclusive, HeldBuffers

(* A call that ends, normally or not, gives its buffer to the pool or to   *)
(* the collector.                                                          *)
LEMMA CloseExclusive ==
  ASSUME Inv, TypeOK', Active, builders' = Outer,
         slot'.buffer \in {slot.buffer, Top.buffer}
  PROVE  BuffersExclusive'
<1> DEFINE n == Len(builders)
<1>1. /\ n \in Nat \ {0} /\ Outer \in Seq(BuilderSet) /\ Len(Outer) = n - 1
      /\ \A i \in 1..(n - 1) : Outer[i] = builders[i]
  BY TopProperties DEF Inv
<1>2. DOMAIN builders = 1..n /\ DOMAIN builders' = 1..(n - 1)
  BY <1>1, BuildersDomain, LenProperties DEF Inv
<1>3. /\ \A i, j \in 1..n : builders[i].buffer = builders[j].buffer => i = j
      /\ \A i \in 1..n : builders[i].buffer # slot.buffer
  BY <1>2 DEF Inv, BuffersExclusive, HeldBuffers
<1>4. Top = builders[n]
  BY DEF Top
<1> HIDE DEF n
<1>5. \A i \in 1..(n - 1) : i \in 1..n /\ i # n /\ n \in 1..n
  BY <1>1
<1>6. \A i \in 1..(n - 1) : builders'[i].buffer # slot'.buffer
  BY <1>1, <1>3, <1>4, <1>5
<1>7. \A i, j \in 1..(n - 1) :
         builders'[i].buffer = builders'[j].buffer => i = j
  BY <1>1, <1>3, <1>5
<1> QED BY <1>2, <1>6, <1>7 DEF BuffersExclusive, HeldBuffers

LEMMA NextInv == Inv /\ [Next]_vars => Inv'
<1> SUFFICES ASSUME Inv, [Next]_vars PROVE Inv'
  OBVIOUS
<1> USE DEF Inv
<1>1. CASE Walk
  <2>1. /\ slot' = slot /\ result' = result
        /\ content' \in [Lists -> Seq(Objects)]
        /\ special' \subseteq {Class[o] : o \in BeanSet}
        /\ raised' \in BOOLEAN
    BY <1>1, WalkKeeps
  <2>2. /\ builders' \in Seq(BuilderSet)
        /\ Len(builders') = Len(builders)
        /\ \A i \in 1..Len(builders) : builders'[i].buffer = builders[i].buffer
    BY <1>1, WalkContinues, ContinueProperties
  <2>3. TypeOK'
    BY <2>1, <2>2 DEF TypeOK
  <2> QED BY <2>1, <2>2, <2>3, SameBuffers
<1>2. CASE Call
  <2>1. PICK root \in Roots : Open(root, builders)
    BY <1>2 DEF Call
  <2>2. root \in Objects /\ builders \in Seq(BuilderSet)
    BY GraphAssumption DEF TypeOK
  <2>3. /\ builders' \in Seq(BuilderSet)
        /\ Len(builders') = Len(builders) + 1
        /\ \A i \in 1..Len(builders) : builders'[i] = builders[i]
        /\ \/ /\ slot.buffer # None
              /\ builders'[Len(builders) + 1].buffer = slot.buffer
           \/ builders'[Len(builders) + 1].buffer \notin HeldBuffers
        /\ slot' = [slot EXCEPT !.buffer = None]
        /\ content' \in [Lists -> Seq(Objects)]
    BY <2>1, <2>2, OpenProperties
  <2>4. slot' \in [buffer : Buffers \cup {None}, list : Lists \cup {None}]
        /\ slot'.buffer = None
    BY <2>3 DEF TypeOK
  <2>5. TypeOK'
    BY <1>2, <2>3, <2>4 DEF Call, TypeOK
  <2>6. Len(builders) \in Nat
    BY BuildersDomain
  <2> QED BY <2>3, <2>4, <2>5, <2>6, OpenExclusive
<1>3. CASE GetterCalls
  <2> DEFINE c == [Top EXCEPT !.frames = NextGetter]
             active == Append(Outer, c)
             n == Len(builders)
  <2>1. Active /\ Frames # <<>> /\ Frame.op # "write"
    BY <1>3 DEF GetterCalls, Reading
  <2>2. PICK root \in Roots : Open(root, active)
    BY <1>3 DEF GetterCalls
  <2>3. root \in Objects
    BY GraphAssumption
  <2>4. NextGetter \in Seq(FrameSet)
    BY <2>1, AdvanceType DEF NextGetter
  <2>5. /\ n \in Nat \ {0} /\ Top \in BuilderSet /\ Outer \in Seq(BuilderSet)
        /\ Len(Outer) = n - 1 /\ \A i \in 1..(n - 1) : Outer[i] = builders[i]
        /\ Top = builders[n]
    BY <2>1, TopProperties DEF Top
  <2>6. c \in BuilderSet /\ c.buffer = builders[n].buffer
    BY <2>4, <2>5 DEF BuilderSet
  <2> HIDE DEF c, n
  <2>7. /\ active \in Seq(BuilderSet) /\ Len(active) = n
        /\ \A i \in 1..(n - 1) : active[i] = builders[i]
        /\ active[n] = c
    BY <2>5, <2>6, PushProperties
  <2>8. \A i \in 1..n : active[i].buffer = builders[i].buffer
    <3> TAKE i \in 1..n
    <3>1. i = n \/ i \in 1..(n - 1) BY <2>5
    <3> QED BY <3>1, <2>6, <2>7
  <2> HIDE DEF active
  <2>9. /\ builders' \in Seq(BuilderSet)
        /\ Len(builders') = n + 1
        /\ \A i \in 1..n : builders'[i] = active[i]
        /\ \/ /\ slot.buffer # None
              /\ builders'[n + 1].buffer = slot.buffer
           \/ builders'[n + 1].buffer \notin HeldBuffers
        /\ slot' = [slot EXCEPT !.buffer = None]
        /\ content' \in [Lists -> Seq(Objects)]
    BY <2>2, <2>3, <2>7, OpenProperties
  <2>10. slot' \in [buffer : Buffers \cup {None}, list : Lists \cup {None}]
         /\ slot'.buffer = None
    BY <2>9 DEF TypeOK
  <2>11. TypeOK'
    BY <1>3, <2>9, <2>10 DEF GetterCalls, TypeOK
  <2>12. \A i \in 1..n : builders'[i].buffer = builders[i].buffer
    BY <2>8, <2>9
  <2>13. n \in Nat /\ n = Len(builders)
    BY <2>5 DEF n
  <2> QED BY <2>9, <2>10, <2>11, <2>12, <2>13, OpenExclusive
<1>4. CASE Return
  <2>1. Active /\ builders' = Outer
    BY <1>4 DEF Return
  <2>2. /\ Top \in BuilderSet /\ Outer \in Seq(BuilderSet)
        /\ Top.list \in Lists /\ Top.buffer \in Buffers
        /\ Top.out \in Seq(TokenSet)
    BY <2>1, TopProperties
  <2>3. Top.root \in Objects
    BY <2>2 DEF BuilderSet
  <2>4. /\ slot' \in [buffer : Buffers \cup {None}, list : Lists \cup {None}]
        /\ slot'.buffer \in {slot.buffer, Top.buffer}
    BY <1>4, <2>2 DEF Return, TypeOK
  <2>5. content' \in [Lists -> Seq(Objects)]
    <3>1. <<>> \in Seq(Objects) BY EmptySeq
    <3> QED BY <1>4, <2>2, <3>1 DEF Return, TypeOK
  <2>6. result' \in [root : Objects \cup {None}, out : Seq(TokenSet)]
    BY <1>4, <2>2, <2>3 DEF Return
  <2>7. TypeOK'
    BY <1>4, <2>1, <2>2, <2>4, <2>5, <2>6 DEF Return, TypeOK
  <2> QED BY <2>1, <2>4, <2>7, CloseExclusive
<1>5. CASE GetterThrows \/ NullKeyThrows
  <2>1. TypeOK' /\ builders' = builders /\ slot' = slot
    BY <1>5 DEF GetterThrows, NullKeyThrows, TypeOK
  <2> QED BY <2>1, SameBuffers
<1>6. CASE Abandon \/ Overflow
  <2>1. Active /\ builders' = Outer /\ slot' = slot
    BY <1>6 DEF Abandon, Overflow, Writing
  <2>2. Outer \in Seq(BuilderSet)
    BY <2>1, TopProperties
  <2>3. raised' \in BOOLEAN
    BY <1>6 DEF Abandon, Overflow
  <2>4. TypeOK'
    BY <1>6, <2>1, <2>2, <2>3 DEF Abandon, Overflow, TypeOK
  <2> QED BY <2>1, <2>4, CloseExclusive
<1>7. CASE Collect
  <2>1. /\ slot' \in [buffer : Buffers \cup {None}, list : Lists \cup {None}]
        /\ slot'.buffer = slot.buffer \/ slot'.buffer = None
    BY <1>7 DEF Collect, TypeOK
  <2>2. TypeOK' /\ builders' = builders
    BY <1>7, <2>1 DEF Collect, TypeOK
  <2> QED BY <2>1, <2>2, SameBuffers
<1>8. CASE Evict
  <2>1. TypeOK' /\ builders' = builders /\ slot' = slot
    BY <1>8 DEF Evict, TypeOK
  <2> QED BY <2>1, SameBuffers
<1>9. CASE UNCHANGED vars
  <2>1. TypeOK' /\ builders' = builders /\ slot' = slot
    BY <1>9 DEF vars, TypeOK
  <2> QED BY <2>1, SameBuffers
<1> QED
  BY <1>1, <1>2, <1>3, <1>4, <1>5, <1>6, <1>7, <1>8, <1>9 DEF Next, Run, Walk

(* Every value of the state has its type: in particular every frame of the *)
(* walk belongs to an object of the graph.                                 *)
THEOREM TypeCorrect == Spec => []TypeOK
<1>1. Inv => TypeOK
  BY DEF Inv
<1> QED BY <1>1, InitInv, NextInv, PTL DEF Spec

(* Pool.requireBuffer lends a buffer to one builder at a time, however     *)
(* calls nest on the thread, whichever of them throw and whenever the      *)
(* collector clears the pool's reference.                                  *)
THEOREM BuffersAreExclusive == Spec => []BuffersExclusive
<1>1. Inv => BuffersExclusive
  BY DEF Inv
<1> QED BY <1>1, InitInv, NextInv, PTL DEF Spec

-----------------------------------------------------------------------------
(* The list of references and the path.                                    *)

NoCallers ==
  \A o \in Reachable : \A i \in DOMAIN Items[o] : Items[o][i].val # Caller

(* How many of the frames stand for an object being written. *)
Depth(fs) ==
  IF fs # <<>> /\ fs[Len(fs)].op = "write" THEN Len(fs) - 1 ELSE Len(fs)

(* The first d frames are found in refs, in this order, at the places f. *)
Embeds(f, fs, d, refs) ==
  /\ f \in [1..d -> 1..Len(refs)]
  /\ \A i, j \in 1..d : i < j => f[i] < f[j]
  /\ \A i \in 1..d : refs[f[i]] = fs[i].obj

Walked(fs, refs) ==
  /\ \A i \in 1..(Len(fs) - 1) : fs[i].op # "write"
  /\ \A i, j \in 1..Depth(fs) : fs[i].obj = fs[j].obj => i = j
  /\ \E f : Embeds(f, fs, Depth(fs), refs)

(* Every object being written, or about to be, is in reach of a root. *)
Reached ==
  Active => \A i \in 1..Len(Frames) :
              Frames[i].obj \in Objects => Frames[i].obj \in Reachable

PathInv ==
  /\ Len(builders) <= 1
  /\ Active => Walked(Frames, Refs)

-----------------------------------------------------------------------------
(* Stacks of frames.                                                       *)

LEMMA DepthType ==
  ASSUME NEW fs \in Seq(FrameSet)
  PROVE  Depth(fs) \in Nat /\ Depth(fs) <= Len(fs)
<1>1. Len(fs) \in Nat /\ (fs # <<>> => Len(fs) \in Nat \ {0})
  BY EmptySeq
<1> QED BY <1>1 DEF Depth

(* A write that was begun, before anything is known of it. *)
LEMMA FreshWalk ==
  ASSUME NEW fr \in FrameSet, fr.op = "write", NEW refs \in Seq(Objects)
  PROVE  Walked(<<fr>>, refs)
<1> DEFINE fs == <<fr>>
           f == [i \in 1..0 |-> 1]
<1>1. Len(fs) = 1 /\ fs[1] = fr /\ fs # <<>>
  OBVIOUS
<1>2. Depth(fs) = 0
  BY <1>1 DEF Depth
<1>3. 1..0 = {} /\ f \in [1..0 -> 1..Len(refs)]
  OBVIOUS
<1> HIDE DEF f, fs
<1>4. Embeds(f, fs, 0, refs)
  BY <1>3 DEF Embeds
<1>5. \A i \in 1..(Len(fs) - 1) : fs[i].op # "write"
  BY <1>1
<1> QED BY <1>2, <1>3, <1>4, <1>5 DEF Walked, fs

(* The stack shrinks to some of the objects, or goes on with the same.     *)
LEMMA PrefixWalk ==
  ASSUME NEW fs \in Seq(FrameSet), NEW gs \in Seq(FrameSet), NEW refs,
         Walked(fs, refs), Depth(gs) <= Depth(fs),
         \A i \in 1..(Len(gs) - 1) : gs[i].op # "write",
         \A i \in 1..Depth(gs) : gs[i].obj = fs[i].obj
  PROVE  Walked(gs, refs)
<1> DEFINE d == Depth(fs)
           e == Depth(gs)
<1>1. d \in Nat /\ e \in Nat /\ e <= d
  BY DepthType
<1>2. PICK f : Embeds(f, fs, d, refs)
  BY DEF Walked
<1>3. \A i, j \in 1..d : fs[i].obj = fs[j].obj => i = j
  BY DEF Walked
<1>4. \A i \in 1..e : gs[i].obj = fs[i].obj
  OBVIOUS
<1> HIDE DEF d, e
<1> DEFINE g == [i \in 1..e |-> f[i]]
<1>5. Embeds(g, gs, e, refs)
  BY <1>1, <1>2, <1>4 DEF Embeds
<1>6. \A i, j \in 1..e : gs[i].obj = gs[j].obj => i = j
  BY <1>1, <1>3, <1>4
<1> QED BY <1>5, <1>6 DEF Walked, e

(* An object that refs does not hold is begun and recorded. *)
LEMMA PushWalk ==
  ASSUME NEW fs \in Seq(FrameSet), NEW refs \in Seq(Objects), NEW o \in Objects,
         NEW fr \in FrameSet, fr.op # "write", fr.obj = o,
         Walked(fs, refs), fs # <<>>, fs[Len(fs)].op = "write",
         \A i \in 1..Len(refs) : refs[i] # o
  PROVE  Walked(Append(SubSeq(fs, 1, Len(fs) - 1), fr), Append(refs, o))
<1> DEFINE n == Len(fs)
           m == Len(refs)
           below == SubSeq(fs, 1, n - 1)
           gs == Append(below, fr)
           more == Append(refs, o)
<1>1. /\ n \in Nat \ {0} /\ below \in Seq(FrameSet) /\ Len(below) = n - 1
      /\ \A i \in 1..(n - 1) : below[i] = fs[i]
  BY StackProperties
<1>2. m \in Nat
  OBVIOUS
<1>3. Depth(fs) = n - 1
  BY DEF Depth
<1>4. /\ gs \in Seq(FrameSet) /\ Len(gs) = n
      /\ \A i \in 1..(n - 1) : gs[i] = fs[i]
      /\ gs[n] = fr
  <2> HIDE DEF below, n
  <2> QED BY <1>1, PushProperties
<1>5. /\ Len(more) = m + 1
      /\ \A i \in 1..m : more[i] = refs[i]
      /\ more[m + 1] = o
  BY PushProperties
<1>6. PICK f : Embeds(f, fs, n - 1, refs)
  BY <1>3 DEF Walked
<1>7. /\ \A i \in 1..(n - 1) : fs[i].op # "write"
      /\ \A i, j \in 1..(n - 1) : fs[i].obj = fs[j].obj => i = j
  BY <1>3 DEF Walked
<1>8. \A i \in 1..m : refs[i] # o
  OBVIOUS
<1> HIDE DEF n, m, below, gs, more
<1>9. Depth(gs) = n
  <2>1. gs[Len(gs)] = fr BY <1>4
  <2> QED BY <2>1, <1>4 DEF Depth
<1>10. \A i \in 1..(n - 1) : fs[i].obj # o
  BY <1>6, <1>8 DEF Embeds
<1>11. \A i, j \in 1..n : gs[i].obj = gs[j].obj => i = j
  <2> TAKE i, j \in 1..n
  <2>1. (i = n \/ i \in 1..(n - 1)) /\ (j = n \/ j \in 1..(n - 1))
    BY <1>1
  <2> QED BY <2>1, <1>4, <1>7, <1>10
<1> DEFINE g == [i \in 1..n |-> IF i = n THEN m + 1 ELSE f[i]]
<1>12. Embeds(g, gs, n, more)
  <2>1. \A i \in 1..(n - 1) : f[i] \in 1..m
    BY <1>6 DEF Embeds, m
  <2>2. \A i \in 1..n : i = n \/ i \in 1..(n - 1)
    BY <1>1
  <2>3. n \in 1..n
    BY <1>1
  <2>4. g \in [1..n -> 1..Len(more)]
    BY <2>1, <2>2, <1>2, <1>5
  <2>5. \A i, j \in 1..n : i < j => g[i] < g[j]
    <3> TAKE i, j \in 1..n
    <3> HAVE i < j
    <3>1. i \in 1..(n - 1) BY <1>1
    <3>2. CASE j = n
      BY <3>1, <3>2, <2>1, <1>2
    <3>3. CASE j # n
      <4>1. j \in 1..(n - 1) BY <3>3, <2>2
      <4>2. f[i] < f[j] BY <3>1, <4>1, <1>6 DEF Embeds
      <4> QED BY <3>1, <4>1, <4>2
    <3> QED BY <3>2, <3>3
  <2>6. \A i \in 1..n : more[g[i]] = gs[i].obj
    <3> TAKE i \in 1..n
    <3>1. CASE i = n
      BY <3>1, <1>4, <1>5
    <3>2. CASE i # n
      <4>1. i \in 1..(n - 1) BY <3>2, <2>2
      <4>2. refs[f[i]] = fs[i].obj /\ f[i] \in 1..m BY <4>1, <2>1, <1>6 DEF Embeds
      <4> QED BY <4>1, <4>2, <3>2, <1>4, <1>5
    <3> QED BY <3>1, <3>2
  <2> QED BY <2>4, <2>5, <2>6 DEF Embeds
<1>13. Len(gs) - 1 = n - 1 /\ \A i \in 1..(n - 1) : gs[i].op # "write"
  BY <1>1, <1>4, <1>7
<1>14. Walked(gs, more)
  BY <1>9, <1>11, <1>12, <1>13 DEF Walked
<1> QED BY <1>14 DEF gs, more, below, n

(* An object is done, and the last element of refs, whatever it is, goes.  *)
LEMMA PopWalk ==
  ASSUME NEW fs \in Seq(FrameSet), NEW refs \in Seq(Objects),
         Walked(fs, refs), fs # <<>>, fs[Len(fs)].op # "write"
  PROVE  /\ refs # <<>>
         /\ Walked(SubSeq(fs, 1, Len(fs) - 1), SubSeq(refs, 1, Len(refs) - 1))
<1> DEFINE n == Len(fs)
           m == Len(refs)
           gs == SubSeq(fs, 1, n - 1)
           fewer == SubSeq(refs, 1, m - 1)
<1>1. /\ n \in Nat \ {0} /\ gs \in Seq(FrameSet) /\ Len(gs) = n - 1
      /\ \A i \in 1..(n - 1) : gs[i] = fs[i]
  BY StackProperties
<1>2. Depth(fs) = n
  BY DEF Depth
<1>3. PICK f : Embeds(f, fs, n, refs)
  BY <1>2 DEF Walked
<1>4. /\ \A i \in 1..(n - 1) : fs[i].op # "write"
      /\ \A i, j \in 1..n : fs[i].obj = fs[j].obj => i = j
  BY <1>2 DEF Walked
<1>5. m \in Nat
  OBVIOUS
<1>6. n \in 1..n /\ f[n] \in 1..m
  BY <1>1, <1>3 DEF Embeds
<1>7. refs # <<>>
  BY <1>6
<1>8. /\ Len(fewer) = m - 1
      /\ \A i \in 1..(m - 1) : fewer[i] = refs[i]
  BY <1>7, StackProperties
<1> HIDE DEF n, m, gs, fewer
<1>9. Depth(gs) = n - 1
  <2>1. CASE gs = <<>>
    BY <2>1, <1>1 DEF Depth
  <2>2. CASE gs # <<>>
    <3>1. Len(gs) \in 1..(n - 1)
      BY <2>2, <1>1, EmptySeq
    <3> QED BY <3>1, <1>1, <1>4 DEF Depth
  <2> QED BY <2>1, <2>2
<1> DEFINE g == [i \in 1..(n - 1) |-> f[i]]
<1>10. Embeds(g, gs, n - 1, fewer)
  <2>1. \A i \in 1..(n - 1) : i \in 1..n /\ i < n
    BY <1>1
  <2>2. \A i \in 1..(n - 1) : f[i] \in 1..m /\ f[i] < f[n]
    BY <2>1, <1>3, <1>6 DEF Embeds, m
  <2>3. \A i \in 1..(n - 1) : f[i] \in 1..(m - 1)
    BY <2>2, <1>5, <1>6
  <2> QED BY <2>1, <2>3, <1>1, <1>3, <1>8 DEF Embeds
<1>11. \A i, j \in 1..(n - 1) : gs[i].obj = gs[j].obj => i = j
  BY <1>1, <1>4
<1>12. \A i \in 1..(Len(gs) - 1) : gs[i].op # "write"
  BY <1>1, <1>4
<1>13. Walked(gs, fewer)
  BY <1>9, <1>10, <1>11, <1>12 DEF Walked
<1> QED BY <1>7, <1>13 DEF gs, fewer, n, m

-----------------------------------------------------------------------------
(* The steps of the one call there is.                                     *)

LEMMA OneCall ==
  ASSUME TypeOK, PathInv, Active
  PROVE  /\ Len(builders) = 1 /\ Top = builders[1] /\ Outer = <<>>
         /\ Top.list \in Lists
<1>1. Len(builders) \in Nat \ {0} /\ Len(Outer) = Len(builders) - 1
      /\ Outer \in Seq(BuilderSet) /\ Top.list \in Lists
  BY TopProperties
<1>2. Len(builders) = 1
  BY <1>1 DEF PathInv
<1>3. Outer = <<>>
  BY <1>1, <1>2, EmptySeq
<1> QED BY <1>1, <1>2, <1>3 DEF Top

(* The one call goes on. *)
LEMMA OneContinues ==
  ASSUME TypeOK, PathInv, Active,
         NEW frames \in Seq(FrameSet), NEW out \in Seq(TokenSet),
         Continue(frames, out)
  PROVE  /\ Active' /\ Len(builders') = 1
         /\ Frames' = frames /\ Top'.list = Top.list
<1>1. /\ Len(builders') = Len(builders)
      /\ builders'[Len(builders)].frames = frames
      /\ \A i \in 1..Len(builders) : builders'[i].list = builders[i].list
  BY ContinueProperties
<1>2. Len(builders) = 1 /\ Top = builders[1]
  BY OneCall
<1>3. Len(builders') = 1 /\ builders'[1].frames = frames /\ builders'[1].list = Top.list
  BY <1>1, <1>2
<1>4. Active'
  <2>1. builders' \in Seq(BuilderSet) /\ Len(builders') # 0
    BY <1>3, ContinueProperties
  <2> QED BY <2>1, EmptySeq DEF Active
<1> QED BY <1>3, <1>4 DEF Frames, Top

(* Going on with other frames, and perhaps another list of references. *)
LEMMA ContinueWalk ==
  ASSUME TypeOK, PathInv, Active,
         NEW frames \in Seq(FrameSet), NEW out \in Seq(TokenSet),
         Continue(frames, out), NEW refs,
         content'[Top.list] = refs, Walked(frames, refs)
  PROVE  PathInv'
<1>1. /\ Len(builders') = 1
      /\ Frames' = frames /\ Top'.list = Top.list
  BY OneContinues
<1>2. Refs' = refs
  BY <1>1 DEF Refs
<1> QED BY <1>1, <1>2 DEF PathInv

(* Steps that leave refs alone and keep, or cut off, the objects written.  *)
LEMMA SameRefs ==
  ASSUME TypeOK, PathInv, Active,
         NEW frames \in Seq(FrameSet), NEW out \in Seq(TokenSet),
         Continue(frames, out), content' = content,
         Depth(frames) <= Depth(Frames),
         \A i \in 1..(Len(frames) - 1) : frames[i].op # "write",
         \A i \in 1..Depth(frames) : frames[i].obj = Frames[i].obj
  PROVE  PathInv'
<1>1. Frames \in Seq(FrameSet) /\ Walked(Frames, Refs)
  BY TopProperties DEF PathInv
<1>2. Walked(frames, Refs)
  BY <1>1, PrefixWalk
<1>3. content'[Top.list] = Refs
  BY DEF Refs
<1> QED BY <1>2, <1>3, ContinueWalk

(* What is below the top frame, and what replaces the top frame. *)
LEMMA FramesBelow ==
  ASSUME TypeOK, PathInv, Active, Frames # <<>>
  PROVE  /\ Len(Frames) \in Nat \ {0}
         /\ Below \in Seq(FrameSet) /\ Len(Below) = Len(Frames) - 1
         /\ \A i \in 1..(Len(Frames) - 1) :
              Below[i] = Frames[i] /\ Below[i].op # "write"
         /\ Depth(Below) = Len(Frames) - 1
         /\ Depth(Frames) = IF Frame.op = "write" THEN Len(Frames) - 1 ELSE Len(Frames)
<1>1. Frames \in Seq(FrameSet) /\ Walked(Frames, Refs)
  BY TopProperties DEF PathInv
<1>2. /\ Len(Frames) \in Nat \ {0}
      /\ Below \in Seq(FrameSet) /\ Len(Below) = Len(Frames) - 1
      /\ \A i \in 1..(Len(Frames) - 1) : Below[i] = Frames[i]
  BY <1>1, StackProperties DEF Below
<1>3. \A i \in 1..(Len(Frames) - 1) : Below[i].op # "write"
  BY <1>1, <1>2 DEF Walked
<1>4. Depth(Below) = Len(Frames) - 1
  <2>1. CASE Below = <<>>
    BY <2>1, <1>2 DEF Depth
  <2>2. CASE Below # <<>>
    <3>1. Len(Below) \in 1..(Len(Frames) - 1)
      BY <2>2, <1>2, EmptySeq
    <3> QED BY <3>1, <1>2, <1>3 DEF Depth
  <2> QED BY <2>1, <2>2
<1> QED BY <1>2, <1>3, <1>4 DEF Depth, Frame

(* The frame on top is replaced, *)
LEMMA ReplaceShape ==
  ASSUME TypeOK, PathInv, Active, Frames # <<>>,
         NEW fr \in FrameSet, fr.op # "write"
  PROVE  LET n == Len(Frames)
             gs == Append(Below, fr)
         IN  /\ n \in Nat \ {0} /\ gs \in Seq(FrameSet) /\ Len(gs) = n
             /\ \A i \in 1..(n - 1) : gs[i] = Frames[i] /\ gs[i].op # "write"
             /\ gs[n] = fr /\ Depth(gs) = n
<1> DEFINE n == Len(Frames)
           gs == Append(Below, fr)
<1>1. /\ n \in Nat \ {0} /\ Below \in Seq(FrameSet) /\ Len(Below) = n - 1
      /\ \A i \in 1..(n - 1) : Below[i] = Frames[i] /\ Below[i].op # "write"
  BY FramesBelow
<1> HIDE DEF n
<1>2. /\ gs \in Seq(FrameSet) /\ Len(gs) = n
      /\ \A i \in 1..(n - 1) : gs[i] = Below[i]
      /\ gs[n] = fr
  BY <1>1, PushProperties
<1> HIDE DEF gs
<1>3. Depth(gs) = n
  <2>1. gs[Len(gs)] = fr BY <1>2
  <2> QED BY <2>1, <1>2 DEF Depth
<1> QED BY <1>1, <1>2, <1>3 DEF gs, n

(* and a write put on top of it. *)
LEMMA EnterShape ==
  ASSUME TypeOK, PathInv, Active, Frames # <<>>,
         NEW fr \in FrameSet, fr.op # "write",
         NEW wr \in FrameSet, wr.op = "write"
  PROVE  LET n == Len(Frames)
             hs == Append(Append(Below, fr), wr)
         IN  /\ n \in Nat \ {0} /\ hs \in Seq(FrameSet) /\ Len(hs) = n + 1
             /\ \A i \in 1..(n - 1) : hs[i] = Frames[i]
             /\ \A i \in 1..n : hs[i].op # "write"
             /\ hs[n] = fr /\ hs[n + 1] = wr /\ Depth(hs) = n
<1> DEFINE n == Len(Frames)
           gs == Append(Below, fr)
           hs == Append(gs, wr)
<1>1. /\ n \in Nat \ {0} /\ gs \in Seq(FrameSet) /\ Len(gs) = n
      /\ \A i \in 1..(n - 1) : gs[i] = Frames[i] /\ gs[i].op # "write"
      /\ gs[n] = fr
  BY ReplaceShape
<1> HIDE DEF n, gs
<1>2. /\ hs \in Seq(FrameSet) /\ Len(hs) = n + 1
      /\ \A i \in 1..n : hs[i] = gs[i]
      /\ hs[n + 1] = wr
  BY <1>1, PushProperties
<1> HIDE DEF hs
<1>3. \A i \in 1..n : hs[i].op # "write"
  <2> TAKE i \in 1..n
  <2>1. i = n \/ i \in 1..(n - 1) BY <1>1
  <2> QED BY <2>1, <1>1, <1>2
<1>4. hs[n] = fr /\ \A i \in 1..(n - 1) : hs[i] = Frames[i]
  BY <1>1, <1>2
<1>5. Depth(hs) = n
  <2>1. hs[Len(hs)] = wr /\ hs # <<>> BY <1>1, <1>2
  <2> QED BY <2>1, <1>1, <1>2 DEF Depth
<1> QED BY <1>1, <1>2, <1>3, <1>4, <1>5 DEF hs, gs, n

(* The frame moved on to its next entry. *)
LEMMA NextFrame ==
  ASSUME TypeOK, Active, Frames # <<>>, Frame.op # "write"
  PROVE  /\ [Frame EXCEPT !.next = @ + 1] \in FrameSet
         /\ [Frame EXCEPT !.next = @ + 1].op = Frame.op
         /\ [Frame EXCEPT !.next = @ + 1].obj = Frame.obj
         /\ [Frame EXCEPT !.next = @ + 1].next = Frame.next + 1
<1>1. Frame \in FrameSet
  BY FrameProperties
<1>2. CASE Frame \in [op : {"items"}, obj : Objects, next : Nat \ {0}]
  BY <1>2 DEF FrameSet
<1>3. CASE Frame \in [op : {"getters", "json"}, obj : BeanSet, next : Nat \ {0}]
  BY <1>3 DEF FrameSet
<1>4. CASE Frame \in [op : {"write"}, obj : Values, next : {0}]
  BY <1>4
<1> QED BY <1>1, <1>2, <1>3, <1>4 DEF FrameSet

(* The entry an iteration has come to. *)
LEMMA CurrentItem ==
  ASSUME TypeOK, Iterating, Frame.next <= Len(Items[Frame.obj])
  PROVE  /\ Frame.obj \in Objects /\ Frame.next \in DOMAIN Items[Frame.obj]
         /\ Item.val \in Values /\ Written(Item.val) \in Values
         /\ Item.val \in Held(Frame.obj)
<1>1. Active /\ Frames # <<>> /\ Frame.op # "write"
  BY DEF Iterating
<1>2. Frame.obj \in Objects /\ Frame.next \in Nat \ {0}
  BY <1>1, AdvanceType
<1>3. Item.val \in Values /\ Frame.next \in 1..Len(Items[Frame.obj])
  BY <1>2, ItemType DEF Item
<1>4. Items[Frame.obj] \in Seq([key : {"key", NullKey}, val : Values])
  BY <1>2, GraphAssumption
<1>5. Frame.next \in DOMAIN Items[Frame.obj]
  BY <1>3, <1>4, LenProperties
<1> QED BY <1>2, <1>3, <1>5 DEF Written, Values, Held, Item

(* The top frame is taken off. *)
LEMMA BelowWalk ==
  ASSUME TypeOK, PathInv, Active, Frames # <<>>,
         NEW out \in Seq(TokenSet), Continue(Below, out), content' = content
  PROVE  PathInv'
<1>1. /\ Below \in Seq(FrameSet) /\ Len(Below) = Len(Frames) - 1
      /\ \A i \in 1..(Len(Frames) - 1) :
           Below[i] = Frames[i] /\ Below[i].op # "write"
      /\ Depth(Below) = Len(Frames) - 1 /\ Depth(Below) <= Depth(Frames)
      /\ Len(Frames) \in Nat \ {0}
  BY FramesBelow
<1>2. /\ \A i \in 1..(Len(Below) - 1) : Below[i].op # "write"
      /\ \A i \in 1..Depth(Below) : Below[i].obj = Frames[i].obj
  BY <1>1
<1> QED BY <1>1, <1>2, SameRefs

(* The top frame, not a write, is replaced by one of the same object, *)
LEMMA ReplaceWalk ==
  ASSUME TypeOK, PathInv, Active, Frames # <<>>, Frame.op # "write",
         NEW fr \in FrameSet, fr.op # "write", fr.obj = Frame.obj,
         NEW out \in Seq(TokenSet), Continue(Append(Below, fr), out),
         content' = content
  PROVE  PathInv'
<1> DEFINE n == Len(Frames)
           gs == Append(Below, fr)
<1>1. /\ n \in Nat \ {0} /\ gs \in Seq(FrameSet) /\ Len(gs) = n
      /\ \A i \in 1..(n - 1) : gs[i] = Frames[i] /\ gs[i].op # "write"
      /\ gs[n] = fr /\ Depth(gs) = n /\ Continue(gs, out)
  BY ReplaceShape
<1>2. Frame = Frames[n] /\ Depth(Frames) = n
  BY FramesBelow DEF Frame
<1> HIDE DEF n, gs
<1>3. \A i \in 1..n : gs[i].obj = Frames[i].obj
  <2> TAKE i \in 1..n
  <2>1. i = n \/ i \in 1..(n - 1) BY <1>1
  <2> QED BY <2>1, <1>1, <1>2
<1>4. Depth(gs) <= Depth(Frames) /\ \A i \in 1..(Len(gs) - 1) : gs[i].op # "write"
  BY <1>1, <1>2
<1> QED BY <1>1, <1>3, <1>4, SameRefs

(* and a write put on top of it. *)
LEMMA EnterWalk ==
  ASSUME TypeOK, PathInv, Active, Frames # <<>>, Frame.op # "write",
         NEW fr \in FrameSet, fr.op # "write", fr.obj = Frame.obj,
         NEW wr \in FrameSet, wr.op = "write",
         NEW out \in Seq(TokenSet),
         Continue(Append(Append(Below, fr), wr), out), content' = content
  PROVE  PathInv'
<1> DEFINE n == Len(Frames)
           hs == Append(Append(Below, fr), wr)
<1>1. /\ n \in Nat \ {0} /\ hs \in Seq(FrameSet) /\ Len(hs) = n + 1
      /\ \A i \in 1..(n - 1) : hs[i] = Frames[i]
      /\ \A i \in 1..n : hs[i].op # "write"
      /\ hs[n] = fr /\ Depth(hs) = n /\ Continue(hs, out)
  BY EnterShape
<1>2. Frame = Frames[n] /\ Depth(Frames) = n
  BY FramesBelow DEF Frame
<1> HIDE DEF n, hs
<1>3. \A i \in 1..n : hs[i].obj = Frames[i].obj
  <2> TAKE i \in 1..n
  <2>1. i = n \/ i \in 1..(n - 1) BY <1>1
  <2> QED BY <2>1, <1>1, <1>2
<1>4. Depth(hs) <= Depth(Frames) /\ \A i \in 1..(Len(hs) - 1) : hs[i].op # "write"
  BY <1>1, <1>2
<1> QED BY <1>1, <1>3, <1>4, SameRefs

(* An object that is not listed is begun: refs grows by it. *)
LEMMA BeginWalk ==
  ASSUME TypeOK, PathInv, Writing, Frame.obj \in Objects, ~Listed(Frame.obj),
         Push(Frame.obj), NEW fr \in FrameSet, fr.op # "write",
         fr.obj = Frame.obj,
         NEW out \in Seq(TokenSet), Continue(Append(Below, fr), out)
  PROVE  PathInv'
<1>1. Active /\ Frames # <<>> /\ Frame.op = "write"
  BY DEF Writing
<1>2. /\ Frames \in Seq(FrameSet) /\ Refs \in Seq(Objects)
      /\ Walked(Frames, Refs) /\ Below \in Seq(FrameSet)
      /\ Top.list \in Lists
  BY <1>1, TopProperties, FramesBelow DEF PathInv
<1>3. \A i \in 1..Len(Refs) : Refs[i] # Frame.obj
  <2>1. DOMAIN Refs = 1..Len(Refs)
    BY <1>2, LenProperties
  <2> QED BY <2>1 DEF Listed
<1>4. Walked(Append(Below, fr), Append(Refs, Frame.obj))
  <2>1. Frames[Len(Frames)].op = "write"
    BY <1>1 DEF Frame
  <2> QED BY <1>1, <1>2, <1>3, <2>1, PushWalk DEF Below
<1>5. Append(Below, fr) \in Seq(FrameSet)
  BY <1>2, AppendProperties
<1>6. content'[Top.list] = Append(Refs, Frame.obj)
  BY <1>2 DEF Push, Refs, TypeOK
<1> QED BY <1>1, <1>4, <1>5, <1>6, ContinueWalk

(* What is below the bean whose catch block runs, and that it is begun. *)
LEMMA CatcherOp ==
  ASSUME Frames \in Seq(FrameSet), Catchers # {}
  PROVE  Frames[LastTry].op # "write"
<1>1. Catchers \subseteq 1..Len(Frames) /\ Len(Frames) \in Nat
  BY LenProperties DEF Catchers
<1>2. LastTry \in Catchers
  BY <1>1, LastCatcher DEF LastTry
<1> QED BY <1>2 DEF Catchers

LEMMA BelowCatcher ==
  ASSUME NEW fs \in Seq(FrameSet), NEW k \in 1..Len(fs)
  PROVE  /\ SubSeq(fs, 1, k - 1) \in Seq(FrameSet)
         /\ Len(SubSeq(fs, 1, k - 1)) = k - 1
         /\ \A i \in 1..(k - 1) : SubSeq(fs, 1, k - 1)[i] = fs[i]
<1>1. \A i \in 1..(k - 1) : fs[i] \in FrameSet
  BY ElementOfSeq
<1> DEFINE t == SubSeq(fs, 1, k - 1)
<1>2. /\ t \in Seq(FrameSet)
      /\ Len(t) = IF 1 <= k - 1 THEN k - 1 - 1 + 1 ELSE 0
      /\ \A i \in 1..(k - 1 - 1 + 1) : t[i] = fs[1 + i - 1]
  BY <1>1, SubSeqProperties
<1> HIDE DEF t
<1>3. k \in Nat \ {0}
  OBVIOUS
<1>4. Len(t) = k - 1
  BY <1>2, <1>3
<1>5. \A i \in 1..(k - 1) : t[i] = fs[i]
  <2> TAKE i \in 1..(k - 1)
  <2>1. i \in 1..(k - 1 - 1 + 1) /\ 1 + i - 1 = i BY <1>3
  <2> QED BY <2>1, <1>2
<1> QED BY <1>2, <1>4, <1>5 DEF t

(* The steps of the walk. *)
LEMMA WalkStep ==
  ASSUME TypeOK, PathInv, Walk
  PROVE  PathInv'
<1>1. Active /\ Top.out \in Seq(TokenSet) /\ Frames \in Seq(FrameSet)
      /\ Top.list \in Lists /\ Refs \in Seq(Objects)
  BY WalkContinues, TopProperties
<1>2. ASSUME NEW t \in TokenSet PROVE Append(Top.out, t) \in Seq(TokenSet)
  BY <1>1, AppendProperties
<1>3. CASE WriteValue
  <2>1. Token(IF Frame.obj = Null THEN "null" ELSE "leaf") \in TokenSet
    BY TokenType
  <2> QED BY <1>3, <1>1, <1>2, <2>1, BelowWalk DEF WriteValue, Writing
<1>4. CASE WriteThrows
  <2>1. Token("leaf") \in TokenSet BY TokenType
  <2> QED BY <1>4, <1>1, <1>2, <2>1, BelowWalk DEF WriteThrows, Writing
<1>5. CASE WriteCycle
  <2>1. Token("null") \in TokenSet BY TokenType
  <2> QED BY <1>5, <1>1, <1>2, <2>1, BelowWalk DEF WriteCycle, Writing
<1>6. CASE WriteContainer
  <2> DEFINE fr == [op |-> "items", obj |-> Frame.obj, next |-> 1]
  <2>1. Writing /\ Frame.obj \in Objects /\ ~Listed(Frame.obj)
    BY <1>6 DEF WriteContainer
  <2>2. fr \in FrameSet /\ fr.op # "write" /\ fr.obj = Frame.obj
    BY <2>1, FrameTypes
  <2>3. Append(Top.out, Header(Frame.obj)) \in Seq(TokenSet)
    BY <2>1, <1>2, HeaderType
  <2>4. Push(Frame.obj)
        /\ Continue(Append(Below, fr), Append(Top.out, Header(Frame.obj)))
    BY <1>6 DEF WriteContainer
  <2> HIDE DEF fr
  <2> QED BY <2>1, <2>2, <2>3, <2>4, BeginWalk
<1>7. CASE WriteBean
  <2> DEFINE fr == [op |-> IF Class[Frame.obj] \in special THEN "json"
                                                           ELSE "getters",
                    obj |-> Frame.obj, next |-> 1]
  <2>1. Writing /\ Frame.obj \in Objects /\ ~Listed(Frame.obj)
        /\ Frame.obj \in BeanSet
    BY <1>7 DEF WriteBean, BeanSet
  <2>2. fr \in FrameSet /\ fr.op # "write" /\ fr.obj = Frame.obj
    BY <2>1, FrameTypes
  <2>3. Push(Frame.obj) /\ Continue(Append(Below, fr), Top.out)
    BY <1>7 DEF WriteBean
  <2> HIDE DEF fr
  <2> QED BY <1>1, <2>1, <2>2, <2>3, BeginWalk
<1>8. ASSUME Frames # <<>>, Frame.op # "write"
      PROVE  /\ [Frame EXCEPT !.next = @ + 1] \in FrameSet
             /\ [Frame EXCEPT !.next = @ + 1].op = Frame.op
             /\ [Frame EXCEPT !.next = @ + 1].obj = Frame.obj
  BY <1>1, <1>8, NextFrame
<1>9. CASE CallGetter \/ SkipNullEntry
  <2> DEFINE fr == [Frame EXCEPT !.next = @ + 1]
  <2>1. /\ Frames # <<>> /\ Frame.op # "write" /\ content' = content
        /\ Continue(Append(Below, fr), Top.out)
    BY <1>9 DEF CallGetter, SkipNullEntry, Reading, Iterating, NextGetter, NextItem
  <2>2. fr \in FrameSet /\ fr.op # "write" /\ fr.obj = Frame.obj
    BY <2>1, <1>8
  <2> HIDE DEF fr
  <2> QED BY <1>1, <2>1, <2>2, ReplaceWalk
<1>10. CASE WriteBeanMap
  <2> DEFINE fr == [op |-> "items", obj |-> Frame.obj, next |-> 1]
  <2>1. /\ Frames # <<>> /\ Frame.op # "write" /\ content' = content
        /\ Continue(Append(Below, fr), Append(Top.out, Header(Frame.obj)))
    BY <1>10 DEF WriteBeanMap, Reading
  <2>2. Frame.obj \in Objects
    BY <1>1, <2>1, AdvanceType
  <2>3. fr \in FrameSet /\ fr.op # "write" /\ fr.obj = Frame.obj
    BY <2>2, FrameTypes
  <2>4. Append(Top.out, Header(Frame.obj)) \in Seq(TokenSet)
    BY <2>2, <1>2, HeaderType
  <2> HIDE DEF fr
  <2> QED BY <1>1, <2>1, <2>3, <2>4, ReplaceWalk
<1>11. ASSUME Iterating, Frame.next <= Len(Items[Frame.obj])
       PROVE  Item.val \in Values /\ Written(Item.val) \in Values
  BY <1>11, CurrentItem
<1>12. ASSUME Frames # <<>>, Frame.op # "write", content' = content,
              NEW val \in Values, NEW out \in Seq(TokenSet),
              Continue(Append(Append(Below, [Frame EXCEPT !.next = @ + 1]),
                         [op |-> "write", obj |-> val, next |-> 0]), out)
       PROVE  PathInv'
  <2> DEFINE fr == [Frame EXCEPT !.next = @ + 1]
             wr == [op |-> "write", obj |-> val, next |-> 0]
  <2>1. fr \in FrameSet /\ fr.op # "write" /\ fr.obj = Frame.obj
    BY <1>12, <1>8
  <2>2. wr \in FrameSet /\ wr.op = "write"
    BY FrameTypes
  <2>3. Continue(Append(Append(Below, fr), wr), out)
    BY <1>12
  <2> HIDE DEF fr, wr
  <2> QED BY <1>1, <1>12, <2>1, <2>2, <2>3, EnterWalk
<1>13. CASE WriteElement
  <2>1. Item.val \in Values
    BY <1>13, <1>11 DEF WriteElement
  <2> QED BY <1>13, <1>1, <1>12, <2>1 DEF WriteElement, Iterating, NextItem
<1>14. CASE WriteEntry
  <2>1. Written(Item.val) \in Values
    BY <1>14, <1>11 DEF WriteEntry
  <2>2. Append(Top.out, Token("key")) \in Seq(TokenSet)
    BY <1>2, TokenType
  <2> QED BY <1>14, <1>12, <2>1, <2>2 DEF WriteEntry, Iterating, NextItem
<1>15. CASE WriteJson
  <2>1. Frames # <<>> /\ Frame.op = "json" /\ content' = content
    BY <1>15 DEF WriteJson
  <2>2. CASE Json[Frame.obj] = Thrower
    BY <1>15, <1>1, <2>1, <2>2, BelowWalk DEF WriteJson
  <2>3. CASE Json[Frame.obj] # Thrower
    <3>1. Frame.obj \in BeanSet
      BY <1>1, <2>1, AdvanceType
    <3>2. Json[Frame.obj] \in Values
      BY <3>1, <2>3, GraphAssumption DEF BeanSet, Values
    <3> QED BY <1>15, <1>1, <1>12, <2>1, <2>3, <3>2 DEF WriteJson, NextItem
  <2> QED BY <2>2, <2>3
<1>16. CASE Leave
  <2>1. Frames # <<>> /\ Frame.op # "write" /\ Continue(Below, Top.out)
    BY <1>16 DEF Leave, Finished
  <2>2. /\ Refs # <<>>
        /\ Walked(Below, SubSeq(Refs, 1, Len(Refs) - 1))
    BY <1>1, <2>1, PopWalk DEF PathInv, Below, Frame
  <2>3. content'[Top.list] = SubSeq(Refs, 1, Len(Refs) - 1)
    BY <1>16, <1>1, <2>2 DEF Leave, Refs, TypeOK
  <2>4. Below \in Seq(FrameSet)
    BY <1>1, <2>1, FrameProperties
  <2> QED BY <1>1, <2>1, <2>2, <2>3, <2>4, ContinueWalk
<1>17. CASE Catch
  <2> DEFINE k == LastTry
             o == Frames[k].obj
             fr == [op |-> "json", obj |-> o, next |-> 1]
             below == SubSeq(Frames, 1, k - 1)
             gs == Append(below, fr)
  <2>1. Catchers # {} /\ content' = content /\ Continue(gs, Top.out)
    BY <1>17, CatchSteps
  <2>2. k \in 1..Len(Frames) /\ o \in BeanSet /\ k \in Nat
    BY <2>1, <1>1, CatcherProperties
  <2>3. Frames[k].op # "write"
    BY <2>1, <1>1, CatcherOp
  <2>4. fr \in FrameSet /\ fr.op # "write" /\ fr.obj = o
    BY <2>2, FrameTypes
  <2>5. /\ below \in Seq(FrameSet) /\ Len(below) = k - 1
        /\ \A i \in 1..(k - 1) : below[i] = Frames[i]
    BY <2>2, <1>1, BelowCatcher
  <2>6. Walked(Frames, Refs) /\ \A i \in 1..(Len(Frames) - 1) : Frames[i].op # "write"
    BY <1>1 DEF PathInv, Walked
  <2>7. o = Frames[k].obj
    OBVIOUS
  <2> HIDE DEF k, o, fr, below
  <2>8. /\ gs \in Seq(FrameSet) /\ Len(gs) = k
        /\ \A i \in 1..(k - 1) : gs[i] = below[i]
        /\ gs[k] = fr
    BY <2>2, <2>4, <2>5, PushProperties
  <2> HIDE DEF gs
  <2>9. Depth(gs) = k
    <3>1. gs[Len(gs)] = fr BY <2>8
    <3> QED BY <3>1, <2>4, <2>8 DEF Depth
  <2>10. k <= Depth(Frames)
    BY <2>2, <2>3, <1>1 DEF Depth
  <2>11. \A i \in 1..(Len(gs) - 1) : gs[i].op # "write"
    BY <2>2, <2>5, <2>6, <2>8, <1>1
  <2>12. \A i \in 1..k : gs[i].obj = Frames[i].obj
    <3> TAKE i \in 1..k
    <3>1. i = k \/ i \in 1..(k - 1) BY <2>2
    <3> QED BY <3>1, <2>4, <2>5, <2>7, <2>8
  <2> QED BY <1>1, <2>1, <2>8, <2>9, <2>10, <2>11, <2>12, SameRefs
<1> QED
  BY <1>3, <1>4, <1>5, <1>6, <1>7, <1>9, <1>10, <1>13, <1>14, <1>15, <1>16,
     <1>17 DEF Walk

-----------------------------------------------------------------------------
(* What can be reached.                                                    *)

LEMMA ReachableRoots == Roots \subseteq Reachable
BY GraphAssumption DEF Reachable

LEMMA ReachableHeld ==
  ASSUME NEW o \in Reachable, NEW v \in Held(o), v \in Objects
  PROVE  v \in Reachable
<1> SUFFICES ASSUME NEW S \in SUBSET Objects, Roots \subseteq S, Closed(S)
             PROVE  v \in S
  BY DEF Reachable
<1>1. o \in S
  BY DEF Reachable
<1> QED BY <1>1 DEF Closed

(* The frames after a step are those of objects in reach, *)
LEMMA ReachedAfter ==
  ASSUME TypeOK, PathInv, Active,
         NEW frames \in Seq(FrameSet), NEW out \in Seq(TokenSet),
         Continue(frames, out),
         \A i \in 1..Len(frames) : frames[i].obj \in Objects => frames[i].obj \in Reachable
  PROVE  Reached'
BY OneContinues DEF Reached

(* when the one on top is taken off, *)
LEMMA ReachedBelow ==
  ASSUME TypeOK, PathInv, Reached, Active, Frames # <<>>,
         NEW out \in Seq(TokenSet), Continue(Below, out)
  PROVE  Reached'
<1>1. /\ Below \in Seq(FrameSet) /\ Len(Below) = Len(Frames) - 1
      /\ Len(Frames) \in Nat \ {0}
      /\ \A i \in 1..(Len(Frames) - 1) : Below[i] = Frames[i]
  BY FramesBelow
<1>2. \A i \in 1..Len(Below) : Below[i].obj \in Objects => Below[i].obj \in Reachable
  BY <1>1 DEF Reached
<1> QED BY <1>1, <1>2, ReachedAfter

(* or replaced by one of the same object, *)
LEMMA ReachedReplace ==
  ASSUME TypeOK, PathInv, Reached, Active, Frames # <<>>,
         NEW fr \in FrameSet, fr.op # "write", fr.obj = Frame.obj,
         NEW out \in Seq(TokenSet), Continue(Append(Below, fr), out)
  PROVE  Reached'
<1> DEFINE n == Len(Frames)
           gs == Append(Below, fr)
<1>1. /\ n \in Nat \ {0} /\ gs \in Seq(FrameSet) /\ Len(gs) = n
      /\ \A i \in 1..(n - 1) : gs[i] = Frames[i]
      /\ gs[n] = fr /\ Continue(gs, out)
  BY ReplaceShape
<1>2. Frame = Frames[n]
  BY DEF Frame
<1>3. \A i \in 1..n : Frames[i].obj \in Objects => Frames[i].obj \in Reachable
  BY DEF Reached
<1> HIDE DEF n, gs
<1>4. \A i \in 1..Len(gs) : gs[i].obj \in Objects => gs[i].obj \in Reachable
  <2> TAKE i \in 1..Len(gs)
  <2>1. i = n \/ i \in 1..(n - 1) BY <1>1
  <2>2. i \in 1..n BY <1>1
  <2> QED BY <2>1, <2>2, <1>1, <1>2, <1>3
<1> QED BY <1>1, <1>4, ReachedAfter

(* or gets a write of what its object holds on top. *)
LEMMA ReachedEnter ==
  ASSUME TypeOK, PathInv, Reached, Active, Frames # <<>>,
         Frame.op # "write", NEW val \in Values,
         val \in Objects => val \in Held(Frame.obj),
         NEW out \in Seq(TokenSet),
         Continue(Append(Append(Below, [Frame EXCEPT !.next = @ + 1]),
                    [op |-> "write", obj |-> val, next |-> 0]), out)
  PROVE  Reached'
<1> DEFINE n == Len(Frames)
           fr == [Frame EXCEPT !.next = @ + 1]
           wr == [op |-> "write", obj |-> val, next |-> 0]
           hs == Append(Append(Below, fr), wr)
<1>1. fr \in FrameSet /\ fr.op # "write" /\ fr.obj = Frame.obj
  BY NextFrame
<1>2. wr \in FrameSet /\ wr.op = "write" /\ wr.obj = val
  BY FrameTypes
<1> HIDE DEF fr, wr
<1>3. /\ n \in Nat \ {0} /\ hs \in Seq(FrameSet) /\ Len(hs) = n + 1
      /\ \A i \in 1..(n - 1) : hs[i] = Frames[i]
      /\ hs[n] = fr /\ hs[n + 1] = wr
  BY <1>1, <1>2, EnterShape
<1>4. Continue(hs, out)
  BY DEF fr, wr
<1>5. Frame = Frames[n] /\ Frame.obj \in Objects
  BY AdvanceType DEF Frame
<1>6. \A i \in 1..n : Frames[i].obj \in Objects => Frames[i].obj \in Reachable
  BY DEF Reached
<1>7. val \in Objects => val \in Reachable
  BY <1>3, <1>5, <1>6, ReachableHeld
<1> HIDE DEF n, hs
<1>8. \A i \in 1..Len(hs) : hs[i].obj \in Objects => hs[i].obj \in Reachable
  <2> TAKE i \in 1..Len(hs)
  <2>1. CASE i = n + 1
    BY <2>1, <1>2, <1>3, <1>7
  <2>2. CASE i # n + 1
    <3>1. i \in 1..n /\ (i = n \/ i \in 1..(n - 1)) BY <2>2, <1>3
    <3> QED BY <3>1, <1>1, <1>3, <1>5, <1>6
  <2> QED BY <2>1, <2>2
<1> QED BY <1>3, <1>4, <1>8, ReachedAfter

(* The walk comes only to what can be reached. *)
LEMMA ReachStep ==
  ASSUME TypeOK, PathInv, Reached, Walk
  PROVE  Reached'
<1>1. /\ Active /\ Top.out \in Seq(TokenSet) /\ Frames \in Seq(FrameSet)
      /\ \A t \in TokenSet : Append(Top.out, t) \in Seq(TokenSet)
  BY WalkContinues, TopProperties, AppendProperties
<1>2. ASSUME Frames # <<>>, NEW out \in Seq(TokenSet), Continue(Below, out)
      PROVE  Reached'
  BY <1>1, <1>2, ReachedBelow
<1>3. CASE WriteValue \/ WriteThrows \/ WriteCycle
  <2>1. \A tag \in {"null", "leaf"} : Append(Top.out, Token(tag)) \in Seq(TokenSet)
    BY <1>1, TokenType
  <2>2. /\ Frames # <<>>
        /\ \E tag \in {"null", "leaf"} : Continue(Below, Append(Top.out, Token(tag)))
    BY <1>3 DEF WriteValue, WriteThrows, WriteCycle, Writing
  <2> QED BY <1>2, <2>1, <2>2
<1>4. CASE Leave
  BY <1>1, <1>2, <1>4 DEF Leave, Finished
<1>5. ASSUME Frames # <<>>, NEW op \in {"items", "getters", "json"},
             Frame.obj \in Objects, op \in {"getters", "json"} => Frame.obj \in BeanSet,
             NEW out \in Seq(TokenSet),
             Continue(Append(Below, [op |-> op, obj |-> Frame.obj, next |-> 1]), out)
      PROVE  Reached'
  <2> DEFINE fr == [op |-> op, obj |-> Frame.obj, next |-> 1]
  <2>1. fr \in FrameSet /\ fr.op # "write" /\ fr.obj = Frame.obj
    BY <1>5, FrameTypes
  <2>2. Continue(Append(Below, fr), out)
    BY <1>5
  <2> HIDE DEF fr
  <2> QED BY <1>1, <1>5, <2>1, <2>2, ReachedReplace
<1>6. ASSUME NEW o \in Objects
      PROVE  Append(Top.out, Header(o)) \in Seq(TokenSet)
  BY <1>1, HeaderType
<1>7. CASE WriteContainer
  <2>1. Frame.obj \in Objects /\ Frames # <<>>
    BY <1>7 DEF WriteContainer, Writing
  <2> QED BY <2>1, <1>5, <1>6, <1>7 DEF WriteContainer
<1>8. CASE WriteBean
  <2>1. Frame.obj \in BeanSet /\ Frame.obj \in Objects /\ Frames # <<>>
    BY <1>8 DEF WriteBean, Writing, BeanSet
  <2> QED BY <2>1, <1>1, <1>5, <1>8 DEF WriteBean
<1>9. CASE WriteBeanMap
  <2>1. Frames # <<>> /\ Frame.op # "write"
    BY <1>9 DEF WriteBeanMap, Reading
  <2>2. Frame.obj \in Objects
    BY <1>1, <2>1, AdvanceType
  <2> QED BY <2>1, <2>2, <1>5, <1>6, <1>9 DEF WriteBeanMap
<1>10. CASE CallGetter \/ SkipNullEntry
  <2> DEFINE fr == [Frame EXCEPT !.next = @ + 1]
  <2>1. /\ Frames # <<>> /\ Frame.op # "write"
        /\ Continue(Append(Below, fr), Top.out)
    BY <1>10 DEF CallGetter, SkipNullEntry, Reading, Iterating, NextGetter, NextItem
  <2>2. fr \in FrameSet /\ fr.op # "write" /\ fr.obj = Frame.obj
    BY <1>1, <2>1, NextFrame
  <2> HIDE DEF fr
  <2> QED BY <1>1, <2>1, <2>2, ReachedReplace
<1>11. CASE WriteElement
  <2>1. Item.val \in Values /\ Item.val \in Held(Frame.obj)
    BY <1>11, CurrentItem DEF WriteElement
  <2> QED BY <1>1, <1>11, <2>1, ReachedEnter DEF WriteElement, Iterating, NextItem
<1>12. CASE WriteEntry
  <2>1. Written(Item.val) \in Values /\ Item.val \in Held(Frame.obj)
    BY <1>12, CurrentItem DEF WriteEntry
  <2>2. Written(Item.val) \in Objects => Written(Item.val) \in Held(Frame.obj)
    BY <2>1, GraphAssumption DEF Written
  <2>3. Append(Top.out, Token("key")) \in Seq(TokenSet)
    BY <1>1, TokenType
  <2> QED BY <1>1, <1>12, <2>1, <2>2, <2>3, ReachedEnter
          DEF WriteEntry, Iterating, NextItem
<1>13. CASE WriteJson
  <2>1. Frames # <<>> /\ Frame.op = "json"
    BY <1>13 DEF WriteJson
  <2>2. CASE Json[Frame.obj] = Thrower
    BY <1>13, <1>1, <1>2, <2>1, <2>2 DEF WriteJson
  <2>3. CASE Json[Frame.obj] # Thrower
    <3>1. Frame.obj \in BeanSet
      BY <1>1, <2>1, AdvanceType
    <3>2. Json[Frame.obj] \in Values /\ Json[Frame.obj] \in Held(Frame.obj)
      BY <3>1, <2>3, GraphAssumption DEF BeanSet, Values, Held
    <3> QED BY <1>13, <1>1, <2>1, <2>3, <3>2, ReachedEnter DEF WriteJson, NextItem
  <2> QED BY <2>2, <2>3
<1>14. CASE Catch
  <2> DEFINE k == LastTry
             o == Frames[k].obj
             fr == [op |-> "json", obj |-> o, next |-> 1]
             below == SubSeq(Frames, 1, k - 1)
             gs == Append(below, fr)
  <2>1. Catchers # {} /\ Continue(gs, Top.out)
    BY <1>14, CatchSteps
  <2>2. k \in 1..Len(Frames) /\ o \in BeanSet /\ k \in Nat
    BY <2>1, <1>1, CatcherProperties
  <2>3. fr \in FrameSet /\ fr.obj = Frames[k].obj
    BY <2>2, FrameTypes
  <2>4. /\ below \in Seq(FrameSet) /\ Len(below) = k - 1
        /\ \A i \in 1..(k - 1) : below[i] = Frames[i]
    BY <2>2, <1>1, BelowCatcher
  <2> HIDE DEF k, o, fr, below
  <2>5. /\ gs \in Seq(FrameSet) /\ Len(gs) = k
        /\ \A i \in 1..(k - 1) : gs[i] = below[i]
        /\ gs[k] = fr
    BY <2>2, <2>3, <2>4, PushProperties
  <2> HIDE DEF gs
  <2>6. \A i \in 1..Len(gs) : gs[i].obj \in Objects => gs[i].obj \in Reachable
    <3> TAKE i \in 1..Len(gs)
    <3>1. (i = k \/ i \in 1..(k - 1)) /\ i \in 1..Len(Frames) BY <2>2, <2>5, <1>1
    <3> QED BY <3>1, <1>1, <2>3, <2>4, <2>5 DEF Reached
  <2> QED BY <1>1, <2>1, <2>5, <2>6, ReachedAfter
<1> QED
  BY <1>3, <1>4, <1>7, <1>8, <1>9, <1>10, <1>11, <1>12, <1>13, <1>14 DEF Walk

(* A getter in reach does not call toWson. *)
LEMMA NoGetterCalls ==
  ASSUME NoCallers, TypeOK, Reached, GetterCalls
  PROVE  FALSE
<1>1. Active /\ Frames # <<>> /\ Frame.op # "write"
  BY DEF GetterCalls, Reading
<1>2. Frame.obj \in Objects /\ Frame.next \in Nat \ {0}
  BY <1>1, AdvanceType
<1>3. Frame.next \in 1..Len(Items[Frame.obj])
  BY <1>2, ItemType DEF GetterCalls
<1>4. Items[Frame.obj] \in Seq([key : {"key", NullKey}, val : Values])
  BY <1>2, GraphAssumption
<1>5. Frame.next \in DOMAIN Items[Frame.obj]
  BY <1>3, <1>4, LenProperties
<1>6. Frame.obj \in Reachable
  <2>1. Frames \in Seq(FrameSet) BY <1>1, TopProperties
  <2>2. Len(Frames) \in 1..Len(Frames) BY <1>1, <2>1, StackProperties
  <2> QED BY <1>1, <1>2, <2>2 DEF Reached, Frame
<1> QED BY <1>5, <1>6 DEF NoCallers, GetterCalls, Getter

(* A call begins with one frame, and without references. *)
LEMMA BeginCall ==
  ASSUME TypeOK, Call
  PROVE  \E root \in Roots, l \in Lists :
           LET fr == [op |-> "write", obj |-> root, next |-> 0]
           IN  /\ Active' /\ Frames' = <<fr>> /\ fr \in FrameSet
               /\ Refs' = IF slot.list # None THEN content[slot.list] ELSE <<>>
               /\ Len(builders') = 1 /\ UNCHANGED <<special, raised>>
<1>1. builders = <<>>
  BY DEF Call, Active
<1>2. PICK root \in Roots : Open(root, <<>>)
  BY <1>1 DEF Call
<1>3. PICK b \in Buffers, l \in Lists :
        RequireArrayList(l) /\ builders' = <<Builder(root, b, l)>>
  BY <1>2 DEF Open
<1> DEFINE fr == [op |-> "write", obj |-> root, next |-> 0]
<1>4. Len(builders') = 1 /\ builders'[1] = Builder(root, b, l) /\ builders' # <<>>
  BY <1>3
<1>5. Top'.list = l /\ Frames' = <<fr>>
  BY <1>4 DEF Frames, Top, Builder
<1>6. fr \in FrameSet
  BY GraphAssumption, FrameTypes DEF Values
<1>7. Refs' = IF slot.list # None THEN content[slot.list] ELSE <<>>
  BY <1>3, <1>5 DEF Refs, RequireArrayList, TypeOK
<1> QED BY <1>4, <1>5, <1>6, <1>7 DEF Active, Call

(* The steps that begin and end the call keep to what can be reached. *)
LEMMA ReachedNext ==
  ASSUME TypeOK, PathInv, Reached, NoCallers, [Next]_vars
  PROVE  Reached'
<1>1. CASE Walk
  BY <1>1, ReachStep
<1>2. CASE Call
  <2> PICK root \in Roots, l \in Lists :
        LET fr == [op |-> "write", obj |-> root, next |-> 0]
        IN  /\ Active' /\ Frames' = <<fr>> /\ fr \in FrameSet
            /\ Refs' = IF slot.list # None THEN content[slot.list] ELSE <<>>
            /\ Len(builders') = 1 /\ UNCHANGED <<special, raised>>
    BY <1>2, BeginCall
  <2>1. root \in Reachable
    BY ReachableRoots
  <2> QED BY <2>1 DEF Reached
<1>3. CASE GetterCalls
  BY <1>3, NoGetterCalls
<1>4. CASE Return \/ Abandon \/ Overflow
  <2>1. Active /\ builders' = Outer
    BY <1>4 DEF Return, Abandon, Overflow, Writing
  <2>2. builders' = <<>>
    BY <2>1, OneCall
  <2> QED BY <2>2 DEF Reached, Active
<1>5. CASE GetterThrows \/ NullKeyThrows \/ Collect \/ Evict \/ UNCHANGED vars
  <2>1. builders' = builders
    BY <1>5 DEF GetterThrows, NullKeyThrows, Collect, Evict, vars
  <2> QED BY <2>1 DEF Reached, Active, Frames, Top
<1> QED
  BY <1>1, <1>2, <1>3, <1>4, <1>5 DEF Next, Run, Walk

-----------------------------------------------------------------------------
(* The steps that begin and end the call, and those of the environment. *)
LEMMA PathStep ==
  ASSUME NoCallers, TypeOK, PathInv, Reached, [Next]_vars
  PROVE  PathInv'
<1>1. CASE Walk
  BY <1>1, WalkStep
<1>2. CASE Call
  <2>1. PICK root \in Roots :
          LET fr == [op |-> "write", obj |-> root, next |-> 0]
          IN  /\ Frames' = <<fr>> /\ fr \in FrameSet
              /\ Refs' = IF slot.list # None THEN content[slot.list] ELSE <<>>
              /\ Len(builders') = 1
    BY <1>2, BeginCall
  <2> DEFINE fr == [op |-> "write", obj |-> root, next |-> 0]
  <2>2. fr \in FrameSet /\ fr.op = "write" /\ Frames' = <<fr>>
    BY <2>1
  <2>3. Refs' \in Seq(Objects)
    <3>1. <<>> \in Seq(Objects) BY EmptySeq
    <3> QED BY <2>1, <3>1 DEF TypeOK
  <2> HIDE DEF fr
  <2>4. Walked(Frames', Refs')
    BY <2>2, <2>3, FreshWalk
  <2> QED BY <2>1, <2>4 DEF PathInv
<1>3. CASE GetterCalls
  BY <1>3, NoGetterCalls
<1>4. CASE Return \/ Abandon \/ Overflow
  <2>1. Active /\ builders' = Outer
    BY <1>4 DEF Return, Abandon, Overflow, Writing
  <2>2. builders' = <<>>
    BY <2>1, OneCall
  <2> QED BY <2>2 DEF PathInv, Active
<1>5. CASE GetterThrows \/ NullKeyThrows \/ Collect \/ Evict \/ UNCHANGED vars
  <2>1. builders' = builders /\ content' = content
    BY <1>5 DEF GetterThrows, NullKeyThrows, Collect, Evict, vars
  <2> QED BY <2>1 DEF PathInv, Active, Frames, Refs, Top
<1> QED
  BY <1>1, <1>2, <1>3, <1>4, <1>5 DEF Next, Run, Walk

(* What is written, is written once at a time. *)
LEMMA WalkedOnce ==
  ASSUME TypeOK, PathInv
  PROVE  NoReentry
<1> SUFFICES ASSUME NEW n \in DOMAIN builders,
                    NEW i \in DOMAIN Path(builders[n]),
                    NEW j \in DOMAIN Path(builders[n]),
                    Path(builders[n])[i] = Path(builders[n])[j]
             PROVE  i = j
  BY DEF NoReentry
<1>1. Len(builders) \in Nat /\ DOMAIN builders = 1..Len(builders)
  BY LenProperties DEF TypeOK
<1>2. Active
  BY <1>1 DEF Active
<1>3. builders[n] = Top
  <2>1. Len(builders) = 1 /\ Top = builders[1]
    BY <1>2, OneCall
  <2>2. n = 1
    BY <1>1, <2>1
  <2> QED BY <2>1, <2>2
<1>4. Path(Top) = [m \in 1..Depth(Frames) |-> Frames[m].obj]
  BY DEF Path, Depth, Frames
<1>5. i \in 1..Depth(Frames) /\ j \in 1..Depth(Frames)
      /\ Frames[i].obj = Frames[j].obj
  BY <1>3, <1>4
<1> QED BY <1>2, <1>5 DEF PathInv, Walked

LEMMA InitPath == Init => PathInv /\ Reached
BY DEF Init, PathInv, Reached, Active

(* writeObject is never entered for an object that is being written, so    *)
(* that its recursion ends on every graph whose getters do not call        *)
(* toWson: an object on the way is always found by refs.contains, also     *)
(* after an exception left others in the list.                             *)
THEOREM NeverInsideItself == NoCallers => (Spec => []NoReentry)
<1> DEFINE I == NoCallers /\ Inv /\ PathInv /\ Reached
<1>1. NoCallers /\ Init => I
  BY InitInv, InitPath
<1>2. I /\ [Next]_vars => I'
  <2> SUFFICES ASSUME I, [Next]_vars PROVE I'
    OBVIOUS
  <2>1. NoCallers'
    BY DEF NoCallers
  <2>2. Inv'
    BY NextInv
  <2> QED BY <2>1, <2>2, PathStep, ReachedNext DEF Inv
<1>3. I => NoReentry
  BY WalkedOnce DEF Inv
<1> QED BY <1>1, <1>2, <1>3, PTL DEF Spec

-----------------------------------------------------------------------------
(* refs and the frames stay in step, on a clean graph.                     *)

(* refs holds the objects of the frames and nothing else. *)
Exact(fs, refs) ==
  /\ Len(refs) = Depth(fs)
  /\ \A i \in 1..Depth(fs) : refs[i] = fs[i].obj

(* What is known of a frame: no value that throws is still to be written,  *)
(* and a bean is written as JSON only if one of its class has failed.      *)
Good(fr) ==
  /\ fr.obj # Thrower
  /\ fr.op = "getters" =>
       \A i \in DOMAIN Items[fr.obj] : i < fr.next => Items[fr.obj][i].val # Thrower
  /\ fr.op = "items" =>
       \A i \in DOMAIN Items[fr.obj] : Items[fr.obj][i].val # Thrower
  /\ fr.op = "json" => Class[fr.obj] \in FlawedClasses

Tidy ==
  Active => Exact(Frames, Refs) /\ \A i \in 1..Len(Frames) : Good(Frames[i])

(* Between calls the pooled list is empty.  An exception is that of the    *)
(* bean on top of the stack, so that the catch block runs on its frame.    *)
CleanInv ==
  /\ Tidy
  /\ special \subseteq FlawedClasses
  /\ raised => /\ Active /\ Frames # <<>>
               /\ Frame.op \in {"getters", "items"}
               /\ Frame.obj \in FlawedBeans
  /\ ~Active /\ slot.list # None => content[slot.list] = <<>>

(* The one call goes on with frames that are good and with their objects. *)
LEMMA TidyAfter ==
  ASSUME TypeOK, PathInv, Active,
         NEW frames \in Seq(FrameSet), NEW out \in Seq(TokenSet),
         Continue(frames, out), NEW refs, content'[Top.list] = refs,
         Exact(frames, refs), \A i \in 1..Len(frames) : Good(frames[i])
  PROVE  Tidy'
<1>1. Frames' = frames /\ Top'.list = Top.list
  BY OneContinues
<1>2. Refs' = refs
  BY <1>1 DEF Refs
<1> QED BY <1>1, <1>2 DEF Tidy

(* The write on top, which is in refs not yet, is taken off. *)
LEMMA TidyBelow ==
  ASSUME TypeOK, PathInv, Tidy, Active, Frames # <<>>, Frame.op = "write",
         NEW out \in Seq(TokenSet), Continue(Below, out), content' = content
  PROVE  Tidy'
<1>1. /\ Below \in Seq(FrameSet) /\ Len(Below) = Len(Frames) - 1
      /\ Len(Frames) \in Nat \ {0}
      /\ \A i \in 1..(Len(Frames) - 1) : Below[i] = Frames[i]
      /\ Depth(Below) = Len(Frames) - 1 /\ Depth(Frames) = Len(Frames) - 1
  BY FramesBelow
<1>2. Exact(Below, Refs)
  BY <1>1 DEF Tidy, Exact
<1>3. \A i \in 1..Len(Below) : Good(Below[i])
  BY <1>1 DEF Tidy
<1>4. content'[Top.list] = Refs
  BY DEF Refs
<1> QED BY <1>1, <1>2, <1>3, <1>4, TidyAfter

(* The frame on top is replaced by one of the same object, *)
LEMMA TidyReplace ==
  ASSUME TypeOK, PathInv, Tidy, Active, Frames # <<>>, Frame.op # "write",
         NEW fr \in FrameSet, fr.op # "write", fr.obj = Frame.obj, Good(fr),
         NEW out \in Seq(TokenSet), Continue(Append(Below, fr), out),
         content' = content
  PROVE  Tidy'
<1> DEFINE n == Len(Frames)
           gs == Append(Below, fr)
<1>1. /\ n \in Nat \ {0} /\ gs \in Seq(FrameSet) /\ Len(gs) = n
      /\ \A i \in 1..(n - 1) : gs[i] = Frames[i]
      /\ gs[n] = fr /\ Depth(gs) = n /\ Continue(gs, out)
  BY ReplaceShape
<1>2. Frame = Frames[n] /\ Depth(Frames) = n
  BY FramesBelow DEF Frame
<1>3. /\ Len(Refs) = n /\ \A i \in 1..n : Refs[i] = Frames[i].obj
      /\ \A i \in 1..n : Good(Frames[i])
  BY <1>2 DEF Tidy, Exact
<1>4. content'[Top.list] = Refs
  BY DEF Refs
<1> HIDE DEF n, gs
<1>5. \A i \in 1..n : i = n \/ i \in 1..(n - 1)
  BY <1>1
<1>6. Exact(gs, Refs)
  BY <1>1, <1>2, <1>3, <1>5 DEF Exact
<1>7. \A i \in 1..Len(gs) : Good(gs[i])
  BY <1>1, <1>3, <1>5
<1> QED BY <1>1, <1>4, <1>6, <1>7, TidyAfter

(* and a write put on top of it. *)
LEMMA TidyEnter ==
  ASSUME TypeOK, PathInv, Tidy, Active, Frames # <<>>, Frame.op # "write",
         NEW val \in Values, val # Thrower,
         NEW out \in Seq(TokenSet),
         Continue(Append(Append(Below, [Frame EXCEPT !.next = @ + 1]),
                    [op |-> "write", obj |-> val, next |-> 0]), out),
         Good([Frame EXCEPT !.next = @ + 1]), content' = content
  PROVE  Tidy'
<1> DEFINE n == Len(Frames)
           fr == [Frame EXCEPT !.next = @ + 1]
           wr == [op |-> "write", obj |-> val, next |-> 0]
           hs == Append(Append(Below, fr), wr)
<1>1. fr \in FrameSet /\ fr.op # "write" /\ fr.obj = Frame.obj /\ Good(fr)
  BY NextFrame
<1>2. wr \in FrameSet /\ wr.op = "write" /\ Good(wr)
  BY FrameTypes DEF Good
<1> HIDE DEF fr, wr
<1>3. /\ n \in Nat \ {0} /\ hs \in Seq(FrameSet) /\ Len(hs) = n + 1
      /\ \A i \in 1..(n - 1) : hs[i] = Frames[i]
      /\ hs[n] = fr /\ hs[n + 1] = wr /\ Depth(hs) = n
  BY <1>1, <1>2, EnterShape
<1>4. Continue(hs, out)
  BY DEF fr, wr
<1>5. Frame = Frames[n] /\ Depth(Frames) = n
  BY FramesBelow DEF Frame
<1>6. /\ Len(Refs) = n /\ \A i \in 1..n : Refs[i] = Frames[i].obj
      /\ \A i \in 1..n : Good(Frames[i])
  BY <1>5 DEF Tidy, Exact
<1>7. content'[Top.list] = Refs
  BY DEF Refs
<1> HIDE DEF n, hs
<1>8. \A i \in 1..(n + 1) : i = n + 1 \/ i = n \/ i \in 1..(n - 1)
  BY <1>3
<1>9. Exact(hs, Refs)
  <2>1. \A i \in 1..n : i = n \/ i \in 1..(n - 1)
    BY <1>3
  <2> QED BY <2>1, <1>1, <1>3, <1>5, <1>6 DEF Exact
<1>10. \A i \in 1..Len(hs) : Good(hs[i])
  <2> TAKE i \in 1..Len(hs)
  <2>1. i = n + 1 \/ i = n \/ i \in 1..(n - 1) BY <1>3, <1>8
  <2>2. \A j \in 1..(n - 1) : Good(Frames[j]) BY <1>3, <1>6
  <2> QED BY <2>1, <2>2, <1>1, <1>2, <1>3
<1> QED BY <1>3, <1>4, <1>7, <1>9, <1>10, TidyAfter

(* An object is begun: it is added to refs and its frame is no write. *)
LEMMA TidyBegin ==
  ASSUME TypeOK, PathInv, Tidy, Writing, Frame.obj \in Objects, Push(Frame.obj),
         NEW fr \in FrameSet, fr.op # "write", fr.obj = Frame.obj, Good(fr),
         NEW out \in Seq(TokenSet), Continue(Append(Below, fr), out)
  PROVE  Tidy'
<1> DEFINE n == Len(Frames)
           gs == Append(Below, fr)
           more == Append(Refs, Frame.obj)
<1>1. Active /\ Frames # <<>> /\ Frame.op = "write"
  BY DEF Writing
<1>2. /\ n \in Nat \ {0} /\ gs \in Seq(FrameSet) /\ Len(gs) = n
      /\ \A i \in 1..(n - 1) : gs[i] = Frames[i]
      /\ gs[n] = fr /\ Depth(gs) = n /\ Continue(gs, out)
  BY <1>1, ReplaceShape
<1>3. Depth(Frames) = n - 1
  BY <1>1, FramesBelow
<1>4. /\ Len(Refs) = n - 1 /\ \A i \in 1..(n - 1) : Refs[i] = Frames[i].obj
      /\ \A i \in 1..n : Good(Frames[i])
  BY <1>1, <1>3 DEF Tidy, Exact
<1>5. /\ Refs \in Seq(Objects) /\ Top.list \in Lists
  BY <1>1, TopProperties
<1>6. content'[Top.list] = more
  BY <1>5 DEF Push, Refs, TypeOK
<1>7. /\ Len(more) = n - 1 + 1
      /\ \A i \in 1..(n - 1) : more[i] = Refs[i]
      /\ more[n - 1 + 1] = Frame.obj
  BY <1>4, <1>5, PushProperties
<1> HIDE DEF n, gs, more
<1>8. \A i \in 1..n : i = n \/ i \in 1..(n - 1)
  BY <1>2
<1>9. Len(more) = n /\ more[n] = Frame.obj
  <2>1. n - 1 + 1 = n BY <1>2
  <2> QED BY <2>1, <1>7
<1>10. Exact(gs, more)
  BY <1>2, <1>4, <1>7, <1>8, <1>9 DEF Exact
<1>11. \A i \in 1..Len(gs) : Good(gs[i])
  <2>1. \A i \in 1..(n - 1) : Good(Frames[i]) BY <1>2, <1>4
  <2> QED BY <2>1, <1>2, <1>8
<1> QED BY <1>1, <1>2, <1>6, <1>10, <1>11, TidyAfter

(* An object is done: what goes is the object itself. *)
LEMMA TidyLeave ==
  ASSUME TypeOK, PathInv, Tidy, Leave
  PROVE  Tidy' /\ Refs # <<>>
<1> DEFINE n == Len(Frames)
           fewer == SubSeq(Refs, 1, Len(Refs) - 1)
<1>1. /\ Active /\ Frames # <<>> /\ Frame.op # "write" /\ Continue(Below, Top.out)
  BY DEF Leave, Finished
<1>2. /\ Below \in Seq(FrameSet) /\ Len(Below) = n - 1 /\ n \in Nat \ {0}
      /\ \A i \in 1..(n - 1) : Below[i] = Frames[i]
      /\ Depth(Below) = n - 1 /\ Depth(Frames) = n
  BY <1>1, FramesBelow
<1>3. /\ Len(Refs) = n /\ \A i \in 1..n : Refs[i] = Frames[i].obj
      /\ \A i \in 1..n : Good(Frames[i])
  BY <1>1, <1>2 DEF Tidy, Exact
<1>4. /\ Refs \in Seq(Objects) /\ Top.list \in Lists /\ Top.out \in Seq(TokenSet)
  BY <1>1, TopProperties
<1>5. Refs # <<>>
  BY <1>2, <1>3
<1>6. content'[Top.list] = fewer
  BY <1>4, <1>5 DEF Leave, Refs, TypeOK
<1>7. Len(fewer) = Len(Refs) - 1 /\ \A i \in 1..(Len(Refs) - 1) : fewer[i] = Refs[i]
  BY <1>4, <1>5, StackProperties
<1> HIDE DEF n, fewer
<1>8. \A i \in 1..(n - 1) : i \in 1..n
  BY <1>2
<1>9. Exact(Below, fewer)
  BY <1>2, <1>3, <1>7, <1>8 DEF Exact
<1>10. \A i \in 1..Len(Below) : Good(Below[i])
  BY <1>2, <1>3, <1>8
<1> QED BY <1>1, <1>2, <1>4, <1>5, <1>6, <1>9, <1>10, TidyAfter

(* What is known of the frame on top. *)
LEMMA TopFrame ==
  ASSUME TypeOK, Reached, Tidy, Active, Frames # <<>>
  PROVE  /\ Good(Frame)
         /\ Frame.obj \in Objects => Frame.obj \in Reachable
<1>1. Frames \in Seq(FrameSet)
  BY TopProperties
<1>2. Len(Frames) \in 1..Len(Frames)
  BY <1>1, StackProperties
<1> QED BY <1>2 DEF Reached, Tidy, Frame

(* No value in a map or a list throws, and no key that is written is null. *)
LEMMA SoundEntries ==
  ASSUME CleanGraph, NEW o \in Reachable, Kind[o] # "bean",
         NEW i \in DOMAIN Items[o]
  PROVE  /\ Items[o][i].val # Thrower
         /\ Kind[o] # "list" /\ Items[o][i].val # Null => Items[o][i].key # NullKey
BY DEF CleanGraph, Flawed

(* The catch block that runs is that of the frame on top. *)
LEMMA CatchesOnTop ==
  ASSUME TypeOK, Active, Frames # <<>>, Frame.op \in {"getters", "items"},
         Frame.obj \in FlawedBeans
  PROVE  LastTry = Len(Frames) /\ Frames[LastTry] = Frame
<1>1. Frames \in Seq(FrameSet)
  BY TopProperties
<1>2. Len(Frames) \in Nat \ {0} /\ DOMAIN Frames = 1..Len(Frames)
  BY <1>1, StackProperties, LenProperties
<1>3. Len(Frames) \in Catchers
  BY <1>2 DEF Catchers, Frame, FlawedBeans, BeanSet
<1>4. \A j \in Catchers : j <= Len(Frames) /\ j \in Nat
  BY <1>2 DEF Catchers
<1>5. LastTry \in Catchers /\ \A j \in Catchers : j <= LastTry
  BY <1>3, <1>4 DEF LastTry
<1>6. LastTry = Len(Frames)
  BY <1>2, <1>3, <1>4, <1>5
<1> QED BY <1>6 DEF Frame

(* The steps of the walk, none of which ends in an exception. *)
LEMMA TidyStep ==
  ASSUME CleanGraph, TypeOK, PathInv, Reached, CleanInv, Walk
  PROVE  Tidy' /\ ~raised' /\ special' \subseteq FlawedClasses
<1>1. /\ Active /\ Top.out \in Seq(TokenSet) /\ Frames \in Seq(FrameSet)
      /\ \A t \in TokenSet : Append(Top.out, t) \in Seq(TokenSet)
  BY WalkContinues, TopProperties, AppendProperties
<1>2. /\ Tidy /\ special \subseteq FlawedClasses
      /\ Frames # <<>> => Good(Frame) /\ (Frame.obj \in Objects => Frame.obj \in Reachable)
  BY <1>1, TopFrame DEF CleanInv
<1>3. CASE WriteValue \/ WriteCycle
  <2>1. \A tag \in {"null", "leaf"} : Append(Top.out, Token(tag)) \in Seq(TokenSet)
    BY <1>1, TokenType
  <2>2. /\ Frames # <<>> /\ Frame.op = "write" /\ content' = content
        /\ \E tag \in {"null", "leaf"} : Continue(Below, Append(Top.out, Token(tag)))
    BY <1>3 DEF WriteValue, WriteCycle, Writing
  <2>3. Tidy'
    BY <1>1, <1>2, <2>1, <2>2, TidyBelow
  <2> QED BY <1>2, <1>3, <2>3 DEF WriteValue, WriteCycle, Writing
<1>4. CASE WriteThrows
  BY <1>2, <1>4 DEF WriteThrows, Writing, Good
<1>5. CASE WriteContainer
  <2> DEFINE fr == [op |-> "items", obj |-> Frame.obj, next |-> 1]
  <2>1. Writing /\ Frame.obj \in Objects /\ Frames # <<>> /\ Kind[Frame.obj] # "bean"
    BY <1>5 DEF WriteContainer, Writing
  <2>2. fr \in FrameSet /\ fr.op = "items" /\ fr.obj = Frame.obj
    BY <2>1, FrameTypes
  <2>3. \A i \in DOMAIN Items[Frame.obj] : Items[Frame.obj][i].val # Thrower
    BY <1>2, <2>1, SoundEntries
  <2>4. Append(Top.out, Header(Frame.obj)) \in Seq(TokenSet)
    BY <2>1, <1>1, HeaderType
  <2>5. Push(Frame.obj)
        /\ Continue(Append(Below, fr), Append(Top.out, Header(Frame.obj)))
    BY <1>5 DEF WriteContainer
  <2> HIDE DEF fr
  <2>6. Good(fr)
    BY <1>2, <2>1, <2>2, <2>3 DEF Good
  <2>7. Tidy'
    BY <1>2, <2>1, <2>2, <2>4, <2>5, <2>6, TidyBegin
  <2> QED BY <1>2, <1>5, <2>7 DEF WriteContainer, Writing
<1>6. CASE WriteBean
  <2> DEFINE op == IF Class[Frame.obj] \in special THEN "json" ELSE "getters"
             fr == [op |-> op, obj |-> Frame.obj, next |-> 1]
  <2>1. Writing /\ Frame.obj \in Objects /\ Frame.obj \in BeanSet /\ Frames # <<>>
    BY <1>6 DEF WriteBean, Writing, BeanSet
  <2>2. fr \in FrameSet /\ fr.op = op /\ fr.obj = Frame.obj /\ fr.next = 1
    BY <2>1, FrameTypes
  <2>3. Push(Frame.obj) /\ Continue(Append(Below, fr), Top.out)
    BY <1>6 DEF WriteBean
  <2>4. op \in {"json", "getters"} /\ (op = "json" => Class[Frame.obj] \in FlawedClasses)
    BY <1>2
  <2>5. \A i \in DOMAIN Items[Frame.obj] : ~(i < 1)
    <3>1. Items[Frame.obj] \in Seq([key : {"key", NullKey}, val : Values])
      BY <2>1, GraphAssumption
    <3>2. DOMAIN Items[Frame.obj] = 1..Len(Items[Frame.obj])
      BY <3>1, LenProperties
    <3> QED BY <3>2
  <2> HIDE DEF op, fr
  <2>6. Good(fr)
    BY <1>2, <2>1, <2>2, <2>4, <2>5 DEF Good
  <2>7. Tidy'
    BY <1>1, <1>2, <2>1, <2>2, <2>3, <2>4, <2>6, TidyBegin
  <2> QED BY <1>2, <1>6, <2>7 DEF WriteBean, Writing
<1>7. ASSUME Frames # <<>>, Frame.op # "write"
      PROVE  /\ Frame.obj \in Reachable /\ Frame.next \in Nat \ {0}
             /\ DOMAIN Items[Frame.obj] = 1..Len(Items[Frame.obj])
             /\ Len(Items[Frame.obj]) \in Nat
  <2>1. Frame.obj \in Objects /\ Frame.next \in Nat \ {0}
    BY <1>1, <1>7, AdvanceType
  <2>2. Items[Frame.obj] \in Seq([key : {"key", NullKey}, val : Values])
    BY <2>1, GraphAssumption
  <2> QED BY <1>2, <1>7, <2>1, <2>2, LenProperties
<1>8. CASE CallGetter
  <2> DEFINE fr == [Frame EXCEPT !.next = @ + 1]
  <2>1. /\ Frames # <<>> /\ Frame.op = "getters" /\ content' = content
        /\ Continue(Append(Below, fr), Top.out)
        /\ Items[Frame.obj][Frame.next].val # Thrower
    BY <1>8 DEF CallGetter, Reading, NextGetter, Getter
  <2>2. /\ fr \in FrameSet /\ fr.op = "getters" /\ fr.obj = Frame.obj
        /\ fr.next = Frame.next + 1
    BY <1>1, <2>1, NextFrame
  <2>3. \A i \in DOMAIN Items[Frame.obj] :
           i < Frame.next + 1 => i < Frame.next \/ i = Frame.next
    BY <1>7, <2>1
  <2> HIDE DEF fr
  <2>4. Good(fr)
    BY <1>2, <2>1, <2>2, <2>3 DEF Good
  <2>5. Tidy'
    BY <1>1, <1>2, <2>1, <2>2, <2>4, TidyReplace
  <2> QED BY <1>2, <1>8, <2>5 DEF CallGetter, Reading
<1>9. CASE WriteBeanMap
  <2> DEFINE fr == [op |-> "items", obj |-> Frame.obj, next |-> 1]
  <2>1. /\ Frames # <<>> /\ Frame.op = "getters" /\ content' = content
        /\ Continue(Append(Below, fr), Append(Top.out, Header(Frame.obj)))
        /\ Frame.next > Len(Items[Frame.obj])
    BY <1>9 DEF WriteBeanMap, Reading
  <2>2. Frame.obj \in Objects
    BY <1>1, <2>1, AdvanceType
  <2>3. fr \in FrameSet /\ fr.op = "items" /\ fr.obj = Frame.obj
    BY <2>2, FrameTypes
  <2>4. Append(Top.out, Header(Frame.obj)) \in Seq(TokenSet)
    BY <2>2, <1>1, HeaderType
  <2>5. \A i \in DOMAIN Items[Frame.obj] : i < Frame.next
    BY <1>7, <2>1
  <2> HIDE DEF fr
  <2>6. Good(fr)
    BY <1>2, <2>1, <2>3, <2>5 DEF Good
  <2>7. Tidy'
    BY <1>1, <1>2, <2>1, <2>3, <2>4, <2>6, TidyReplace
  <2> QED BY <1>2, <1>9, <2>7 DEF WriteBeanMap, Reading
<1>10. ASSUME Frames # <<>>, Frame.op \in {"items", "json"}
       PROVE  Good([Frame EXCEPT !.next = @ + 1])
  <2> DEFINE fr == [Frame EXCEPT !.next = @ + 1]
  <2>1. fr.op = Frame.op /\ fr.obj = Frame.obj
    BY <1>1, <1>10, NextFrame
  <2> HIDE DEF fr
  <2>2. Good(fr)
    BY <1>2, <1>10, <2>1 DEF Good
  <2> QED BY <2>2 DEF fr
<1>11. CASE SkipNullEntry
  <2> DEFINE fr == [Frame EXCEPT !.next = @ + 1]
  <2>1. /\ Frames # <<>> /\ Frame.op = "items" /\ content' = content
        /\ Continue(Append(Below, fr), Top.out)
    BY <1>11 DEF SkipNullEntry, Iterating, NextItem
  <2>2. /\ fr \in FrameSet /\ fr.op = "items" /\ fr.obj = Frame.obj /\ Good(fr)
    BY <1>1, <1>10, <2>1, NextFrame
  <2> HIDE DEF fr
  <2>3. Tidy'
    BY <1>1, <1>2, <2>1, <2>2, TidyReplace
  <2> QED BY <1>2, <1>11, <2>3 DEF SkipNullEntry, Iterating
<1>12. CASE WriteElement
  <2>1. Frames # <<>> /\ Frame.op = "items" /\ content' = content /\ Iterating
    BY <1>12 DEF WriteElement, Iterating
  <2>2. Item.val \in Values /\ Frame.next \in DOMAIN Items[Frame.obj]
    BY <1>12, CurrentItem DEF WriteElement
  <2>3. Item.val # Thrower
    BY <1>2, <2>1, <2>2 DEF Good, Item
  <2>4. Tidy'
    BY <1>1, <1>2, <1>10, <1>12, <2>1, <2>2, <2>3, TidyEnter DEF WriteElement, NextItem
  <2> QED BY <1>2, <1>12, <2>4 DEF WriteElement, Iterating
<1>13. CASE WriteEntry
  <2>1. Frames # <<>> /\ Frame.op = "items" /\ content' = content /\ Iterating
    BY <1>13 DEF WriteEntry, Iterating
  <2>2. Written(Item.val) \in Values /\ Frame.next \in DOMAIN Items[Frame.obj]
    BY <1>13, CurrentItem DEF WriteEntry
  <2>3. Item.val # Thrower /\ Item.val # Caller
    BY <1>2, <1>7, <2>1, <2>2 DEF Good, Item, CleanGraph
  <2>4. Written(Item.val) # Thrower
    BY <2>3 DEF Written
  <2>5. Append(Top.out, Token("key")) \in Seq(TokenSet)
    BY <1>1, TokenType
  <2>6. Tidy'
    BY <1>1, <1>2, <1>10, <1>13, <2>1, <2>2, <2>4, <2>5, TidyEnter DEF WriteEntry, NextItem
  <2> QED BY <1>2, <1>13, <2>6 DEF WriteEntry, Iterating
<1>14. CASE WriteJson
  <2>1. Frames # <<>> /\ Frame.op = "json" /\ content' = content
    BY <1>14 DEF WriteJson
  <2>2. Frame.obj \in BeanSet /\ Frame.obj \in Reachable
    BY <1>1, <1>7, <2>1, AdvanceType
  <2>3. Json[Frame.obj] # Thrower
    BY <1>2, <2>1, <2>2 DEF Good, CleanGraph
  <2>4. Json[Frame.obj] \in Values
    BY <2>2, <2>3, GraphAssumption DEF BeanSet, Values
  <2>5. Tidy'
    BY <1>1, <1>2, <1>10, <1>14, <2>1, <2>3, <2>4, TidyEnter DEF WriteJson, NextItem
  <2> QED BY <1>2, <1>14, <2>3, <2>5 DEF WriteJson
<1>15. CASE Leave
  <2>1. Tidy' /\ Refs # <<>>
    BY <1>2, <1>15, TidyLeave
  <2> QED BY <1>2, <1>15, <2>1 DEF Leave, Finished
<1>16. CASE Catch
  <2> DEFINE fr == [op |-> "json", obj |-> Frame.obj, next |-> 1]
  <2>1. Frames # <<>> /\ Frame.op \in {"getters", "items"} /\ Frame.obj \in FlawedBeans
    BY <1>16, CatchSteps DEF CleanInv
  <2>2. LastTry = Len(Frames) /\ Frames[LastTry] = Frame
    BY <1>1, <2>1, CatchesOnTop
  <2>3. /\ special' = special \cup {Class[Frame.obj]}
        /\ Continue(Append(Below, fr), Top.out)
        /\ raised' = FALSE /\ content' = content
    BY <1>16, <2>2, CatchSteps DEF Below
  <2>4. Class[Frame.obj] \in FlawedClasses
    BY <2>1 DEF FlawedClasses
  <2>5. fr \in FrameSet /\ fr.op = "json" /\ fr.obj = Frame.obj
    BY <2>1, FrameTypes DEF FlawedBeans
  <2> HIDE DEF fr
  <2>6. Good(fr)
    BY <1>2, <2>1, <2>4, <2>5 DEF Good
  <2>7. Tidy'
    BY <1>1, <1>2, <2>1, <2>3, <2>5, <2>6, TidyReplace
  <2> QED BY <1>2, <2>3, <2>4, <2>7
<1> QED
  BY <1>3, <1>4, <1>5, <1>6, <1>8, <1>9, <1>11, <1>12, <1>13, <1>14, <1>15,
     <1>16 DEF Walk

-----------------------------------------------------------------------------
(* The stack holds each object in reach at most once, below the write on   *)
(* top.                                                                    *)
LEMMA StackBound ==
  ASSUME CleanGraph, TypeOK, PathInv, Reached, Writing
  PROVE  Len(Frames) <= SafeDepth
<1> DEFINE n == Len(Frames)
           f == [i \in 1..(n - 1) |-> Frames[i].obj]
<1>1. Active /\ Frames # <<>> /\ Frame.op = "write"
  BY DEF Writing
<1>2. /\ Frames \in Seq(FrameSet) /\ n \in Nat \ {0} /\ Depth(Frames) = n - 1
      /\ Walked(Frames, Refs)
  BY <1>1, TopProperties, FramesBelow DEF PathInv
<1>3. \A i \in 1..(n - 1) : Frames[i].obj \in Reachable
  <2> TAKE i \in 1..(n - 1)
  <2>1. i \in 1..n BY <1>2
  <2>2. Frames[i] \in FrameSet BY <1>2, <2>1, ElementOfSeq
  <2>3. Frames[i].op # "write" BY <1>2 DEF Walked
  <2>4. Frames[i].obj \in Objects BY <2>2, <2>3 DEF FrameSet, BeanSet
  <2> QED BY <1>1, <2>1, <2>4 DEF Reached
<1>4. \A i, j \in 1..(n - 1) : f[i] = f[j] => i = j
  BY <1>2 DEF Walked
<1>5. f \in [1..(n - 1) -> Reachable]
  BY <1>3
<1>6. IsFiniteSet(Reachable) /\ Cardinality(Reachable) < SafeDepth
      /\ Cardinality(Reachable) \in Nat /\ SafeDepth \in Nat
  BY FS_CardinalityType, GraphAssumption DEF CleanGraph
<1> HIDE DEF f, n
<1>7. f \in Injection(1..(n - 1), Reachable)
  BY <1>4, <1>5 DEF Injection, IsInjective
<1>8. Cardinality(1..(n - 1)) <= Cardinality(Reachable)
  BY <1>6, <1>7, FS_Injection
<1>9. Cardinality(1..(n - 1)) = n - 1
  <2>1. 1 \in Int /\ n - 1 \in Int BY <1>2
  <2>2. Cardinality(1..(n - 1)) = IF 1 > n - 1 THEN 0 ELSE n - 1 - 1 + 1
    BY <2>1, FS_Interval
  <2> QED BY <1>2, <2>2
<1>10. n <= SafeDepth
  BY <1>2, <1>6, <1>8, <1>9
<1> QED BY <1>10 DEF n

(* No exception leaves the call, and it ends with an empty list. *)
LEMMA CleanStep ==
  ASSUME CleanGraph, TypeOK, PathInv, Reached, CleanInv, [Next]_vars
  PROVE  CleanInv'
<1>1. CASE Walk
  <2>1. Active'
    <3>1. \E frames \in Seq(FrameSet), out \in Seq(TokenSet) : Continue(frames, out)
      BY <1>1, WalkContinues
    <3> QED BY <1>1, <3>1, WalkContinues, OneContinues
  <2> QED BY <1>1, <2>1, TidyStep DEF CleanInv
<1>2. CASE Call
  <2> PICK root \in Roots, l \in Lists :
        LET fr == [op |-> "write", obj |-> root, next |-> 0]
        IN  /\ Active' /\ Frames' = <<fr>> /\ fr \in FrameSet
            /\ Refs' = IF slot.list # None THEN content[slot.list] ELSE <<>>
            /\ Len(builders') = 1 /\ UNCHANGED <<special, raised>>
    BY <1>2, BeginCall
  <2> DEFINE fr == [op |-> "write", obj |-> root, next |-> 0]
  <2>1. ~Active /\ ~raised
    BY <1>2 DEF Call, CleanInv
  <2>2. Refs' = <<>> /\ Frames' = <<fr>> /\ fr \in FrameSet
    BY <2>1 DEF CleanInv
  <2>3. Good(fr)
    BY GraphAssumption DEF Good
  <2>4. fr.op = "write"
    OBVIOUS
  <2> HIDE DEF fr
  <2>5. Len(<<fr>>) = 1 /\ <<fr>>[1] = fr /\ <<fr>> # <<>>
    OBVIOUS
  <2>6. Depth(<<fr>>) = 0
    BY <2>4, <2>5 DEF Depth
  <2>7. Exact(<<fr>>, <<>>)
    BY <2>6 DEF Exact
  <2>8. \A i \in 1..Len(<<fr>>) : Good(<<fr>>[i])
    BY <2>3, <2>5
  <2> QED BY <2>1, <2>2, <2>7, <2>8 DEF CleanInv, Tidy
<1>3. CASE GetterCalls
  BY <1>3, NoGetterCalls DEF CleanGraph, NoCallers
<1>4. CASE Return
  <2>1. Active /\ ~raised
    BY <1>4 DEF Return
  <2>2. builders' = <<>> /\ Top.list \in Lists
    BY <1>4, <2>1, OneCall DEF Return
  <2>3. content'[slot'.list] = <<>>
    BY <1>4, <2>2 DEF Return, TypeOK
  <2> QED BY <1>4, <2>1, <2>2, <2>3 DEF Return, CleanInv, Tidy, Active
<1>5. CASE GetterThrows \/ NullKeyThrows
  <2>1. /\ Active /\ Frames # <<>> /\ Frame.op \in {"getters", "items"}
        /\ Frame.next <= Len(Items[Frame.obj])
        /\ UNCHANGED <<slot, content, builders, special>>
    BY <1>5 DEF GetterThrows, NullKeyThrows, Reading, Iterating
  <2>2. /\ Frame.obj \in Objects /\ Frame.next \in Nat \ {0}
        /\ Frame.op = "getters" => Frame.obj \in BeanSet
    BY <2>1, AdvanceType
  <2>3. Frame.obj \in Reachable
    BY <2>1, <2>2, TopFrame DEF CleanInv
  <2>4. Frame.next \in DOMAIN Items[Frame.obj]
    <3>1. Items[Frame.obj] \in Seq([key : {"key", NullKey}, val : Values])
      BY <2>2, GraphAssumption
    <3> QED BY <2>1, <2>2, <3>1, LenProperties
  <2>5. Flawed(Frame.obj)
    BY <1>5, <2>4 DEF GetterThrows, NullKeyThrows, Getter, Item, Flawed
  <2>6. Frame.obj \in FlawedBeans
    BY <2>2, <2>3, <2>5 DEF CleanGraph, FlawedBeans, BeanSet
  <2> QED BY <2>1, <2>6 DEF CleanInv, Tidy, Active, Frames, Frame, Refs, Top
<1>6. CASE Abandon
  <2>1. Active /\ raised /\ Catchers = {}
    BY <1>6 DEF Abandon
  <2>2. Frames # <<>> /\ Frame.op \in {"getters", "items"} /\ Frame.obj \in FlawedBeans
    BY <2>1 DEF CleanInv
  <2>3. Frames \in Seq(FrameSet)
    BY <2>1, TopProperties
  <2>4. Len(Frames) \in DOMAIN Frames
    BY <2>2, <2>3, StackProperties, LenProperties
  <2> QED BY <2>1, <2>2, <2>4 DEF Catchers, Frame, FlawedBeans, BeanSet
<1>7. CASE Overflow
  <2>1. Writing /\ Len(Frames) > SafeDepth /\ SafeDepth \in Nat
    BY <1>7, GraphAssumption DEF Overflow
  <2>2. Frames \in Seq(FrameSet) /\ Len(Frames) \in Nat
    BY <2>1, TopProperties DEF Writing
  <2> QED BY <2>1, <2>2, StackBound
<1>8. CASE Collect
  <2>1. UNCHANGED <<content, builders, special, raised>>
        /\ slot'.list \in {slot.list, None}
    BY <1>8 DEF Collect, TypeOK
  <2> QED BY <2>1 DEF CleanInv, Tidy, Active, Frames, Frame, Refs, Top
<1>9. CASE Evict
  <2>1. UNCHANGED <<slot, content, builders, raised>> /\ special' \subseteq special
    BY <1>9 DEF Evict
  <2> QED BY <2>1 DEF CleanInv, Tidy, Active, Frames, Frame, Refs, Top
<1>10. CASE UNCHANGED vars
  BY <1>10 DEF vars, CleanInv, Tidy, Active, Frames, Frame, Refs, Top
<1> QED
  BY <1>1, <1>2, <1>3, <1>4, <1>5, <1>6, <1>7, <1>8, <1>9, <1>10
  DEF Next, Run, Walk

LEMMA TidyIsPath ==
  ASSUME TypeOK, CleanInv
  PROVE  RefsArePath
<1> SUFFICES ASSUME Active, ~raised PROVE Refs = Path(Top)
  BY DEF RefsArePath
<1>1. Refs \in Seq(Objects)
  BY TopProperties
<1>2. Path(Top) = [i \in 1..Depth(Frames) |-> Frames[i].obj]
  BY DEF Path, Depth, Frames
<1>3. Len(Refs) = Depth(Frames) /\ \A i \in 1..Depth(Frames) : Refs[i] = Frames[i].obj
  BY DEF CleanInv, Tidy, Exact
<1>4. Refs = [i \in 1..Len(Refs) |-> Refs[i]]
  BY <1>1
<1> QED BY <1>2, <1>3, <1>4

LEMMA InitClean == Init => CleanInv
BY DEF Init, CleanInv, Tidy, Active

(* On a clean graph refs is the list of the objects being written, at      *)
(* every step of every call: each branch of writeObject, and each catch    *)
(* block, takes back exactly what was added since it was entered, however  *)
(* many getters have thrown before and whatever was evicted or collected.  *)
THEOREM RefsAreThePath == CleanGraph => (Spec => []RefsArePath)
<1> DEFINE I == CleanGraph /\ NoCallers /\ Inv /\ PathInv /\ Reached /\ CleanInv
<1>1. CleanGraph /\ Init => I
  BY InitInv, InitPath, InitClean DEF CleanGraph, NoCallers
<1>2. I /\ [Next]_vars => I'
  <2> SUFFICES ASSUME I, [Next]_vars PROVE I'
    OBVIOUS
  <2>1. CleanGraph' /\ NoCallers'
    BY DEF CleanGraph, NoCallers
  <2>2. Inv' /\ PathInv' /\ Reached'
    BY NextInv, PathStep, ReachedNext DEF Inv
  <2>3. CleanInv'
    BY CleanStep DEF Inv
  <2> QED BY <2>1, <2>2, <2>3
<1>3. I => RefsArePath
  BY TidyIsPath DEF Inv
<1> QED BY <1>1, <1>2, <1>3, PTL DEF Spec

-----------------------------------------------------------------------------
(* The encoding of a graph.                                                *)

Encodings == [Places -> Seq(TokenSet)]

LEMMA EntryType ==
  ASSUME NEW o \in Objects
  PROVE  /\ Len(Items[o]) \in Nat /\ DOMAIN Items[o] = 1..Len(Items[o])
         /\ \A i \in 1..Len(Items[o]) : Items[o][i].val \in Values
<1>1. Items[o] \in Seq([key : {"key", NullKey}, val : Values])
  BY GraphAssumption
<1>2. Len(Items[o]) \in Nat /\ DOMAIN Items[o] = 1..Len(Items[o])
  BY <1>1, LenProperties
<1>3. \A i \in 1..Len(Items[o]) : Items[o][i].val \in Values
  BY <1>2, ItemType
<1> QED BY <1>2, <1>3

LEMMA OneToken ==
  ASSUME NEW t \in TokenSet
  PROVE  <<t>> \in Seq(TokenSet)
OBVIOUS

LEMMA PieceType ==
  ASSUME NEW enc \in Encodings, NEW o \in Objects, NEW path \in Seq(Objects), NEW i
  PROVE  Piece(enc, o, path, i) \in Seq(TokenSet)
<1>1. CASE i \notin Kept(o)
  BY <1>1 DEF Piece
<1>2. CASE i \in Kept(o)
  <2>1. i \in 1..Len(Items[o]) /\ Items[o][i].val \in Values
    BY <1>2, EntryType DEF Kept
  <2>2. enc[<<Items[o][i].val, path>>] \in Seq(TokenSet)
    BY <2>1 DEF Encodings, Places
  <2>3. (IF Kind[o] = "list" THEN <<>> ELSE <<Token("key")>>) \in Seq(TokenSet)
    BY TokenType, OneToken
  <2> HIDE DEF Piece
  <2> QED BY <1>2, <2>2, <2>3, ConcatProperties DEF Piece
<1> QED BY <1>1, <1>2

(* The recursion over the entries of an object is that of its definition,  *)
(* and has a type.                                                         *)
LEMMA EndingSteps ==
  ASSUME NEW enc \in Encodings, NEW o \in Objects, NEW path \in Seq(Objects)
  PROVE  LET ending == Ending(enc, o, path)
         IN  /\ ending \in [Nat -> Seq(TokenSet)] /\ ending[0] = <<>>
             /\ \A k \in Nat \ {0} :
                  ending[k] = Piece(enc, o, path, Len(Items[o]) + 1 - k) \o ending[k - 1]
<1> DEFINE part(k) == Piece(enc, o, path, Len(Items[o]) + 1 - k)
           Meets(f) == f = [k \in Nat |-> IF k = 0 THEN <<>> ELSE part(k) \o f[k - 1]]
           step == [p \in Nat \X Seq(TokenSet) |-> part(p[1] + 1) \o p[2]]
<1>1. \A k : part(k) \in Seq(TokenSet)
  BY PieceType
<1>2. Ending(enc, o, path) = CHOOSE f : Meets(f)
  BY DEF Ending
<1> HIDE DEF part
<1>3. step \in [Nat \X Seq(TokenSet) -> Seq(TokenSet)]
  <2>1. ASSUME NEW p \in Nat \X Seq(TokenSet) PROVE part(p[1] + 1) \o p[2] \in Seq(TokenSet)
    BY <1>1, ConcatProperties
  <2> QED BY <2>1
<1>4. <<>> \in Seq(TokenSet)
  OBVIOUS
<1> HIDE DEF step
<1>5. PICK f \in [Nat -> Seq(TokenSet)] : Follows(f, <<>>, step)
  BY <1>3, <1>4, Recursion
<1>6. \A n \in Nat : f[n + 1] = part(n + 1) \o f[n]
  BY <1>5 DEF Follows, step
<1>7. \A k \in Nat \ {0} : f[k] = part(k) \o f[k - 1]
  <2> TAKE k \in Nat \ {0}
  <2>1. k - 1 \in Nat /\ (k - 1) + 1 = k OBVIOUS
  <2> QED BY <2>1, <1>6
<1>8. Meets(f)
  <2>1. \A k \in Nat : f[k] = IF k = 0 THEN <<>> ELSE part(k) \o f[k - 1]
    BY <1>5, <1>7 DEF Follows
  <2> QED BY <1>5, <2>1
<1>9. Meets(Ending(enc, o, path))
  <2> HIDE DEF Meets
  <2> QED BY <1>2, <1>8
<1> DEFINE g == Ending(enc, o, path)
<1> HIDE DEF g
<1>10. g = [k \in Nat |-> IF k = 0 THEN <<>> ELSE part(k) \o g[k - 1]]
  BY <1>9 DEF g
<1>11. g[0] = <<>> /\ \A k \in Nat \ {0} : g[k] = part(k) \o g[k - 1]
  BY <1>10
<1>12. g \in [Nat -> Seq(TokenSet)]
  <2> DEFINE P == {k \in Nat : g[k] \in Seq(TokenSet)}
  <2>1. 0 \in P
    BY <1>4, <1>11
  <2>2. \A n \in Nat : n \in P => n + 1 \in P
    <3> SUFFICES ASSUME NEW n \in Nat, n \in P PROVE n + 1 \in P
      OBVIOUS
    <3>1. n + 1 \in Nat \ {0} /\ (n + 1) - 1 = n OBVIOUS
    <3>2. g[n + 1] = part(n + 1) \o g[n] BY <3>1, <1>11
    <3>3. g[n + 1] \in Seq(TokenSet) BY <3>2, <1>1, ConcatProperties
    <3> QED BY <3>3
  <2> HIDE DEF P
  <2>3. Nat \subseteq P
    BY <2>1, <2>2, Counting
  <2> QED BY <2>3, <1>10 DEF P
<1> QED BY <1>11, <1>12 DEF g, part

LEMMA HeadingType ==
  ASSUME NEW o \in Objects
  PROVE  Heading(o) \in TokenSet /\ Heading(o) = Header(o)
<1>1. Len(Items[o]) \in Nat /\ DOMAIN Items[o] = 1..Len(Items[o])
  BY EntryType
<1>2. CASE Kind[o] = "list"
  <2>1. Kept(o) = 1..Len(Items[o])
    BY <1>1, <1>2 DEF Kept
  <2>2. Cardinality(1..Len(Items[o])) = Len(Items[o])
    <3>1. 1 \in Int /\ Len(Items[o]) \in Int BY <1>1
    <3>2. Cardinality(1..Len(Items[o])) =
            IF 1 > Len(Items[o]) THEN 0 ELSE Len(Items[o]) - 1 + 1
      BY <3>1, FS_Interval
    <3> QED BY <1>1, <3>2
  <2>3. Heading(o) = Header(o)
    BY <1>2, <2>1, <2>2 DEF Heading, Header
  <2> QED BY <2>3, HeaderType
<1>3. CASE Kind[o] # "list"
  <2>1. Kept(o) = Entries(o)
    BY <1>3 DEF Kept, Entries
  <2>2. Heading(o) = Header(o)
    BY <1>3, <2>1 DEF Heading, Header
  <2> QED BY <2>2, HeaderType
<1> QED BY <1>2, <1>3

LEMMA PlainType ==
  ASSUME NEW val
  PROVE  Plain(val) \in Seq(TokenSet)
BY TokenType, OneToken DEF Plain

LEMMA BodyType ==
  ASSUME NEW enc \in Encodings, NEW o \in Objects, NEW path \in Seq(Objects)
  PROVE  Body(enc, o, path) \in Seq(TokenSet)
<1>1. CASE Kind[o] = "bean" /\ Throws(o)
  <2>1. Json[o] \in Values
    BY <1>1, GraphAssumption DEF Values
  <2>2. enc[<<Json[o], path>>] \in Seq(TokenSet)
    BY <2>1 DEF Encodings, Places
  <2> QED BY <1>1, <2>2 DEF Body
<1>2. CASE ~(Kind[o] = "bean" /\ Throws(o))
  <2>1. Len(Items[o]) \in Nat
    BY EntryType
  <2>2. Ending(enc, o, path)[Len(Items[o])] \in Seq(TokenSet)
    BY <2>1, EndingSteps
  <2>3. <<Heading(o)>> \in Seq(TokenSet)
    BY HeadingType, OneToken
  <2> QED BY <1>2, <2>2, <2>3, ConcatProperties DEF Body
<1> QED BY <1>1, <1>2

LEMMA ValueType ==
  ASSUME NEW enc \in Encodings, NEW val \in Values, NEW path \in Seq(Objects)
  PROVE  Value(enc, val, path) \in Seq(TokenSet)
<1>1. CASE val \notin Objects \/ On(path, val)
  BY <1>1, PlainType DEF Value
<1>2. CASE val \in Objects /\ ~On(path, val)
  <2>1. Append(path, val) \in Seq(Objects)
    BY <1>2, AppendProperties
  <2> QED BY <1>2, <2>1, BodyType DEF Value
<1> QED BY <1>1, <1>2

(* So is the recursion over the depth. *)
LEMMA EncodeSteps ==
  /\ encode \in [Nat -> Encodings]
  /\ \A n \in Nat \ {0}, val \in Values, path \in Seq(Objects) :
       encode[n][<<val, path>>] = Value(encode[n - 1], val, path)
  /\ \A val \in Values, path \in Seq(Objects) : encode[0][<<val, path>>] = Plain(val)
<1> DEFINE Level(enc) == [place \in Places |-> Value(enc, place[1], place[2])]
           Ground == [place \in Places |-> Plain(place[1])]
           step == [p \in Nat \X Encodings |-> Level(p[2])]
           Meets(f) == f = [n \in Nat |->
             [place \in Places |->
                IF n = 0 THEN Plain(place[1])
                ELSE Value(f[n - 1], place[1], place[2])]]
<1>1. encode = CHOOSE f : Meets(f)
  BY DEF encode
<1>2. ASSUME NEW enc \in Encodings PROVE Level(enc) \in Encodings
  BY ValueType DEF Encodings, Places
<1>3. Ground \in Encodings
  BY PlainType DEF Encodings
<1>4. step \in [Nat \X Encodings -> Encodings]
  <2> HIDE DEF Level
  <2> QED BY <1>2
<1> HIDE DEF step, Ground
<1>5. PICK f \in [Nat -> Encodings] : Follows(f, Ground, step)
  BY <1>3, <1>4, Recursion
<1>6. \A n \in Nat : f[n + 1] = Level(f[n])
  <2> HIDE DEF Level
  <2> QED BY <1>5 DEF Follows, step
<1>7. \A n \in Nat : f[n] = IF n = 0 THEN Ground ELSE Level(f[n - 1])
  <2> TAKE n \in Nat
  <2>1. n # 0 => n - 1 \in Nat /\ (n - 1) + 1 = n OBVIOUS
  <2> HIDE DEF Level
  <2> QED BY <2>1, <1>5, <1>6 DEF Follows
<1>8. Meets(f)
  <2>1. \A n \in Nat : f[n] = [place \in Places |->
                IF n = 0 THEN Plain(place[1])
                ELSE Value(f[n - 1], place[1], place[2])]
    BY <1>7 DEF Ground
  <2> QED BY <1>5, <2>1
<1>9. Meets(encode)
  <2> HIDE DEF Meets
  <2> QED BY <1>1, <1>8
<1>10. \A n \in Nat : encode[n] = [place \in Places |->
                IF n = 0 THEN Plain(place[1])
                ELSE Value(encode[n - 1], place[1], place[2])]
  BY <1>9
<1>11. encode[0] = Ground /\ \A n \in Nat \ {0} : encode[n] = Level(encode[n - 1])
  BY <1>10 DEF Ground
<1>12. encode \in [Nat -> Encodings]
  <2> DEFINE P == {n \in Nat : encode[n] \in Encodings}
  <2>1. 0 \in P
    BY <1>11, <1>3
  <2>2. \A n \in Nat : n \in P => n + 1 \in P
    <3> SUFFICES ASSUME NEW n \in Nat, n \in P PROVE n + 1 \in P
      OBVIOUS
    <3>1. n + 1 \in Nat \ {0} /\ (n + 1) - 1 = n OBVIOUS
    <3> HIDE DEF Level
    <3>2. encode[n + 1] = Level(encode[n]) BY <3>1, <1>11
    <3> QED BY <3>2, <1>2
  <2> HIDE DEF P
  <2>3. Nat \subseteq P
    BY <2>1, <2>2, Counting
  <2>4. encode = [n \in Nat |-> encode[n]]
    BY <1>9
  <2> QED BY <2>3, <2>4 DEF P
<1>13. \A val \in Values, path \in Seq(Objects) : <<val, path>> \in Places
  BY DEF Places
<1> QED BY <1>11, <1>12, <1>13 DEF Ground

-----------------------------------------------------------------------------
(* What a call has still to write.                                         *)

(* The objects of the first k frames. *)
Around(fs, k) == [j \in 1..k |-> fs[j].obj]

Depths == Cardinality(Reachable)

(* The entries of o from next on. *)
Left(enc, o, path, next) ==
  IF next > Len(Items[o]) THEN <<>>
  ELSE Ending(enc, o, path)[Len(Items[o]) + 1 - next]

(* What frame i has still to write, but for the frames on top of it: the   *)
(* entries that are left of a container, all of a bean whose getters are   *)
(* being called. *)
Remain(fs, i) ==
  LET fr == fs[i]
  IN  CASE fr.op = "write"   -> Encode(fr.obj, Around(fs, i - 1))
        [] fr.op = "getters" -> Body(encode[Depths - i], fr.obj, Around(fs, i))
        [] fr.op = "items"   -> Left(encode[Depths - i], fr.obj, Around(fs, i), fr.next)
        [] OTHER             ->
             IF fr.next = 1 THEN Encode(Json[fr.obj], Around(fs, i)) ELSE <<>>

(* g[i] is what frames 1 to i have still to write. *)
Owes(g, fs) ==
  /\ g[0] = <<>>
  /\ \A i \in 1..Len(fs) : g[i] = Remain(fs, i) \o g[i - 1]

Settles(fs, out, total) ==
  \E g \in [Nat -> Seq(TokenSet)] : Owes(g, fs) /\ total = out \o g[Len(fs)]

(* What has been written and what is still to be written make up the       *)
(* encoding of the root.  A bean that fails has written nothing yet.       *)
Settled == Settles(Frames, Top.out, Encode(Top.root, <<>>))

Due ==
  /\ Active => Settled
  /\ raised => Frame.op = "getters"

(* A stack of frames: distinct objects in reach, and a write only on top.  *)
Nested(fs) ==
  /\ fs \in Seq(FrameSet)
  /\ Depth(fs) = IF fs # <<>> /\ fs[Len(fs)].op = "write" THEN Len(fs) - 1 ELSE Len(fs)
  /\ \A i \in 1..(Len(fs) - 1) : fs[i].op # "write"
  /\ \A i \in 1..Depth(fs) : fs[i].obj \in Reachable
  /\ \A i, j \in 1..Depth(fs) : fs[i].obj = fs[j].obj => i = j

LEMMA WalkedIsNested ==
  ASSUME NEW fs \in Seq(FrameSet), NEW refs, Walked(fs, refs),
         \A i \in 1..Len(fs) : fs[i].obj \in Objects => fs[i].obj \in Reachable
  PROVE  Nested(fs)
<1>1. Len(fs) \in Nat /\ (fs # <<>> => Len(fs) # 0)
  BY EmptySeq
<1>2. Depth(fs) = IF fs # <<>> /\ fs[Len(fs)].op = "write" THEN Len(fs) - 1 ELSE Len(fs)
  BY DEF Depth
<1>3. /\ \A i, j \in 1..Depth(fs) : fs[i].obj = fs[j].obj => i = j
      /\ \A i \in 1..(Len(fs) - 1) : fs[i].op # "write"
  BY DEF Walked
<1>4. \A i \in 1..Depth(fs) : fs[i].obj \in Reachable
  <2> TAKE i \in 1..Depth(fs)
  <2>1. i \in 1..Len(fs)
    BY <1>1, <1>2
  <2>2. fs[i].op # "write"
    <3>1. CASE i = Len(fs)
      BY <3>1, <1>1, <1>2
    <3>2. CASE i # Len(fs)
      <4>1. i \in 1..(Len(fs) - 1) BY <3>2, <2>1, <1>1
      <4> QED BY <4>1, <1>3
    <3> QED BY <3>1, <3>2
  <2>3. fs[i] \in FrameSet
    BY <2>1, ElementOfSeq
  <2>4. fs[i].obj \in Objects
    BY <2>2, <2>3 DEF FrameSet, BeanSet
  <2> QED BY <2>1, <2>4
<1> QED BY <1>2, <1>3, <1>4 DEF Nested

LEMMA FramesNested ==
  ASSUME TypeOK, PathInv, Reached, Active
  PROVE  Nested(Frames)
<1>1. Frames \in Seq(FrameSet) /\ Walked(Frames, Refs)
  BY TopProperties DEF PathInv
<1>2. \A i \in 1..Len(Frames) : Frames[i].obj \in Objects => Frames[i].obj \in Reachable
  BY DEF Reached
<1> QED BY <1>1, <1>2, WalkedIsNested

(* The stack is no deeper than there are objects in reach. *)
LEMMA NestedDepth ==
  ASSUME CleanGraph, NEW fs, Nested(fs)
  PROVE  Depths \in Nat /\ Depth(fs) \in Nat /\ Depth(fs) <= Depths
<1> DEFINE n == Depth(fs)
           f == [i \in 1..n |-> fs[i].obj]
<1>1. n \in Nat
  <2>1. Len(fs) \in Nat /\ (fs # <<>> => Len(fs) # 0) BY EmptySeq DEF Nested
  <2> QED BY <2>1 DEF Nested
<1>2. f \in [1..n -> Reachable] /\ \A i, j \in 1..n : f[i] = f[j] => i = j
  BY DEF Nested
<1>3. IsFiniteSet(Reachable) /\ Depths \in Nat
  BY FS_CardinalityType DEF CleanGraph, Depths
<1> HIDE DEF f, n
<1>4. f \in Injection(1..n, Reachable)
  BY <1>2 DEF Injection, IsInjective
<1>5. Cardinality(1..n) <= Cardinality(Reachable)
  BY <1>3, <1>4, FS_Injection
<1>6. Cardinality(1..n) = n
  <2>1. 1 \in Int /\ n \in Int BY <1>1
  <2>2. Cardinality(1..n) = IF 1 > n THEN 0 ELSE n - 1 + 1
    BY <2>1, FS_Interval
  <2> QED BY <1>1, <2>2
<1> QED BY <1>1, <1>3, <1>5, <1>6 DEF n, Depths

LEMMA AroundType ==
  ASSUME NEW fs, Nested(fs), NEW k \in Nat, k <= Depth(fs)
  PROVE  Around(fs, k) \in Seq(Objects) /\ Len(Around(fs, k)) = k
<1>1. \A j \in 1..k : fs[j].obj \in Objects
  <2> TAKE j \in 1..k
  <2>1. Len(fs) \in Nat /\ (fs # <<>> => Len(fs) # 0) BY EmptySeq DEF Nested
  <2>2. j \in 1..Depth(fs) BY <2>1 DEF Nested
  <2> QED BY <2>2 DEF Nested, Reachable
<1>2. \A j \in 1..k : Around(fs, k)[j] \in Objects
  BY <1>1 DEF Around
<1>3. Around(fs, k) = [j \in 1..k |-> Around(fs, k)[j]]
  BY DEF Around
<1>4. Around(fs, k) \in [1..k -> Objects]
  BY <1>2, <1>3
<1> QED BY <1>4

LEMMA EncodeType ==
  ASSUME Depths \in Nat, NEW val \in Values, NEW path \in Seq(Objects), Len(path) <= Depths
  PROVE  Encode(val, path) \in Seq(TokenSet)
<1>1. Depths - Len(path) \in Nat
  OBVIOUS
<1>2. encode[Depths - Len(path)] \in Encodings
  BY <1>1, EncodeSteps
<1>3. encode[Depths - Len(path)][<<val, path>>] \in Seq(TokenSet)
  BY <1>2 DEF Encodings, Places
<1> QED BY <1>3 DEF Encode, Depths

LEMMA LeftType ==
  ASSUME NEW enc \in Encodings, NEW o \in Objects, NEW path \in Seq(Objects),
         NEW next \in Nat \ {0}
  PROVE  Left(enc, o, path, next) \in Seq(TokenSet)
<1> DEFINE rest == Ending(enc, o, path)
           k == Len(Items[o]) + 1 - next
<1>1. rest \in [Nat -> Seq(TokenSet)]
  BY EndingSteps
<1>2. CASE next > Len(Items[o])
  BY <1>2 DEF Left
<1>3. CASE ~(next > Len(Items[o]))
  <2>1. k \in Nat
    BY <1>3, EntryType
  <2>2. Left(enc, o, path, next) = rest[k]
    BY <1>3 DEF Left
  <2> HIDE DEF rest, k
  <2> QED BY <1>1, <2>1, <2>2
<1> QED BY <1>2, <1>3

(* At first all of them are left, *)
LEMMA LeftAll ==
  ASSUME NEW enc \in Encodings, NEW o \in Objects, NEW path \in Seq(Objects)
  PROVE  Left(enc, o, path, 1) = Ending(enc, o, path)[Len(Items[o])]
<1> DEFINE rest == Ending(enc, o, path)
           n == Len(Items[o])
<1>1. rest[0] = <<>>
  BY EndingSteps
<1>2. n \in Nat
  BY EntryType
<1>3. Left(enc, o, path, 1) = IF 1 > n THEN <<>> ELSE rest[n + 1 - 1]
  BY DEF Left
<1> HIDE DEF rest, n
<1>4. n + 1 - 1 = n /\ (1 > n => n = 0)
  BY <1>2
<1> QED BY <1>1, <1>3, <1>4 DEF rest, n

(* and with each one that is written one less. *)
LEMMA LeftNext ==
  ASSUME NEW enc \in Encodings, NEW o \in Objects, NEW path \in Seq(Objects),
         NEW next \in Nat \ {0}, next <= Len(Items[o])
  PROVE  Left(enc, o, path, next) =
           Piece(enc, o, path, next) \o Left(enc, o, path, next + 1)
<1> DEFINE rest == Ending(enc, o, path)
           n == Len(Items[o])
           k == n + 1 - next
           piece(i) == Piece(enc, o, path, i)
<1>1. rest[0] = <<>> /\ \A j \in Nat \ {0} : rest[j] = piece(n + 1 - j) \o rest[j - 1]
  BY EndingSteps
<1>2. n \in Nat /\ next <= n
  BY EntryType
<1>3. /\ Left(enc, o, path, next) = IF next > n THEN <<>> ELSE rest[k]
      /\ Left(enc, o, path, next + 1) =
           IF next + 1 > n THEN <<>> ELSE rest[n + 1 - (next + 1)]
  BY DEF Left
<1> HIDE DEF rest, n, piece
<1>4. /\ k \in Nat \ {0} /\ n + 1 - k = next /\ k - 1 = n + 1 - (next + 1)
      /\ ~(next > n) /\ (next + 1 > n => k - 1 = 0)
  BY <1>2
<1> HIDE DEF k
<1>5. rest[k] = piece(next) \o rest[k - 1]
  BY <1>1, <1>4
<1>6. Left(enc, o, path, next + 1) = rest[k - 1]
  BY <1>1, <1>3, <1>4
<1> QED BY <1>3, <1>4, <1>5, <1>6 DEF piece

LEMMA RemainType ==
  ASSUME CleanGraph, NEW fs, Nested(fs), NEW i \in 1..Len(fs)
  PROVE  Remain(fs, i) \in Seq(TokenSet)
<1>1. Len(fs) \in Nat /\ fs[i] \in FrameSet /\ fs # <<>>
  BY ElementOfSeq DEF Nested
<1>2. Depths \in Nat /\ Depth(fs) <= Depths /\ Depth(fs) \in Nat
  BY NestedDepth
<1> DEFINE fr == fs[i]
<1>3. CASE fr.op = "write"
  <2>1. i - 1 \in Nat /\ i - 1 <= Depth(fs)
    BY <1>1 DEF Nested
  <2>2. fr.obj \in Values
    BY <1>1, <1>3 DEF FrameSet
  <2>3. Encode(fr.obj, Around(fs, i - 1)) \in Seq(TokenSet)
    BY <1>2, <2>1, <2>2, AroundType, EncodeType
  <2> QED BY <1>3, <2>3 DEF Remain
<1>4. CASE fr.op # "write"
  <2>1. i \in Nat /\ i <= Depth(fs)
    BY <1>1, <1>4 DEF Nested
  <2>2. fr.obj \in Objects /\ fr.op \in {"items", "getters", "json"}
        /\ fr.next \in Nat \ {0} /\ (fr.op = "json" => Kind[fr.obj] = "bean")
    BY <1>1, <1>4 DEF FrameSet, BeanSet
  <2>3. Around(fs, i) \in Seq(Objects) /\ Len(Around(fs, i)) = i
    BY <2>1, AroundType
  <2>4. Depths - i \in Nat /\ encode[Depths - i] \in Encodings
    BY <1>2, <2>1, EncodeSteps
  <2>5. CASE fr.op = "getters"
    BY <2>2, <2>3, <2>4, <2>5, BodyType DEF Remain
  <2>6. CASE fr.op = "items"
    <3>1. Left(encode[Depths - i], fr.obj, Around(fs, i), fr.next) \in Seq(TokenSet)
      BY <2>2, <2>3, <2>4, LeftType
    <3> QED BY <2>6, <3>1 DEF Remain
  <2>7. CASE fr.op = "json"
    <3>1. Json[fr.obj] \in Values
      BY <2>2, <2>7, GraphAssumption DEF Values
    <3>2. Encode(Json[fr.obj], Around(fs, i)) \in Seq(TokenSet)
      BY <1>2, <2>1, <2>3, <3>1, EncodeType
    <3> QED BY <2>7, <3>2 DEF Remain
  <2> QED BY <2>2, <2>5, <2>6, <2>7
<1> QED BY <1>3, <1>4

(* It depends on the frames up to that one. *)
LEMMA RemainSame ==
  ASSUME NEW fs, NEW gs, NEW i \in Nat \ {0}, \A j \in 1..i : fs[j] = gs[j]
  PROVE  Remain(fs, i) = Remain(gs, i)
<1>1. Around(fs, i) = Around(gs, i) /\ fs[i] = gs[i]
  <2>1. i \in 1..i OBVIOUS
  <2>2. \A j \in 1..i : fs[j].obj = gs[j].obj OBVIOUS
  <2> QED BY <2>1, <2>2 DEF Around
<1>2. Around(fs, i - 1) = Around(gs, i - 1)
  <2>1. \A j \in 1..(i - 1) : fs[j].obj = gs[j].obj OBVIOUS
  <2> QED BY <2>1 DEF Around
<1> QED BY <1>1, <1>2 DEF Remain

-----------------------------------------------------------------------------
(* How a step changes it.                                                  *)

LEMMA DueAfter ==
  ASSUME TypeOK, PathInv, Active,
         NEW frames \in Seq(FrameSet), NEW out \in Seq(TokenSet),
         Continue(frames, out),
         Settles(frames, out, Encode(Top.root, <<>>))
  PROVE  Active' /\ Settled'
<1>1. Active' /\ Frames' = frames /\ Len(builders') = 1
  BY OneContinues
<1>2. Outer = <<>> /\ Top \in BuilderSet
  BY OneCall, TopProperties
<1>3. builders' = <<[Top EXCEPT !.frames = frames, !.out = out]>>
  BY <1>2 DEF Continue
<1>4. Top' = [Top EXCEPT !.frames = frames, !.out = out]
  BY <1>1, <1>3 DEF Top
<1>5. Top'.out = out /\ Top'.root = Top.root
  BY <1>2, <1>4 DEF BuilderSet
<1> QED BY <1>1, <1>5 DEF Settled

LEMMA Indices ==
  ASSUME NEW n \in Nat \ {0}
  PROVE  /\ n \in 1..n /\ n - 1 \in Nat /\ n - 1 \in 0..(n - 1) /\ n + 1 \in Nat
         /\ \A i \in 1..(n - 1) :
              /\ i \in 1..n /\ i \in 0..(n - 1) /\ i - 1 \in 0..(n - 1)
              /\ i \in Nat \ {0} /\ i # n /\ \A j \in 1..i : j \in 1..(n - 1)
         /\ \A i \in 1..n : i = n \/ i \in 1..(n - 1)
         /\ \A i \in 1..(n + 1) : i = n + 1 \/ i = n \/ i \in 1..(n - 1)
         /\ (n + 1) - 1 = n /\ n # n + 1 /\ n \in 1..(n + 1) /\ n + 1 \in 1..(n + 1)
OBVIOUS

LEMMA Regroup ==
  \A s, t, u \in Seq(TokenSet) :
    (s \o t) \o u = s \o (t \o u)
BY ConcatAssociative

(* Every frame below the top keeps what it has to write. *)
OwesBelow(g, fs, out, total) ==
  /\ g[0] = <<>>
  /\ \A i \in 1..(Len(fs) - 1) : g[i] = Remain(fs, i) \o g[i - 1]
  /\ total = (out \o Remain(fs, Len(fs))) \o g[Len(fs) - 1]

LEMMA SettlesBelow ==
  ASSUME CleanGraph, NEW fs, Nested(fs), fs # <<>>,
         NEW out \in Seq(TokenSet), NEW total, Settles(fs, out, total)
  PROVE  \E g \in [Nat -> Seq(TokenSet)] : OwesBelow(g, fs, out, total)
<1> DEFINE n == Len(fs)
<1>1. n \in Nat \ {0}
  BY EmptySeq DEF Nested
<1>2. PICK g \in [Nat -> Seq(TokenSet)] : Owes(g, fs) /\ total = out \o g[n]
  BY DEF Settles
<1>3. /\ g[0] = <<>> /\ \A i \in 1..n : g[i] = Remain(fs, i) \o g[i - 1]
      /\ n \in 1..n /\ n - 1 \in Nat
  BY <1>1, <1>2, Indices DEF Owes
<1>4. Remain(fs, n) \in Seq(TokenSet) /\ g[n - 1] \in Seq(TokenSet)
  BY <1>3, RemainType
<1> HIDE DEF n
<1>5. total = out \o (Remain(fs, n) \o g[n - 1])
  BY <1>2, <1>3
<1>6. total = (out \o Remain(fs, n)) \o g[n - 1]
  <2>1. (out \o Remain(fs, n)) \o g[n - 1] = out \o (Remain(fs, n) \o g[n - 1])
    BY <1>4, Regroup
  <2> QED BY <2>1, <1>5
<1>7. \A i \in 1..(n - 1) : g[i] = Remain(fs, i) \o g[i - 1]
  <2>1. \A i \in 1..(n - 1) : i \in 1..n BY <1>1, Indices
  <2> QED BY <2>1, <1>3
<1> QED BY <1>3, <1>6, <1>7 DEF n, OwesBelow

(* The frame on top has written what it had to, *)
LEMMA SettlesPop ==
  ASSUME CleanGraph, NEW fs, Nested(fs), fs # <<>>,
         NEW out \in Seq(TokenSet), NEW total, Settles(fs, out, total),
         NEW gs, Len(gs) = Len(fs) - 1, \A i \in 1..(Len(fs) - 1) : gs[i] = fs[i],
         NEW more, more = out \o Remain(fs, Len(fs))
  PROVE  Settles(gs, more, total)
<1> DEFINE n == Len(fs)
<1>1. n \in Nat \ {0}
  BY EmptySeq DEF Nested
<1> PICK g \in [Nat -> Seq(TokenSet)] : OwesBelow(g, fs, out, total)
  BY SettlesBelow
<1>2. /\ g[0] = <<>>
      /\ \A i \in 1..(n - 1) : g[i] = Remain(fs, i) \o g[i - 1]
      /\ total = (out \o Remain(fs, n)) \o g[n - 1]
  BY DEF OwesBelow
<1> HIDE DEF n
<1>3. \A i \in 1..(n - 1) : Remain(gs, i) = Remain(fs, i)
  <2> TAKE i \in 1..(n - 1)
  <2>1. i \in Nat \ {0} /\ \A j \in 1..i : j \in 1..(n - 1) BY <1>1, Indices
  <2>2. \A j \in 1..i : gs[j] = fs[j] BY <2>1 DEF n
  <2> QED BY <2>1, <2>2, RemainSame
<1>4. Owes(g, gs)
  BY <1>2, <1>3 DEF Owes, n
<1>5. total = more \o g[Len(gs)]
  BY <1>2 DEF n
<1> QED BY <1>4, <1>5 DEF Settles

(* it has written a part of it, *)
LEMMA SettlesReplace ==
  ASSUME CleanGraph, NEW fs, Nested(fs), fs # <<>>,
         NEW out \in Seq(TokenSet), NEW total, Settles(fs, out, total),
         NEW gs, Nested(gs), Len(gs) = Len(fs),
         \A i \in 1..(Len(fs) - 1) : gs[i] = fs[i],
         NEW more \in Seq(TokenSet),
         out \o Remain(fs, Len(fs)) = more \o Remain(gs, Len(fs))
  PROVE  Settles(gs, more, total)
<1> DEFINE n == Len(fs)
<1>1. n \in Nat \ {0} /\ n - 1 \in Nat
  BY EmptySeq DEF Nested
<1> PICK g \in [Nat -> Seq(TokenSet)] : OwesBelow(g, fs, out, total)
  BY SettlesBelow
<1>2. /\ g[0] = <<>>
      /\ \A i \in 1..(n - 1) : g[i] = Remain(fs, i) \o g[i - 1]
      /\ total = (out \o Remain(fs, n)) \o g[n - 1]
  BY DEF OwesBelow
<1> HIDE DEF n
<1>3. \A i \in 1..(n - 1) : Remain(gs, i) = Remain(fs, i)
  <2> TAKE i \in 1..(n - 1)
  <2>1. i \in Nat \ {0} /\ \A j \in 1..i : j \in 1..(n - 1) BY <1>1, Indices
  <2>2. \A j \in 1..i : gs[j] = fs[j] BY <2>1 DEF n
  <2> QED BY <2>1, <2>2, RemainSame
<1>4. Remain(gs, n) \in Seq(TokenSet) /\ g[n - 1] \in Seq(TokenSet)
  <2>1. n \in 1..Len(gs) BY <1>1 DEF n
  <2> QED BY <1>1, <2>1, RemainType
<1> DEFINE top == Remain(gs, n) \o g[n - 1]
           h == [g EXCEPT ![n] = top]
<1>5. top \in Seq(TokenSet)
  BY <1>4, ConcatProperties
<1>6. total = more \o top
  <2>1. total = (more \o Remain(gs, n)) \o g[n - 1]
    BY <1>2 DEF n
  <2>2. (more \o Remain(gs, n)) \o g[n - 1] = more \o (Remain(gs, n) \o g[n - 1])
    BY <1>4, Regroup
  <2> QED BY <2>1, <2>2
<1>7. /\ h \in [Nat -> Seq(TokenSet)] /\ h[n] = top
      /\ \A i \in 0..(n - 1) : h[i] = g[i]
  <2> HIDE DEF top
  <2> QED BY <1>1, <1>5
<1>8. Owes(h, gs)
  <2>1. h[0] = <<>>
    BY <1>1, <1>2, <1>7
  <2>2. ASSUME NEW i \in 1..n PROVE h[i] = Remain(gs, i) \o h[i - 1]
    <3>1. i - 1 \in 0..(n - 1) BY <1>1
    <3>2. CASE i = n
      BY <3>1, <3>2, <1>7
    <3>3. CASE i # n
      <4>1. i \in 1..(n - 1) /\ i \in 0..(n - 1) BY <3>3, <1>1
      <4>2. h[i] = g[i] /\ h[i - 1] = g[i - 1] BY <4>1, <3>1, <1>7
      <4>3. g[i] = Remain(fs, i) \o g[i - 1] BY <4>1, <1>2
      <4>4. Remain(gs, i) = Remain(fs, i) BY <4>1, <1>3
      <4> QED BY <4>2, <4>3, <4>4
    <3> QED BY <3>2, <3>3
  <2> HIDE DEF h
  <2> QED BY <2>1, <2>2 DEF Owes, n
<1>9. total = more \o h[Len(gs)]
  BY <1>6, <1>7 DEF n
<1> HIDE DEF h
<1> QED BY <1>7, <1>8, <1>9 DEF Settles

(* or it leaves a part of it to a frame on top of it. *)
LEMMA SettlesEnter ==
  ASSUME CleanGraph, NEW fs, Nested(fs), fs # <<>>,
         NEW out \in Seq(TokenSet), NEW total, Settles(fs, out, total),
         NEW hs, Nested(hs), Len(hs) = Len(fs) + 1,
         \A i \in 1..(Len(fs) - 1) : hs[i] = fs[i],
         NEW more \in Seq(TokenSet),
         out \o Remain(fs, Len(fs)) =
           more \o (Remain(hs, Len(fs) + 1) \o Remain(hs, Len(fs)))
  PROVE  Settles(hs, more, total)
<1> DEFINE n == Len(fs)
<1>1. n \in Nat \ {0} /\ n - 1 \in Nat
  BY EmptySeq DEF Nested
<1> PICK g \in [Nat -> Seq(TokenSet)] : OwesBelow(g, fs, out, total)
  BY SettlesBelow
<1>2. /\ g[0] = <<>>
      /\ \A i \in 1..(n - 1) : g[i] = Remain(fs, i) \o g[i - 1]
      /\ total = (out \o Remain(fs, n)) \o g[n - 1]
  BY DEF OwesBelow
<1> HIDE DEF n
<1>3. \A i \in 1..(n - 1) : Remain(hs, i) = Remain(fs, i)
  <2> TAKE i \in 1..(n - 1)
  <2>1. i \in Nat \ {0} /\ \A j \in 1..i : j \in 1..(n - 1) BY <1>1, Indices
  <2>2. \A j \in 1..i : hs[j] = fs[j] BY <2>1 DEF n
  <2> QED BY <2>1, <2>2, RemainSame
<1>4. /\ Remain(hs, n) \in Seq(TokenSet) /\ Remain(hs, n + 1) \in Seq(TokenSet)
      /\ g[n - 1] \in Seq(TokenSet)
  <2>1. Len(hs) = n + 1 BY DEF n
  <2>2. n \in 1..Len(hs) /\ n + 1 \in 1..Len(hs) BY <1>1, <2>1, Indices
  <2> QED BY <1>1, <2>2, RemainType
<1> DEFINE under == Remain(hs, n) \o g[n - 1]
           top == Remain(hs, n + 1) \o under
           f == [g EXCEPT ![n] = under]
           h == [f EXCEPT ![n + 1] = top]
<1>5. under \in Seq(TokenSet) /\ top \in Seq(TokenSet)
  BY <1>4, ConcatProperties
<1>6. total = more \o top
  <2>1. total = (more \o (Remain(hs, n + 1) \o Remain(hs, n))) \o g[n - 1]
    BY <1>2 DEF n
  <2> DEFINE a == Remain(hs, n + 1)
             b == Remain(hs, n)
             c == g[n - 1]
  <2>2. a \in Seq(TokenSet) /\ b \in Seq(TokenSet) /\ c \in Seq(TokenSet)
    BY <1>4
  <2>3. total = (more \o (a \o b)) \o c /\ top = a \o (b \o c)
    BY <2>1
  <2> HIDE DEF a, b, c, top
  <2>4. (a \o b) \o c = a \o (b \o c)
    BY <2>2, Regroup
  <2>5. (more \o (a \o b)) \o c = more \o ((a \o b) \o c)
    <3>1. a \o b \in Seq(TokenSet)
      BY <2>2, ConcatProperties
    <3> QED BY <3>1, <2>2, Regroup
  <2> QED BY <2>3, <2>4, <2>5
<1>7. /\ h \in [Nat -> Seq(TokenSet)] /\ h[n] = under /\ h[n + 1] = top
      /\ \A i \in 0..(n - 1) : h[i] = g[i]
  <2> HIDE DEF under, top
  <2>1. /\ f \in [Nat -> Seq(TokenSet)] /\ f[n] = under
        /\ \A i \in 0..(n - 1) : f[i] = g[i]
    BY <1>1, <1>5
  <2> HIDE DEF f
  <2>2. n + 1 \in Nat /\ \A i \in 0..n : i # n + 1
    BY <1>1
  <2>3. /\ h \in [Nat -> Seq(TokenSet)] /\ h[n + 1] = top
        /\ \A i \in 0..n : h[i] = f[i]
    BY <1>1, <1>5, <2>1, <2>2
  <2>4. n \in 0..n /\ \A i \in 0..(n - 1) : i \in 0..n
    BY <1>1
  <2> QED BY <2>1, <2>3, <2>4
<1>8. Owes(h, hs)
  <2>1. h[0] = <<>>
    BY <1>1, <1>2, <1>7
  <2>2. ASSUME NEW i \in 1..(n + 1) PROVE h[i] = Remain(hs, i) \o h[i - 1]
    <3>1. CASE i = n + 1
      <4>1. i - 1 = n BY <3>1, <1>1
      <4> QED BY <3>1, <4>1, <1>7
    <3>2. CASE i = n
      <4>1. i - 1 \in 0..(n - 1) BY <3>2, <1>1
      <4> QED BY <3>2, <4>1, <1>7
    <3>3. CASE i # n /\ i # n + 1
      <4>1. i \in 1..(n - 1) /\ i \in 0..(n - 1) /\ i - 1 \in 0..(n - 1) BY <3>3, <1>1
      <4>2. h[i] = g[i] /\ h[i - 1] = g[i - 1] BY <4>1, <1>7
      <4>3. g[i] = Remain(fs, i) \o g[i - 1] BY <4>1, <1>2
      <4>4. Remain(hs, i) = Remain(fs, i) BY <4>1, <1>3
      <4> QED BY <4>2, <4>3, <4>4
    <3> QED BY <3>1, <3>2, <3>3
  <2> HIDE DEF h
  <2> QED BY <2>1, <2>2 DEF Owes, n
<1>9. total = more \o h[Len(hs)]
  BY <1>6, <1>7 DEF n
<1> HIDE DEF h
<1> QED BY <1>7, <1>8, <1>9 DEF Settles

-----------------------------------------------------------------------------
(* What the steps of the walk write is what they owe.                      *)

LEMMA EncodePlain ==
  ASSUME Depths \in Nat, NEW val \in Values, NEW path \in Seq(Objects),
         Len(path) <= Depths, val \notin Objects \/ On(path, val)
  PROVE  Encode(val, path) = Plain(val)
<1> DEFINE n == Depths - Len(path)
<1>1. n \in Nat
  OBVIOUS
<1>2. Encode(val, path) = encode[n][<<val, path>>]
  BY DEF Encode, Depths
<1> HIDE DEF n
<1>3. CASE n = 0
  BY <1>2, <1>3, EncodeSteps
<1>4. CASE n # 0
  <2>1. encode[n][<<val, path>>] = Value(encode[n - 1], val, path)
    BY <1>1, <1>4, EncodeSteps
  <2> QED BY <1>2, <2>1 DEF Value
<1> QED BY <1>3, <1>4

LEMMA EncodeObject ==
  ASSUME Depths \in Nat, NEW o \in Objects, NEW path \in Seq(Objects),
         NEW k, k = Len(path) + 1, k <= Depths, ~On(path, o)
  PROVE  Encode(o, path) = Body(encode[Depths - k], o, Append(path, o))
<1> DEFINE n == Depths - Len(path)
<1>1. n \in Nat \ {0} /\ n - 1 = Depths - k
  OBVIOUS
<1>2. Encode(o, path) = encode[n][<<o, path>>]
  BY DEF Encode, Depths
<1> HIDE DEF n
<1>3. encode[n][<<o, path>>] = Value(encode[n - 1], o, path)
  BY <1>1, EncodeSteps DEF Values
<1> QED BY <1>1, <1>2, <1>3 DEF Value

LEMMA AroundSame ==
  ASSUME NEW fs, NEW gs, NEW k \in Nat, \A j \in 1..k : fs[j].obj = gs[j].obj
  PROVE  Around(fs, k) = Around(gs, k)
BY DEF Around

LEMMA AroundGrows ==
  ASSUME NEW fs, NEW gs, NEW n \in Nat \ {0}, \A j \in 1..(n - 1) : fs[j] = gs[j],
         Around(fs, n - 1) \in Seq(Objects), gs[n].obj \in Objects
  PROVE  Around(gs, n) = Append(Around(fs, n - 1), gs[n].obj)
<1> DEFINE s == Around(fs, n - 1)
           o == gs[n].obj
           t == Append(s, o)
<1>1. s \in Seq(Objects) /\ o \in Objects
  OBVIOUS
<1>2. Len(s) = n - 1 /\ \A j \in 1..(n - 1) : s[j] = gs[j].obj
  BY DEF Around
<1> HIDE DEF s, o
<1>3. /\ t \in Seq(Objects) /\ Len(t) = n
      /\ \A j \in 1..(n - 1) : t[j] = s[j]
      /\ t[n] = o
  BY <1>1, <1>2, PushProperties
<1> HIDE DEF t
<1>4. \A j \in 1..n : t[j] = gs[j].obj
  <2> TAKE j \in 1..n
  <2>1. j = n \/ j \in 1..(n - 1) BY Indices
  <2> QED BY <2>1, <1>2, <1>3 DEF o
<1>5. t = [j \in 1..n |-> t[j]]
  BY <1>3
<1>6. t = [j \in 1..n |-> gs[j].obj]
  BY <1>4, <1>5
<1> QED BY <1>6 DEF t, s, o, Around

LEMMA NestedAfter ==
  ASSUME TypeOK, PathInv, Active, PathInv', Reached',
         NEW frames \in Seq(FrameSet), NEW out \in Seq(TokenSet),
         Continue(frames, out)
  PROVE  Nested(frames)
<1>1. Active' /\ Frames' = frames
  BY OneContinues
<1>2. Walked(frames, Refs')
  BY <1>1 DEF PathInv
<1>3. \A i \in 1..Len(frames) : frames[i].obj \in Objects => frames[i].obj \in Reachable
  BY <1>1 DEF Reached
<1> QED BY <1>2, <1>3, WalkedIsNested

(* On a clean graph refs is the path the encoding is relative to. *)
LEMMA ListedIsOn ==
  ASSUME TypeOK, PathInv, Reached, Tidy, Writing
  PROVE  LET path == Around(Frames, Len(Frames) - 1)
         IN  /\ path \in Seq(Objects) /\ Len(path) = Len(Frames) - 1
             /\ Len(Frames) \in Nat \ {0} /\ Depth(Frames) = Len(Frames) - 1
             /\ \A o : Listed(o) <=> On(path, o)
<1> DEFINE n == Len(Frames)
           path == Around(Frames, n - 1)
<1>1. Active /\ Frames # <<>> /\ Frame.op = "write"
  BY DEF Writing
<1>2. n \in Nat \ {0} /\ Depth(Frames) = n - 1
  BY <1>1, FramesBelow
<1>3. Nested(Frames)
  BY <1>1, FramesNested
<1>4. path \in Seq(Objects) /\ Len(path) = n - 1
  BY <1>2, <1>3, AroundType
<1>5. Refs \in Seq(Objects) /\ Len(Refs) = n - 1 /\ \A i \in 1..(n - 1) : Refs[i] = Frames[i].obj
  BY <1>1, <1>2, TopProperties DEF Tidy, Exact
<1>6. Refs = path
  <2>1. Refs = [i \in 1..(n - 1) |-> Refs[i]]
    BY <1>5
  <2> QED BY <2>1, <1>5 DEF Around
<1> QED BY <1>2, <1>4, <1>6 DEF Listed, On, n

-----------------------------------------------------------------------------
(* The frame on top is a value that is written at once, *)
LEMMA DuePop ==
  ASSUME CleanGraph, TypeOK, PathInv, Reached, Due, Active, Frames # <<>>,
         NEW out \in Seq(TokenSet), Continue(Below, out),
         out = Top.out \o Remain(Frames, Len(Frames))
  PROVE  Active' /\ Settled'
<1>1. /\ Below \in Seq(FrameSet) /\ Len(Below) = Len(Frames) - 1
      /\ \A i \in 1..(Len(Frames) - 1) : Below[i] = Frames[i]
  BY FramesBelow
<1>2. Nested(Frames) /\ Top.out \in Seq(TokenSet)
  BY FramesNested, TopProperties
<1>3. Settles(Below, out, Encode(Top.root, <<>>))
  BY <1>1, <1>2, SettlesPop DEF Due, Settled
<1> QED BY <1>1, <1>3, DueAfter

(* moves on, *)
LEMMA DueReplace ==
  ASSUME CleanGraph, TypeOK, PathInv, Reached, Due, Active, Frames # <<>>,
         PathInv', Reached',
         NEW fr \in FrameSet, fr.op # "write",
         NEW out \in Seq(TokenSet), Continue(Append(Below, fr), out),
         Top.out \o Remain(Frames, Len(Frames)) =
           out \o Remain(Append(Below, fr), Len(Frames))
  PROVE  Active' /\ Settled'
<1> DEFINE gs == Append(Below, fr)
<1>1. /\ gs \in Seq(FrameSet) /\ Len(gs) = Len(Frames)
      /\ \A i \in 1..(Len(Frames) - 1) : gs[i] = Frames[i]
  BY ReplaceShape
<1>2. Nested(Frames) /\ Top.out \in Seq(TokenSet)
  BY FramesNested, TopProperties
<1> HIDE DEF gs
<1>3. Nested(gs)
  BY <1>1, NestedAfter DEF gs
<1>4. Settles(gs, out, Encode(Top.root, <<>>))
  BY <1>1, <1>2, <1>3, SettlesReplace DEF Due, Settled, gs
<1> QED BY <1>1, <1>4, DueAfter DEF gs

(* or moves on and has a write put on top of it. *)
LEMMA DueEnter ==
  ASSUME CleanGraph, TypeOK, PathInv, Reached, Due, Active, Frames # <<>>,
         Frame.op # "write", PathInv', Reached',
         NEW val \in Values, NEW out \in Seq(TokenSet),
         LET fr == [Frame EXCEPT !.next = @ + 1]
             wr == [op |-> "write", obj |-> val, next |-> 0]
             gs == Append(Below, fr)
             n  == Len(Frames)
         IN  /\ Continue(Append(gs, wr), out)
             /\ Top.out \o Remain(Frames, n) =
                  out \o (Encode(val, Around(Frames, n)) \o Remain(gs, n))
  PROVE  Active' /\ Settled'
<1> DEFINE n  == Len(Frames)
           fr == [Frame EXCEPT !.next = @ + 1]
           wr == [op |-> "write", obj |-> val, next |-> 0]
           gs == Append(Below, fr)
           hs == Append(gs, wr)
<1>1. fr \in FrameSet /\ fr.op # "write" /\ fr.obj = Frame.obj
  BY NextFrame
<1>2. wr \in FrameSet /\ wr.op = "write" /\ wr.obj = val
  BY FrameTypes
<1>3. Continue(hs, out)
      /\ Top.out \o Remain(Frames, n) =
           out \o (Encode(val, Around(Frames, n)) \o Remain(gs, n))
  OBVIOUS
<1>4. Frame = Frames[n]
  BY DEF Frame
<1> HIDE DEF fr, wr
<1>5. /\ n \in Nat \ {0} /\ gs \in Seq(FrameSet) /\ Len(gs) = n
      /\ \A i \in 1..(n - 1) : gs[i] = Frames[i]
      /\ gs[n] = fr
  BY <1>1, ReplaceShape
<1>6. /\ hs \in Seq(FrameSet) /\ Len(hs) = n + 1
      /\ \A i \in 1..(n - 1) : hs[i] = Frames[i]
      /\ hs[n] = fr /\ hs[n + 1] = wr
  BY <1>1, <1>2, EnterShape
<1>7. Nested(Frames) /\ Top.out \in Seq(TokenSet)
  BY FramesNested, TopProperties
<1> HIDE DEF n, gs, hs
<1>8. Nested(hs)
  BY <1>3, <1>6, NestedAfter
<1>9. Remain(hs, n) = Remain(gs, n)
  <2>1. \A j \in 1..n : hs[j] = gs[j]
    <3> TAKE j \in 1..n
    <3>1. j = n \/ j \in 1..(n - 1) BY <1>5, Indices
    <3> QED BY <3>1, <1>5, <1>6
  <2> QED BY <1>5, <2>1, RemainSame
<1>10. Remain(hs, n + 1) = Encode(val, Around(Frames, n))
  <2>1. \A j \in 1..n : hs[j].obj = Frames[j].obj
    <3> TAKE j \in 1..n
    <3>1. j = n \/ j \in 1..(n - 1) BY <1>5, Indices
    <3> QED BY <3>1, <1>1, <1>4, <1>6
  <2>2. Around(hs, n) = Around(Frames, n) /\ (n + 1) - 1 = n
    BY <1>5, <2>1, AroundSame
  <2>3. Remain(hs, n + 1) = Encode(wr.obj, Around(hs, (n + 1) - 1))
    BY <1>2, <1>6 DEF Remain
  <2> QED BY <1>2, <2>2, <2>3
<1>11. Top.out \o Remain(Frames, n) = out \o (Remain(hs, n + 1) \o Remain(hs, n))
  BY <1>3, <1>9, <1>10
<1>12. Settles(hs, out, Encode(Top.root, <<>>))
  BY <1>6, <1>7, <1>8, <1>11, SettlesEnter DEF Due, Settled, n
<1> QED BY <1>3, <1>6, <1>12, DueAfter

(* A replaced frame of the same object: what it has still to write. *)
LEMMA ReplaceAround ==
  ASSUME TypeOK, PathInv, Active, Frames # <<>>,
         NEW fr \in FrameSet, fr.op # "write", fr.obj = Frame.obj
  PROVE  LET n  == Len(Frames)
             gs == Append(Below, fr)
         IN  /\ n \in Nat \ {0} /\ gs \in Seq(FrameSet) /\ Depth(gs) = n
             /\ gs[n] = fr /\ Frames[n] = Frame
             /\ Around(gs, n) = Around(Frames, n)
             /\ \A j \in 1..(n - 1) : gs[j] = Frames[j]
<1> DEFINE n  == Len(Frames)
           gs == Append(Below, fr)
<1>1. /\ n \in Nat \ {0} /\ gs \in Seq(FrameSet) /\ Depth(gs) = n
      /\ gs[n] = fr /\ \A j \in 1..(n - 1) : gs[j] = Frames[j]
  BY ReplaceShape
<1>2. Frames[n] = Frame
  BY DEF Frame
<1> HIDE DEF n, gs
<1>3. \A j \in 1..n : gs[j].obj = Frames[j].obj
  <2> TAKE j \in 1..n
  <2>1. j = n \/ j \in 1..(n - 1) BY <1>1, Indices
  <2> QED BY <2>1, <1>1, <1>2
<1>4. Around(gs, n) = Around(Frames, n)
  BY <1>1, <1>3, AroundSame
<1> QED BY <1>1, <1>2, <1>4 DEF n, gs

(* The frame on top, when it is not a write. *)
LEMMA TopAround ==
  ASSUME CleanGraph, TypeOK, PathInv, Reached, Active, Frames # <<>>, Frame.op # "write"
  PROVE  LET n == Len(Frames)
         IN  /\ n \in Nat \ {0} /\ Frames[n] = Frame
             /\ Depths \in Nat /\ Depths - n \in Nat /\ n <= Depths
             /\ encode[Depths - n] \in Encodings
             /\ Around(Frames, n) \in Seq(Objects) /\ Len(Around(Frames, n)) = n
             /\ Frame.obj \in Reachable /\ Frame.obj \in Objects
             /\ \A val : Encode(val, Around(Frames, n)) =
                           encode[Depths - n][<<val, Around(Frames, n)>>]
<1> DEFINE n == Len(Frames)
<1>1. Nested(Frames) /\ n \in Nat \ {0} /\ Depth(Frames) = n /\ Frames[n] = Frame
  BY FramesNested, FramesBelow DEF Frame
<1>2. Depths \in Nat /\ n <= Depths
  BY <1>1, NestedDepth
<1>3. Around(Frames, n) \in Seq(Objects) /\ Len(Around(Frames, n)) = n
  BY <1>1, AroundType
<1>4. n \in 1..Depth(Frames)
  BY <1>1, Indices
<1>5. Frame.obj \in Reachable
  BY <1>1, <1>4 DEF Nested
<1>6. Depths - n \in Nat
  BY <1>1, <1>2
<1>7. encode[Depths - n] \in Encodings
  BY <1>6, EncodeSteps
<1>8. \A val : Encode(val, Around(Frames, n)) =
                 encode[Depths - n][<<val, Around(Frames, n)>>]
  BY <1>3 DEF Encode, Depths
<1> QED BY <1>1, <1>2, <1>3, <1>5, <1>6, <1>7, <1>8 DEF Reachable

LEMMA NoMore ==
  ASSUME NEW s \in Seq(TokenSet)
  PROVE  s \o <<>> = s /\ <<>> \o s = s
BY ConcatEmptySeq

(* Values that are written at once, and objects that are cut off. *)
LEMMA DueWrites ==
  ASSUME CleanGraph, TypeOK, PathInv, Reached, CleanInv, Due,
         WriteValue \/ WriteCycle
  PROVE  Active' /\ Settled'
<1> DEFINE n == Len(Frames)
           path == Around(Frames, n - 1)
           tok == IF Frame.obj \in Objects \cup {Null} THEN "null" ELSE "leaf"
<1>1. /\ Active /\ Writing /\ Frames # <<>> /\ Frame.op = "write"
      /\ Tidy /\ Frame.obj \in Values
      /\ Frame.obj \notin Objects \/ Listed(Frame.obj)
  BY GraphAssumption DEF WriteValue, WriteCycle, Writing, CleanInv, Values
<1>2. Continue(Below, Append(Top.out, Token(tok)))
  <2>1. CASE WriteCycle
    BY <2>1 DEF WriteCycle
  <2>2. CASE WriteValue
    <3>1. (Frame.obj = Null) <=> Frame.obj \in Objects \cup {Null}
      BY <2>2, GraphAssumption DEF WriteValue
    <3> QED BY <2>2, <3>1 DEF WriteValue
  <2> QED BY <2>1, <2>2
<1>3. /\ path \in Seq(Objects) /\ Len(path) = n - 1 /\ n \in Nat \ {0}
      /\ Depth(Frames) = n - 1 /\ (Listed(Frame.obj) => On(path, Frame.obj))
  BY <1>1, ListedIsOn
<1>4. Depths \in Nat /\ Len(path) <= Depths
  BY <1>1, <1>3, FramesNested, NestedDepth
<1>5. Encode(Frame.obj, path) = Plain(Frame.obj)
  BY <1>1, <1>3, <1>4, EncodePlain
<1>6. Remain(Frames, n) = <<Token(tok)>>
  BY <1>1, <1>5 DEF Remain, Frame, Plain
<1>7. Top.out \in Seq(TokenSet) /\ Token(tok) \in TokenSet
  BY <1>1, TopProperties, TokenType
<1>8. Append(Top.out, Token(tok)) = Top.out \o <<Token(tok)>>
      /\ Append(Top.out, Token(tok)) \in Seq(TokenSet)
  BY <1>7, AppendIsConcat, AppendProperties
<1> QED BY <1>1, <1>2, <1>6, <1>8, DuePop

(* A map or a list is begun. *)
LEMMA DueContainer ==
  ASSUME CleanGraph, TypeOK, PathInv, Reached, CleanInv, Due, PathInv', Reached',
         WriteContainer
  PROVE  Active' /\ Settled'
<1> DEFINE n == Len(Frames)
           o == Frame.obj
           path == Around(Frames, n - 1)
           fr == [op |-> "items", obj |-> o, next |-> 1]
           gs == Append(Below, fr)
           enc == encode[Depths - n]
           out == Append(Top.out, Header(o))
<1>1. /\ Active /\ Writing /\ Frames # <<>> /\ Frame.op = "write"
      /\ Tidy /\ o \in Objects /\ ~Listed(o) /\ Kind[o] # "bean"
      /\ Continue(gs, out)
  BY DEF WriteContainer, Writing, CleanInv
<1>2. fr \in FrameSet /\ fr.op = "items" /\ fr.obj = o /\ fr.next = 1
  BY <1>1, FrameTypes
<1> HIDE DEF fr
<1>3. /\ path \in Seq(Objects) /\ Len(path) = n - 1 /\ n \in Nat \ {0} /\ ~On(path, o)
  BY <1>1, ListedIsOn
<1>4. /\ gs \in Seq(FrameSet) /\ Depth(gs) = n /\ gs[n] = fr /\ Frames[n] = Frame
      /\ \A j \in 1..(n - 1) : gs[j] = Frames[j]
  BY <1>1, <1>2, ReplaceAround
<1>5. Top.out \in Seq(TokenSet) /\ Header(o) \in TokenSet /\ Heading(o) = Header(o)
  BY <1>1, TopProperties, HeadingType
<1>6. out = Top.out \o <<Header(o)>> /\ out \in Seq(TokenSet) /\ <<Header(o)>> \in Seq(TokenSet)
  BY <1>5, AppendIsConcat, AppendProperties, OneToken
<1>7. Nested(gs)
  BY <1>1, <1>4, <1>6, NestedAfter
<1>8. Depths \in Nat /\ n <= Depths /\ Depths - n \in Nat /\ enc \in Encodings
  <2>1. Depths \in Nat /\ n <= Depths
    BY <1>4, <1>7, NestedDepth
  <2> QED BY <1>3, <2>1, EncodeSteps
<1>9. Around(gs, n) = Append(path, o) /\ Around(gs, n) \in Seq(Objects)
  <2>1. gs[n].obj = o /\ gs[n].obj \in Objects /\ \A j \in 1..(n - 1) : Frames[j] = gs[j]
    BY <1>1, <1>2, <1>4
  <2> HIDE DEF n, gs
  <2>2. Around(gs, n) = Append(path, gs[n].obj)
    BY <1>3, <2>1, AroundGrows
  <2> QED BY <1>1, <1>3, <2>1, <2>2, AppendProperties
<1> DEFINE all == Ending(enc, o, Around(gs, n))[Len(Items[o])]
<1>10. Remain(Frames, n) = <<Header(o)>> \o all
  <2>1. n = Len(path) + 1
    BY <1>3
  <2>2. Encode(o, path) = Body(enc, o, Append(path, o))
    BY <1>1, <1>3, <1>8, <2>1, EncodeObject
  <2>3. Remain(Frames, n) = Encode(o, path)
    BY <1>1, <1>4 DEF Remain
  <2> QED BY <1>1, <1>5, <1>9, <2>2, <2>3 DEF Body
<1>11. Remain(gs, n) = all
  <2>1. Remain(gs, n) = Left(enc, o, Around(gs, n), 1)
    BY <1>2, <1>4 DEF Remain
  <2> QED BY <1>1, <1>8, <1>9, <2>1, LeftAll
<1>12. all \in Seq(TokenSet)
  <2>1. n \in 1..Len(gs)
    BY <1>1, <1>2, <1>3, ReplaceShape, Indices
  <2> QED BY <1>7, <1>11, <2>1, RemainType
<1>13. Top.out \o Remain(Frames, n) = out \o Remain(gs, n)
  <2> HIDE DEF all, out, gs, o, n
  <2>1. (Top.out \o <<Header(o)>>) \o all = Top.out \o (<<Header(o)>> \o all)
    BY <1>5, <1>6, <1>12, Regroup
  <2> QED BY <2>1, <1>6, <1>10, <1>11
<1> QED BY <1>1, <1>2, <1>6, <1>13, DueReplace

(* A bean is begun: it has all of itself to write, or its JSON form. *)
LEMMA DueBean ==
  ASSUME CleanGraph, Steady, TypeOK, PathInv, Reached, CleanInv, Due,
         PathInv', Reached', WriteBean
  PROVE  Active' /\ Settled'
<1> DEFINE n == Len(Frames)
           o == Frame.obj
           path == Around(Frames, n - 1)
           op == IF Class[o] \in special THEN "json" ELSE "getters"
           fr == [op |-> op, obj |-> o, next |-> 1]
           gs == Append(Below, fr)
           enc == encode[Depths - n]
<1>1. /\ Active /\ Writing /\ Frames # <<>> /\ Frame.op = "write"
      /\ Tidy /\ o \in Objects /\ ~Listed(o) /\ Kind[o] = "bean" /\ o \in BeanSet
      /\ Continue(gs, Top.out)
  BY DEF WriteBean, Writing, CleanInv, BeanSet
<1>2. fr \in FrameSet /\ fr.op = op /\ fr.obj = o /\ fr.next = 1
  BY <1>1, FrameTypes
<1>3. op = "getters" \/ (op = "json" /\ Class[o] \in FlawedClasses)
  BY DEF CleanInv
<1> HIDE DEF fr, op
<1>4. /\ path \in Seq(Objects) /\ Len(path) = n - 1 /\ n \in Nat \ {0} /\ ~On(path, o)
  BY <1>1, ListedIsOn
<1>5. fr.op # "write"
  BY <1>2, <1>3
<1>6. /\ gs \in Seq(FrameSet) /\ Depth(gs) = n /\ gs[n] = fr /\ Frames[n] = Frame
      /\ \A j \in 1..(n - 1) : gs[j] = Frames[j]
  BY <1>1, <1>2, <1>5, ReplaceAround
<1>7. Top.out \in Seq(TokenSet)
  BY <1>1, TopProperties
<1>8. Nested(gs)
  BY <1>1, <1>6, <1>7, NestedAfter
<1>9. Depths \in Nat /\ n <= Depths
  BY <1>6, <1>8, NestedDepth
<1>10. Around(gs, n) = Append(path, o) /\ Len(Around(gs, n)) = n
  <2>1. gs[n].obj = o /\ gs[n].obj \in Objects /\ \A j \in 1..(n - 1) : Frames[j] = gs[j]
    BY <1>1, <1>2, <1>6
  <2> HIDE DEF n, gs
  <2>2. Around(gs, n) = Append(path, gs[n].obj)
    BY <1>4, <2>1, AroundGrows
  <2>3. n \in Nat /\ n <= Depth(gs)
    BY <1>4, <1>6
  <2>4. Len(Around(gs, n)) = n
    BY <1>8, <2>3, AroundType
  <2> QED BY <2>1, <2>2, <2>4
<1>11. Remain(Frames, n) = Body(enc, o, Around(gs, n))
  <2>1. n = Len(path) + 1
    BY <1>4
  <2>2. Encode(o, path) = Body(enc, o, Append(path, o))
    BY <1>1, <1>4, <1>9, <2>1, EncodeObject
  <2>3. Remain(Frames, n) = Encode(o, path)
    BY <1>1, <1>6 DEF Remain
  <2> QED BY <1>10, <2>2, <2>3
<1>12. Remain(gs, n) = Body(enc, o, Around(gs, n))
  <2>1. CASE op = "getters"
    BY <2>1, <1>2, <1>6 DEF Remain
  <2>2. CASE op = "json" /\ Class[o] \in FlawedClasses
    <3>1. o \in Reachable
      BY <1>1, TopFrame
    <3>2. Throws(o)
      BY <1>1, <2>2, <3>1 DEF Steady
    <3>3. Body(enc, o, Around(gs, n)) = enc[<<Json[o], Around(gs, n)>>]
      BY <1>1, <3>2 DEF Body
    <3>4. Remain(gs, n) = Encode(Json[o], Around(gs, n))
      BY <2>2, <1>2, <1>6 DEF Remain
    <3>5. Encode(Json[o], Around(gs, n)) = enc[<<Json[o], Around(gs, n)>>]
      BY <1>10 DEF Encode, Depths
    <3> QED BY <3>3, <3>4, <3>5
  <2> QED BY <1>3, <2>1, <2>2
<1>13. Top.out \o Remain(Frames, n) = Top.out \o Remain(gs, n)
  BY <1>11, <1>12
<1> QED BY <1>1, <1>2, <1>5, <1>7, <1>13, DueReplace

(* Calling a getter writes nothing; when all have been called the bean has *)
(* its entries to write, when one has failed its JSON form.                *)
LEMMA DueGetters ==
  ASSUME CleanGraph, Steady, TypeOK, PathInv, Reached, CleanInv, Due,
         PathInv', Reached', CallGetter \/ Catch
  PROVE  Active' /\ Settled'
<1> DEFINE n == Len(Frames)
           o == Frame.obj
           path == Around(Frames, n)
           enc == encode[Depths - n]
<1>1. /\ Active /\ Frames # <<>> /\ Frame.op = "getters" /\ Tidy
  BY CatchSteps DEF CallGetter, Reading, Due, CleanInv
<1>2. /\ n \in Nat \ {0} /\ Frames[n] = Frame /\ o \in Objects /\ o \in Reachable
      /\ \A val : Encode(val, path) = enc[<<val, path>>]
  BY <1>1, TopAround
<1>3. Remain(Frames, n) = Body(enc, o, path)
  BY <1>1, <1>2 DEF Remain
<1>4. Top.out \in Seq(TokenSet)
  BY <1>1, TopProperties
<1>5. ASSUME NEW fr \in FrameSet, fr.op # "write", fr.obj = o,
             Continue(Append(Below, fr), Top.out),
             Remain(Append(Below, fr), n) = Body(enc, o, path)
      PROVE  Active' /\ Settled'
  BY <1>1, <1>3, <1>4, <1>5, DueReplace
<1>6. CASE CallGetter
  <2> DEFINE fr == [Frame EXCEPT !.next = @ + 1]
             gs == Append(Below, fr)
  <2>1. Continue(gs, Top.out)
    BY <1>6 DEF CallGetter, NextGetter
  <2>2. fr \in FrameSet /\ fr.op = "getters" /\ fr.obj = o
    BY <1>1, NextFrame
  <2> HIDE DEF fr
  <2>3. gs[n] = fr /\ Around(gs, n) = path
    BY <1>1, <2>2, ReplaceAround
  <2>4. Remain(gs, n) = Body(enc, o, path)
    BY <2>2, <2>3 DEF Remain
  <2> QED BY <1>5, <2>1, <2>2, <2>4
<1>7. CASE Catch
  <2> DEFINE fr == [op |-> "json", obj |-> o, next |-> 1]
             gs == Append(Below, fr)
  <2>1. o \in FlawedBeans
    BY <1>7, CatchSteps DEF CleanInv
  <2>2. LastTry = n /\ Frames[LastTry] = Frame
    BY <1>1, <2>1, CatchesOnTop
  <2>3. Continue(gs, Top.out)
    BY <1>7, <2>2, CatchSteps DEF Below
  <2>4. fr \in FrameSet /\ fr.op = "json" /\ fr.obj = o /\ fr.next = 1
    BY <2>1, FrameTypes DEF FlawedBeans
  <2> HIDE DEF fr
  <2>5. gs[n] = fr /\ Around(gs, n) = path
    BY <1>1, <2>4, ReplaceAround
  <2>6. Throws(o) /\ Kind[o] = "bean"
    BY <1>2, <2>1 DEF Steady, FlawedClasses, FlawedBeans, BeanSet
  <2>7. Body(enc, o, path) = enc[<<Json[o], path>>]
    BY <2>6 DEF Body
  <2>8. Remain(gs, n) = Encode(Json[o], path)
    BY <2>4, <2>5 DEF Remain
  <2>9. Remain(gs, n) = Body(enc, o, path)
    BY <1>2, <2>7, <2>8
  <2> QED BY <1>5, <2>3, <2>4, <2>9
<1> QED BY <1>6, <1>7

(* The header of a bean whose getters have all returned. *)
LEMMA DueBeanMap ==
  ASSUME CleanGraph, TypeOK, PathInv, Reached, CleanInv, Due,
         PathInv', Reached', WriteBeanMap
  PROVE  Active' /\ Settled'
<1> DEFINE n == Len(Frames)
           o == Frame.obj
           path == Around(Frames, n)
           enc == encode[Depths - n]
           fr == [op |-> "items", obj |-> o, next |-> 1]
           gs == Append(Below, fr)
           out == Append(Top.out, Header(o))
           all == Ending(enc, o, path)[Len(Items[o])]
<1>1. /\ Active /\ Frames # <<>> /\ Frame.op = "getters" /\ Tidy
      /\ Frame.next > Len(Items[o]) /\ Continue(gs, out)
  BY DEF WriteBeanMap, Reading, CleanInv
<1>2. /\ n \in Nat \ {0} /\ Frames[n] = Frame /\ o \in Objects
      /\ enc \in Encodings /\ path \in Seq(Objects)
  BY <1>1, TopAround
<1>3. fr \in FrameSet /\ fr.op = "items" /\ fr.obj = o /\ fr.next = 1
  BY <1>2, FrameTypes
<1> HIDE DEF fr
<1>4. gs[n] = fr /\ Around(gs, n) = path
  BY <1>1, <1>3, ReplaceAround
<1>5. ~Throws(o)
  <2>1. Good(Frame) /\ Frame.next \in Nat
    BY <1>1, TopFrame, AdvanceType
  <2>2. Len(Items[o]) \in Nat /\ DOMAIN Items[o] = 1..Len(Items[o])
    BY <1>2, EntryType
  <2>3. \A i \in DOMAIN Items[o] : i < Frame.next
    BY <1>1, <2>1, <2>2
  <2> QED BY <1>1, <2>1, <2>3 DEF Good, Throws
<1>6. Top.out \in Seq(TokenSet) /\ Header(o) \in TokenSet /\ Heading(o) = Header(o)
  BY <1>1, <1>2, TopProperties, HeadingType
<1>7. out = Top.out \o <<Header(o)>> /\ out \in Seq(TokenSet) /\ <<Header(o)>> \in Seq(TokenSet)
  BY <1>6, AppendIsConcat, AppendProperties, OneToken
<1>8. Remain(Frames, n) = <<Header(o)>> \o all
  <2>1. Remain(Frames, n) = Body(enc, o, path)
    BY <1>1, <1>2 DEF Remain
  <2> QED BY <1>5, <1>6, <2>1 DEF Body
<1>9. Remain(gs, n) = all
  <2>1. Remain(gs, n) = Left(enc, o, path, 1)
    BY <1>3, <1>4 DEF Remain
  <2> QED BY <1>2, <2>1, LeftAll
<1>10. all \in Seq(TokenSet)
  <2>1. Len(Items[o]) \in Nat BY <1>2, EntryType
  <2>2. Ending(enc, o, path) \in [Nat -> Seq(TokenSet)] BY <1>2, EndingSteps
  <2> QED BY <2>1, <2>2
<1>11. Top.out \o Remain(Frames, n) = out \o Remain(gs, n)
  <2> HIDE DEF all, out, gs, o, n
  <2>1. (Top.out \o <<Header(o)>>) \o all = Top.out \o (<<Header(o)>> \o all)
    BY <1>6, <1>7, <1>10, Regroup
  <2> QED BY <2>1, <1>7, <1>8, <1>9
<1> QED BY <1>1, <1>3, <1>7, <1>11, DueReplace

(* An entry is written, or left out. *)
LEMMA DueEntries ==
  ASSUME CleanGraph, TypeOK, PathInv, Reached, CleanInv, Due,
         PathInv', Reached', WriteElement \/ SkipNullEntry \/ WriteEntry
  PROVE  Active' /\ Settled'
<1> DEFINE n == Len(Frames)
           o == Frame.obj
           k == Frame.next
           path == Around(Frames, n)
           enc == encode[Depths - n]
           fr == [Frame EXCEPT !.next = @ + 1]
           gs == Append(Below, fr)
           rest == Left(enc, o, path, k + 1)
           key == <<Token("key")>>
<1>1. /\ Active /\ Frames # <<>> /\ Frame.op = "items" /\ Tidy
      /\ Iterating /\ k <= Len(Items[o])
  BY DEF WriteElement, SkipNullEntry, WriteEntry, Iterating, CleanInv
<1>2. /\ n \in Nat \ {0} /\ Frames[n] = Frame /\ o \in Objects /\ o \in Reachable
      /\ enc \in Encodings /\ path \in Seq(Objects)
      /\ \A val : Encode(val, path) = enc[<<val, path>>]
  BY <1>1, TopAround
<1>3. /\ fr \in FrameSet /\ fr.op = "items" /\ fr.obj = o /\ fr.next = k + 1
      /\ k \in Nat \ {0}
  BY <1>1, NextFrame, AdvanceType
<1>4. /\ k \in DOMAIN Items[o] /\ Item = Items[o][k] /\ Item.val \in Values
  BY <1>1, CurrentItem DEF Item
<1>5. Item.val # Caller
  BY <1>2, <1>4 DEF CleanGraph
<1> HIDE DEF fr
<1>6. gs[n] = fr /\ Around(gs, n) = path
  BY <1>1, <1>3, ReplaceAround
<1>7. Remain(gs, n) = rest
  BY <1>3, <1>6 DEF Remain
<1>8. Remain(Frames, n) = Piece(enc, o, path, k) \o rest
  <2>1. Remain(Frames, n) = Left(enc, o, path, k)
    BY <1>1, <1>2 DEF Remain
  <2> QED BY <1>1, <1>2, <1>3, <2>1, LeftNext
<1>9. rest \in Seq(TokenSet)
  <2>1. k + 1 \in Nat \ {0} BY <1>3
  <2> QED BY <1>2, <2>1, LeftType
<1>10. Top.out \in Seq(TokenSet)
  BY <1>1, TopProperties
<1>11. Encode(Item.val, path) \in Seq(TokenSet) /\ Encode(Item.val, path) = enc[<<Items[o][k].val, path>>]
  <2>1. enc[<<Item.val, path>>] \in Seq(TokenSet)
    BY <1>2, <1>4 DEF Encodings, Places
  <2> QED BY <1>2, <1>4, <2>1
<1> HIDE DEF n, o, k, path, enc, gs, rest
<1>12. CASE SkipNullEntry
  <2>1. Continue(gs, Top.out) /\ Kind[o] # "list" /\ Item.val = Null
    BY <1>12 DEF SkipNullEntry, NextItem, gs, fr, o
  <2>2. Piece(enc, o, path, k) = <<>>
    BY <1>4, <2>1 DEF Piece, Kept
  <2>3. Top.out \o Remain(Frames, n) = Top.out \o Remain(gs, n)
    BY <1>7, <1>8, <1>9, <2>2, NoMore
  <2> QED BY <1>1, <1>3, <1>10, <2>1, <2>3, DueReplace DEF gs, n
<1>13. CASE WriteElement
  <2>1. Continue(Append(gs, [op |-> "write", obj |-> Item.val, next |-> 0]), Top.out)
        /\ Kind[o] = "list"
    BY <1>13 DEF WriteElement, NextItem, gs, fr, o
  <2>2. Piece(enc, o, path, k) = <<>> \o Encode(Item.val, path)
    BY <1>4, <1>11, <2>1 DEF Piece, Kept
  <2>3. Piece(enc, o, path, k) = Encode(Item.val, path)
    BY <1>11, <2>2, NoMore
  <2>4. Top.out \o Remain(Frames, n) =
          Top.out \o (Encode(Item.val, path) \o Remain(gs, n))
    BY <1>7, <1>8, <2>3
  <2> QED BY <1>1, <1>4, <1>10, <2>1, <2>4, DueEnter DEF gs, fr, n, path
<1>14. CASE WriteEntry
  <2> DEFINE out == Append(Top.out, Token("key"))
             code == Encode(Item.val, path)
  <2>1. Continue(Append(gs, [op |-> "write", obj |-> Item.val, next |-> 0]), out)
        /\ Kind[o] # "list" /\ Item.val # Null
    BY <1>5, <1>14 DEF WriteEntry, NextItem, gs, fr, o, Written
  <2>2. Piece(enc, o, path, k) = key \o code
    BY <1>4, <1>11, <2>1 DEF Piece, Kept
  <2>3. key \in Seq(TokenSet) /\ out = Top.out \o key /\ out \in Seq(TokenSet)
    BY <1>10, TokenType, OneToken, AppendIsConcat, AppendProperties
  <2>4. code \in Seq(TokenSet)
    BY <1>11
  <2>5. Top.out \o Remain(Frames, n) = out \o (code \o Remain(gs, n))
    <3> HIDE DEF key, code, out
    <3>1. (key \o code) \o rest = key \o (code \o rest)
      BY <1>9, <2>3, <2>4, Regroup
    <3>2. code \o rest \in Seq(TokenSet)
      BY <1>9, <2>4, ConcatProperties
    <3>3. (Top.out \o key) \o (code \o rest) = Top.out \o (key \o (code \o rest))
      BY <1>10, <2>3, <3>2, Regroup
    <3> QED BY <1>7, <1>8, <2>2, <2>3, <3>1, <3>3
  <2> QED BY <1>1, <1>4, <2>1, <2>3, <2>5, DueEnter DEF gs, fr, n, path
<1> QED BY <1>12, <1>13, <1>14

(* The JSON form of a bean. *)
LEMMA DueJson ==
  ASSUME CleanGraph, TypeOK, PathInv, Reached, CleanInv, Due,
         PathInv', Reached', WriteJson
  PROVE  Active' /\ Settled'
<1> DEFINE n == Len(Frames)
           o == Frame.obj
           path == Around(Frames, n)
           fr == [Frame EXCEPT !.next = @ + 1]
           gs == Append(Below, fr)
<1>1. /\ Active /\ Frames # <<>> /\ Frame.op = "json" /\ Tidy /\ Frame.next = 1
  BY DEF WriteJson, CleanInv
<1>2. /\ n \in Nat \ {0} /\ Frames[n] = Frame /\ o \in Objects /\ o \in Reachable
      /\ Depths \in Nat /\ n <= Depths /\ path \in Seq(Objects) /\ Len(path) = n
  BY <1>1, TopAround
<1>3. fr \in FrameSet /\ fr.op = "json" /\ fr.obj = o /\ fr.next = 2
  BY <1>1, NextFrame
<1>4. o \in BeanSet /\ Good(Frame)
  BY <1>1, AdvanceType, TopFrame
<1>5. Json[o] # Thrower
  BY <1>1, <1>2, <1>4 DEF Good, CleanGraph
<1>6. Json[o] \in Values
  BY <1>4, <1>5, GraphAssumption DEF BeanSet, Values
<1>7. Continue(Append(gs, [op |-> "write", obj |-> Json[o], next |-> 0]), Top.out)
  BY <1>5 DEF WriteJson, NextItem
<1> HIDE DEF fr
<1>8. gs[n] = fr /\ Around(gs, n) = path
  BY <1>1, <1>3, ReplaceAround
<1>9. Remain(gs, n) = <<>>
  BY <1>3, <1>8 DEF Remain
<1>10. Remain(Frames, n) = Encode(Json[o], path)
  BY <1>1, <1>2 DEF Remain
<1>11. Encode(Json[o], path) \in Seq(TokenSet)
  BY <1>2, <1>6, EncodeType
<1>12. Top.out \o Remain(Frames, n) = Top.out \o (Encode(Json[o], path) \o Remain(gs, n))
  BY <1>9, <1>10, <1>11, NoMore
<1>13. Top.out \in Seq(TokenSet)
  BY <1>1, TopProperties
<1> QED BY <1>1, <1>6, <1>7, <1>12, <1>13, DueEnter DEF fr

(* An object is done. *)
LEMMA DueLeave ==
  ASSUME CleanGraph, TypeOK, PathInv, Reached, CleanInv, Due, Leave
  PROVE  Active' /\ Settled'
<1> DEFINE n == Len(Frames)
<1>1. /\ Active /\ Frames # <<>> /\ Frame.op # "write" /\ Continue(Below, Top.out)
      /\ \/ Frame.op = "items" /\ Frame.next > Len(Items[Frame.obj])
         \/ Frame.op = "json" /\ Frame.next > 1
  BY DEF Leave, Finished
<1>2. Frames[n] = Frame /\ Frame.next \in Nat
  BY <1>1, AdvanceType DEF Frame
<1>3. Remain(Frames, n) = <<>>
  <2>1. CASE Frame.op = "items" /\ Frame.next > Len(Items[Frame.obj])
    BY <1>2, <2>1 DEF Remain, Left
  <2>2. CASE Frame.op = "json" /\ Frame.next > 1
    <3>1. Frame.next # 1 BY <1>2, <2>2
    <3> QED BY <1>2, <2>2, <3>1 DEF Remain
  <2> QED BY <1>1, <2>1, <2>2
<1>4. Top.out \in Seq(TokenSet)
  BY <1>1, TopProperties
<1>5. Top.out = Top.out \o Remain(Frames, n)
  BY <1>3, <1>4, NoMore
<1> QED BY <1>1, <1>4, <1>5, DuePop

(* The call of a root has its encoding to write. *)
LEMMA DueCall ==
  ASSUME CleanGraph, TypeOK, CleanInv, Call
  PROVE  Active' /\ Settled' /\ ~raised'
<1>1. builders = <<>> /\ ~raised /\ raised' = raised
  BY DEF Call, Active, CleanInv
<1>2. PICK root \in Roots, b \in Buffers : builders' = <<Builder(root, b, builders'[1].list)>>
  <2>1. PICK root \in Roots : Open(root, <<>>)
    BY <1>1 DEF Call
  <2>2. PICK b \in Buffers, l \in Lists : builders' = <<Builder(root, b, l)>>
    BY <2>1 DEF Open
  <2>3. builders'[1].list = l
    BY <2>2 DEF Builder
  <2> QED BY <2>2, <2>3
<1> DEFINE fr == [op |-> "write", obj |-> root, next |-> 0]
           code == Encode(root, <<>>)
           g == [i \in Nat |-> IF i = 0 THEN <<>> ELSE code]
<1>3. /\ Active' /\ Top'.root = root /\ Top'.out = <<>> /\ Frames' = <<fr>>
  <2>1. Len(builders') = 1 /\ builders' # <<>>
    BY <1>2
  <2>2. Top' = builders'[1]
    BY <2>1 DEF Top
  <2>3. builders'[1] = Builder(root, b, builders'[1].list)
    BY <1>2
  <2> QED BY <2>1, <2>2, <2>3 DEF Builder, Active, Frames
<1>4. code \in Seq(TokenSet)
  <2>1. Depths \in Nat BY FS_CardinalityType DEF CleanGraph, Depths
  <2>2. root \in Values /\ <<>> \in Seq(Objects) /\ Len(<<>>) = 0
    BY GraphAssumption, EmptySeq DEF Values
  <2>3. Len(<<>>) <= Depths
    BY <2>1, <2>2
  <2> HIDE DEF code
  <2> QED BY <2>1, <2>2, <2>3, EncodeType DEF code
<1>5. Len(<<fr>>) = 1 /\ <<fr>>[1] = fr /\ fr.op = "write" /\ fr.obj = root
  OBVIOUS
<1> DEFINE fs == <<fr>>
<1> HIDE DEF fr, code
<1>6. Around(fs, 0) = <<>>
  <2>1. Around(fs, 0) = [j \in 1..0 |-> fs[j].obj]
    BY DEF Around
  <2>2. 1..0 = {} OBVIOUS
  <2> HIDE DEF fs
  <2>3. Around(fs, 0) \in [1..0 -> Objects]
    BY <2>1, <2>2
  <2>4. Around(fs, 0) \in Seq(Objects) /\ Len(Around(fs, 0)) = 0
    BY <2>3
  <2> QED BY <2>4, EmptySeq
<1>7. Remain(fs, 1) = code
  <2>1. Remain(fs, 1) = Encode(root, Around(fs, 1 - 1))
    BY <1>5 DEF Remain
  <2>2. 1 - 1 = 0 OBVIOUS
  <2> QED BY <1>6, <2>1, <2>2 DEF code
<1>8. g \in [Nat -> Seq(TokenSet)] /\ g[0] = <<>> /\ g[1] = code
  BY <1>4, EmptySeq
<1>9. code \o <<>> = code /\ <<>> \o code = code
  BY <1>4, NoMore
<1> HIDE DEF g
<1>10. Owes(g, fs)
  <2>1. \A i \in 1..1 : i = 1 /\ i - 1 = 0
    OBVIOUS
  <2> QED BY <1>5, <1>7, <1>8, <1>9, <2>1 DEF Owes
<1>11. Settles(fs, <<>>, code)
  BY <1>5, <1>8, <1>9, <1>10 DEF Settles
<1> QED BY <1>1, <1>3, <1>11 DEF Settled, code, fr

(* A call that returns has nothing left to write. *)
LEMMA DueReturn ==
  ASSUME TypeOK, PathInv, Due, Return
  PROVE  ~Active' /\ ~raised' /\ Faithful'
<1>1. Active /\ ~raised /\ raised' = raised /\ Frames = <<>>
      /\ builders' = Outer /\ result' = [root |-> Top.root, out |-> Top.out]
  BY DEF Return
<1>2. ~Active'
  BY <1>1, OneCall DEF Active
<1>3. PICK g \in [Nat -> Seq(TokenSet)] :
        g[0] = <<>> /\ Encode(Top.root, <<>>) = Top.out \o g[Len(Frames)]
  BY <1>1 DEF Due, Settled, Settles, Owes
<1>4. Len(Frames) = 0
  BY <1>1, EmptySeq
<1>5. Top.out \in Seq(TokenSet)
  BY <1>1, TopProperties
<1>6. Encode(Top.root, <<>>) = Top.out
  BY <1>3, <1>4, <1>5, NoMore
<1> QED BY <1>1, <1>2, <1>6 DEF Faithful

(* Only a getter raises: an entry that is written has a key. *)
LEMMA NoNullKeys ==
  ASSUME CleanGraph, Steady, TypeOK, Reached, CleanInv, NullKeyThrows
  PROVE  FALSE
<1>1. /\ Active /\ Frames # <<>> /\ Frame.op = "items" /\ Iterating
      /\ Frame.next <= Len(Items[Frame.obj])
      /\ Kind[Frame.obj] # "list" /\ Item.val # Null /\ Item.key = NullKey
  BY DEF NullKeyThrows, Iterating
<1>2. Frame.obj \in Objects /\ Frame.obj \in Reachable
  BY <1>1, AdvanceType, TopFrame DEF CleanInv
<1>3. Frame.next \in DOMAIN Items[Frame.obj] /\ Item = Items[Frame.obj][Frame.next]
  BY <1>1, CurrentItem DEF Item
<1> QED BY <1>1, <1>2, <1>3, SoundEntries DEF Steady, BeanSet

(* Every step of a call writes what is due, and so the call its encoding. *)
LEMMA DueStep ==
  ASSUME CleanGraph, Steady, NoCallers, TypeOK, PathInv, Reached, CleanInv,
         Due, Faithful, PathInv', Reached', [Next]_vars
  PROVE  Due' /\ Faithful'
<1>1. CASE Walk
  <2>1. ~raised' /\ Active
    BY <1>1, TidyStep, WalkContinues
  <2>2. Faithful'
    BY <1>1, WalkKeeps DEF Faithful
  <2>3. ~WriteThrows
    <3> SUFFICES ASSUME WriteThrows PROVE FALSE
      OBVIOUS
    <3>1. Frames # <<>> /\ Frame.obj = Thrower
      BY DEF WriteThrows, Writing
    <3> QED BY <2>1, <3>1, TopFrame DEF CleanInv, Good
  <2>4. Active' /\ Settled'
    BY <1>1, <2>3, DueWrites, DueContainer, DueBean, DueGetters, DueBeanMap,
       DueEntries, DueJson, DueLeave
    DEF Walk
  <2> QED BY <2>1, <2>2, <2>4 DEF Due
<1>2. CASE Call
  <2>1. Due'
    BY <1>2, DueCall DEF Due
  <2> QED BY <1>2, <2>1 DEF Call, Faithful
<1>3. CASE GetterCalls
  BY <1>3, NoGetterCalls
<1>4. CASE Return
  BY <1>4, DueReturn DEF Due
<1>5. CASE GetterThrows
  <2>1. builders' = builders /\ result' = result /\ Frame.op = "getters"
    BY <1>5 DEF GetterThrows, Reading
  <2> QED BY <2>1 DEF Due, Faithful, Settled, Active, Frames, Frame, Top
<1>6. CASE NullKeyThrows
  BY <1>6, NoNullKeys
<1>7. CASE Abandon
  <2>1. Active /\ raised /\ Catchers = {}
    BY <1>7 DEF Abandon
  <2>2. Frames # <<>> /\ Frame.op \in {"getters", "items"} /\ Frame.obj \in FlawedBeans
    BY <2>1 DEF CleanInv
  <2>3. Frames \in Seq(FrameSet)
    BY <2>1, TopProperties
  <2>4. Len(Frames) \in DOMAIN Frames
    BY <2>2, <2>3, StackProperties, LenProperties
  <2> QED BY <2>1, <2>2, <2>4 DEF Catchers, Frame, FlawedBeans, BeanSet
<1>8. CASE Overflow
  <2>1. Writing /\ Len(Frames) > SafeDepth /\ SafeDepth \in Nat
    BY <1>8, GraphAssumption DEF Overflow
  <2>2. Frames \in Seq(FrameSet) /\ Len(Frames) \in Nat
    BY <2>1, TopProperties DEF Writing
  <2> QED BY <2>1, <2>2, StackBound
<1>9. CASE Collect \/ Evict \/ UNCHANGED vars
  <2>1. builders' = builders /\ result' = result /\ raised' = raised
    BY <1>9 DEF Collect, Evict, vars
  <2> QED BY <2>1 DEF Due, Faithful, Settled, Active, Frames, Frame, Top
<1> QED
  BY <1>1, <1>2, <1>3, <1>4, <1>5, <1>6, <1>7, <1>8, <1>9
  DEF Next, Run, Walk

LEMMA InitDue == Init => Due /\ Faithful
BY DEF Init, Due, Faithful, Active

(* On a steady clean graph what toWson returns is the encoding of its root *)
(* and of nothing else: headers announce the entries that follow, cycles   *)
(* are cut off where the encoding cuts them off, a bean whose getters fail *)
(* leaves nothing behind of its first attempt, and neither earlier calls,  *)
(* nor the pool, nor an evicted class change a token.                      *)
THEOREM WritesTheEncoding == CleanGraph /\ Steady => (Spec => []Faithful)
<1> DEFINE I == /\ CleanGraph /\ Steady /\ NoCallers /\ Inv /\ PathInv /\ Reached
                /\ CleanInv /\ Due /\ Faithful
<1>1. CleanGraph /\ Steady /\ Init => I
  BY InitInv, InitPath, InitClean, InitDue DEF CleanGraph, NoCallers
<1>2. I /\ [Next]_vars => I'
  <2> SUFFICES ASSUME I, [Next]_vars PROVE I'
    OBVIOUS
  <2>1. CleanGraph' /\ Steady' /\ NoCallers'
    BY DEF CleanGraph, Steady, NoCallers
  <2>2. Inv' /\ PathInv' /\ Reached'
    BY NextInv, PathStep, ReachedNext DEF Inv
  <2>3. CleanInv'
    BY CleanStep DEF Inv
  <2>4. Due' /\ Faithful'
    BY <2>2, DueStep DEF Inv
  <2> QED BY <2>1, <2>2, <2>3, <2>4
<1>3. I => Faithful
  OBVIOUS
<1> QED BY <1>1, <1>2, <1>3, PTL DEF Spec
=============================================================================
