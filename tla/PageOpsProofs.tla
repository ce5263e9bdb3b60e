----------------------------- MODULE PageOpsProofs -----------------------------
(***************************************************************************)
(* Proofs about PageOps, for any operations in any number, any plans, any  *)
(* number of documents and of layout changes.                              *)
(*                                                                         *)
(* TypesInv says where the operations are in their programs; DocInv what   *)
(* Page knows and what the messages under way will tell it; RequestInv     *)
(* that one request or answer at most is out per operation; SmoothInv what *)
(* is so of an operation that nothing has disturbed.                       *)
(***************************************************************************)
EXTENDS PageOps, TLAPS, SequenceTheorems
-----------------------------------------------------------------------------
(* The programs, step by step *)

LEMMA SameSteps ==
  ASSUME NEW s \in Seq(Steps), NEW t \in Seq(Steps), Len(s) = Len(t),
         \A i \in 1..Len(s) : s[i] = t[i]
  PROVE  s = t
BY SeqEqual

LEMMA KindsAre ==
  /\ DOMAIN LocatorOps = {"Click", "Hover", "Fill", "Type", "Check", "Uncheck",
       "GetAttribute", "BoundingBox", "SetInputFiles", "Screenshot", "Press"}
  /\ DOMAIN PageOnly = {"Evaluate", "PageShot", "SetStorage", "WaitForSelector",
       "IsVisible", "FrameBox"}
  /\ Kinds = {"Click", "Hover", "Fill", "Type", "Check", "Uncheck", "GetAttribute",
       "BoundingBox", "SetInputFiles", "Screenshot", "Press", "Evaluate", "PageShot",
       "SetStorage", "WaitForSelector", "IsVisible", "FrameBox"}
BY DEF Kinds, LocatorOps, HandleOps, PageOnly

LEMMA Programs ==
  /\ Program("Click") = <<"resolve", "scroll", "quads", "move", "down", "up">>
  /\ Program("Hover") = <<"resolve", "scroll", "quads", "move">>
  /\ Program("Fill") = <<"resolve", "fill">>
  /\ Program("Type") = <<"resolve", "focus", "text">>
  /\ Program("Check") = <<"resolve", "checked", "scroll", "quads", "move", "down",
       "up">>
  /\ Program("Uncheck") = <<"resolve", "checked", "scroll", "quads", "move", "down",
       "up">>
  /\ Program("GetAttribute") = <<"resolve", "read">>
  /\ Program("BoundingBox") = <<"resolve", "quads">>
  /\ Program("SetInputFiles") = <<"resolve", "files">>
  /\ Program("Screenshot") = <<"resolve", "scroll", "quads", "shot">>
  /\ Program("Press") = <<"resolve", "focus", "keydown", "keyup">>
  /\ Program("Evaluate") = <<"evaluate">>
  /\ Program("PageShot") = <<"evaluate", "shot">>
  /\ Program("SetStorage") = <<"evaluate", "evaluate">>
  /\ Program("WaitForSelector") = <<"poll">>
  /\ Program("IsVisible") = <<"look", "read">>
  /\ Program("FrameBox") = <<"findFrame", "adopt", "quads">>
<1>1. Program("Click") = <<"resolve", "scroll", "quads", "move", "down", "up">>
  <2> DEFINE t == <<"resolve", "scroll", "quads", "move", "down", "up">>
  <2>1. PICK p : p = Program("Click")
    OBVIOUS
  <2>2. p = <<"resolve">> \o (<<"scroll", "quads">> \o <<"move", "down", "up">>)
    BY <2>1, KindsAre DEF Program, LocatorOps, HandleOps, ToCenter, Click, Press,
       Screenshot
  <2>3. p \in Seq(Steps) /\ t \in Seq(Steps)
    BY <2>2 DEF Steps, Evaluates, OnElement, ByFrame
  <2>4. Len(p) = Len(t) /\ Len(t) = 6
    BY <2>2
  <2>5. p[1] = "resolve" /\ p[2] = "scroll" /\ p[3] = "quads" /\ p[4] = "move"
          /\ p[5] = "down" /\ p[6] = "up"
    BY <2>2
  <2>6. \A i \in 1..Len(p) : p[i] = t[i]
    BY <2>4, <2>5
  <2>7. QED
    BY <2>1, <2>3, <2>4, <2>6, SameSteps
<1>2. Program("Hover") = <<"resolve", "scroll", "quads", "move">>
  <2> DEFINE t == <<"resolve", "scroll", "quads", "move">>
  <2>1. PICK p : p = Program("Hover")
    OBVIOUS
  <2>2. p = <<"resolve">> \o (<<"scroll", "quads">> \o <<"move">>)
    BY <2>1, KindsAre DEF Program, LocatorOps, HandleOps, ToCenter, Click, Press,
       Screenshot
  <2>3. p \in Seq(Steps) /\ t \in Seq(Steps)
    BY <2>2 DEF Steps, Evaluates, OnElement, ByFrame
  <2>4. Len(p) = Len(t) /\ Len(t) = 4
    BY <2>2
  <2>5. p[1] = "resolve" /\ p[2] = "scroll" /\ p[3] = "quads" /\ p[4] = "move"
    BY <2>2
  <2>6. \A i \in 1..Len(p) : p[i] = t[i]
    BY <2>4, <2>5
  <2>7. QED
    BY <2>1, <2>3, <2>4, <2>6, SameSteps
<1>3. Program("Fill") = <<"resolve", "fill">>
  <2> DEFINE t == <<"resolve", "fill">>
  <2>1. PICK p : p = Program("Fill")
    OBVIOUS
  <2>2. p = <<"resolve">> \o <<"fill">>
    BY <2>1, KindsAre DEF Program, LocatorOps, HandleOps, ToCenter, Click, Press,
       Screenshot
  <2>3. p \in Seq(Steps) /\ t \in Seq(Steps)
    BY <2>2 DEF Steps, Evaluates, OnElement, ByFrame
  <2>4. Len(p) = Len(t) /\ Len(t) = 2
    BY <2>2
  <2>5. p[1] = "resolve" /\ p[2] = "fill"
    BY <2>2
  <2>6. \A i \in 1..Len(p) : p[i] = t[i]
    BY <2>4, <2>5
  <2>7. QED
    BY <2>1, <2>3, <2>4, <2>6, SameSteps
<1>4. Program("Type") = <<"resolve", "focus", "text">>
  <2> DEFINE t == <<"resolve", "focus", "text">>
  <2>1. PICK p : p = Program("Type")
    OBVIOUS
  <2>2. p = <<"resolve">> \o <<"focus", "text">>
    BY <2>1, KindsAre DEF Program, LocatorOps, HandleOps, ToCenter, Click, Press,
       Screenshot
  <2>3. p \in Seq(Steps) /\ t \in Seq(Steps)
    BY <2>2 DEF Steps, Evaluates, OnElement, ByFrame
  <2>4. Len(p) = Len(t) /\ Len(t) = 3
    BY <2>2
  <2>5. p[1] = "resolve" /\ p[2] = "focus" /\ p[3] = "text"
    BY <2>2
  <2>6. \A i \in 1..Len(p) : p[i] = t[i]
    BY <2>4, <2>5
  <2>7. QED
    BY <2>1, <2>3, <2>4, <2>6, SameSteps
<1>5. Program("Check") = <<"resolve", "checked", "scroll", "quads", "move", "down",
        "up">>
  <2> DEFINE t == <<"resolve", "checked", "scroll", "quads", "move", "down", "up">>
  <2>1. PICK p : p = Program("Check")
    OBVIOUS
  <2>2. p = <<"resolve">> \o (<<"checked">> \o <<"scroll", "quads">> \o <<"move",
          "down", "up">>)
    BY <2>1, KindsAre DEF Program, LocatorOps, HandleOps, ToCenter, Click, Press,
       Screenshot
  <2>3. p \in Seq(Steps) /\ t \in Seq(Steps)
    BY <2>2 DEF Steps, Evaluates, OnElement, ByFrame
  <2>4. Len(p) = Len(t) /\ Len(t) = 7
    BY <2>2
  <2>5. p[1] = "resolve" /\ p[2] = "checked" /\ p[3] = "scroll" /\ p[4] = "quads"
          /\ p[5] = "move" /\ p[6] = "down" /\ p[7] = "up"
    BY <2>2
  <2>6. \A i \in 1..Len(p) : p[i] = t[i]
    BY <2>4, <2>5
  <2>7. QED
    BY <2>1, <2>3, <2>4, <2>6, SameSteps
<1>6. Program("Uncheck") = <<"resolve", "checked", "scroll", "quads", "move", "down",
        "up">>
  <2> DEFINE t == <<"resolve", "checked", "scroll", "quads", "move", "down", "up">>
  <2>1. PICK p : p = Program("Uncheck")
    OBVIOUS
  <2>2. p = <<"resolve">> \o (<<"checked">> \o <<"scroll", "quads">> \o <<"move",
          "down", "up">>)
    BY <2>1, KindsAre DEF Program, LocatorOps, HandleOps, ToCenter, Click, Press,
       Screenshot
  <2>3. p \in Seq(Steps) /\ t \in Seq(Steps)
    BY <2>2 DEF Steps, Evaluates, OnElement, ByFrame
  <2>4. Len(p) = Len(t) /\ Len(t) = 7
    BY <2>2
  <2>5. p[1] = "resolve" /\ p[2] = "checked" /\ p[3] = "scroll" /\ p[4] = "quads"
          /\ p[5] = "move" /\ p[6] = "down" /\ p[7] = "up"
    BY <2>2
  <2>6. \A i \in 1..Len(p) : p[i] = t[i]
    BY <2>4, <2>5
  <2>7. QED
    BY <2>1, <2>3, <2>4, <2>6, SameSteps
<1>7. Program("GetAttribute") = <<"resolve", "read">>
  <2> DEFINE t == <<"resolve", "read">>
  <2>1. PICK p : p = Program("GetAttribute")
    OBVIOUS
  <2>2. p = <<"resolve">> \o <<"read">>
    BY <2>1, KindsAre DEF Program, LocatorOps, HandleOps, ToCenter, Click, Press,
       Screenshot
  <2>3. p \in Seq(Steps) /\ t \in Seq(Steps)
    BY <2>2 DEF Steps, Evaluates, OnElement, ByFrame
  <2>4. Len(p) = Len(t) /\ Len(t) = 2
    BY <2>2
  <2>5. p[1] = "resolve" /\ p[2] = "read"
    BY <2>2
  <2>6. \A i \in 1..Len(p) : p[i] = t[i]
    BY <2>4, <2>5
  <2>7. QED
    BY <2>1, <2>3, <2>4, <2>6, SameSteps
<1>8. Program("BoundingBox") = <<"resolve", "quads">>
  <2> DEFINE t == <<"resolve", "quads">>
  <2>1. PICK p : p = Program("BoundingBox")
    OBVIOUS
  <2>2. p = <<"resolve">> \o <<"quads">>
    BY <2>1, KindsAre DEF Program, LocatorOps, HandleOps, ToCenter, Click, Press,
       Screenshot
  <2>3. p \in Seq(Steps) /\ t \in Seq(Steps)
    BY <2>2 DEF Steps, Evaluates, OnElement, ByFrame
  <2>4. Len(p) = Len(t) /\ Len(t) = 2
    BY <2>2
  <2>5. p[1] = "resolve" /\ p[2] = "quads"
    BY <2>2
  <2>6. \A i \in 1..Len(p) : p[i] = t[i]
    BY <2>4, <2>5
  <2>7. QED
    BY <2>1, <2>3, <2>4, <2>6, SameSteps
<1>9. Program("SetInputFiles") = <<"resolve", "files">>
  <2> DEFINE t == <<"resolve", "files">>
  <2>1. PICK p : p = Program("SetInputFiles")
    OBVIOUS
  <2>2. p = <<"resolve">> \o <<"files">>
    BY <2>1, KindsAre DEF Program, LocatorOps, HandleOps, ToCenter, Click, Press,
       Screenshot
  <2>3. p \in Seq(Steps) /\ t \in Seq(Steps)
    BY <2>2 DEF Steps, Evaluates, OnElement, ByFrame
  <2>4. Len(p) = Len(t) /\ Len(t) = 2
    BY <2>2
  <2>5. p[1] = "resolve" /\ p[2] = "files"
    BY <2>2
  <2>6. \A i \in 1..Len(p) : p[i] = t[i]
    BY <2>4, <2>5
  <2>7. QED
    BY <2>1, <2>3, <2>4, <2>6, SameSteps
<1>10. Program("Screenshot") = <<"resolve", "scroll", "quads", "shot">>
  <2> DEFINE t == <<"resolve", "scroll", "quads", "shot">>
  <2>1. PICK p : p = Program("Screenshot")
    OBVIOUS
  <2>2. p = <<"resolve">> \o (<<"scroll", "quads">> \o <<"shot">>)
    BY <2>1, KindsAre DEF Program, LocatorOps, HandleOps, ToCenter, Click, Press,
       Screenshot
  <2>3. p \in Seq(Steps) /\ t \in Seq(Steps)
    BY <2>2 DEF Steps, Evaluates, OnElement, ByFrame
  <2>4. Len(p) = Len(t) /\ Len(t) = 4
    BY <2>2
  <2>5. p[1] = "resolve" /\ p[2] = "scroll" /\ p[3] = "quads" /\ p[4] = "shot"
    BY <2>2
  <2>6. \A i \in 1..Len(p) : p[i] = t[i]
    BY <2>4, <2>5
  <2>7. QED
    BY <2>1, <2>3, <2>4, <2>6, SameSteps
<1>11. Program("Press") = <<"resolve", "focus", "keydown", "keyup">>
  <2> DEFINE t == <<"resolve", "focus", "keydown", "keyup">>
  <2>1. PICK p : p = Program("Press")
    OBVIOUS
  <2>2. p = <<"resolve">> \o (<<"focus">> \o <<"keydown", "keyup">>)
    BY <2>1, KindsAre DEF Program, LocatorOps, HandleOps, ToCenter, Click, Press,
       Screenshot
  <2>3. p \in Seq(Steps) /\ t \in Seq(Steps)
    BY <2>2 DEF Steps, Evaluates, OnElement, ByFrame
  <2>4. Len(p) = Len(t) /\ Len(t) = 4
    BY <2>2
  <2>5. p[1] = "resolve" /\ p[2] = "focus" /\ p[3] = "keydown" /\ p[4] = "keyup"
    BY <2>2
  <2>6. \A i \in 1..Len(p) : p[i] = t[i]
    BY <2>4, <2>5
  <2>7. QED
    BY <2>1, <2>3, <2>4, <2>6, SameSteps
<1>12. Program("Evaluate") = <<"evaluate">>
  BY KindsAre DEF Program, PageOnly, PageShot, SetStorage, FrameBox
<1>13. Program("PageShot") = <<"evaluate", "shot">>
  BY KindsAre DEF Program, PageOnly, PageShot, SetStorage, FrameBox
<1>14. Program("SetStorage") = <<"evaluate", "evaluate">>
  BY KindsAre DEF Program, PageOnly, PageShot, SetStorage, FrameBox
<1>15. Program("WaitForSelector") = <<"poll">>
  BY KindsAre DEF Program, PageOnly, PageShot, SetStorage, FrameBox
<1>16. Program("IsVisible") = <<"look", "read">>
  BY KindsAre DEF Program, PageOnly, PageShot, SetStorage, FrameBox
<1>17. Program("FrameBox") = <<"findFrame", "adopt", "quads">>
  BY KindsAre DEF Program, PageOnly, PageShot, SetStorage, FrameBox
<1> QED
  BY <1>1, <1>2, <1>3, <1>4, <1>5, <1>6, <1>7, <1>8, <1>9, <1>10, <1>11, <1>12, <1>13,
     <1>14, <1>15, <1>16, <1>17
(* What comes before what in a program p. *)
Earlier(p, i, S) == \E j \in 1..i-1 : p[j] \in S
Finds == {"resolve", "look", "findFrame"}
ShapeAt(k, p, i) ==
  /\ p[i] \in OnElement \cup ByFrame \cup {"adopt"} => Earlier(p, i, Finds)
  /\ p[i] \in Finds => i = 1 /\ p[i] # "checked"
  /\ p[i] = "adopt" => Earlier(p, i, {"findFrame"})
  /\ p[i] \in {"down", "up"} => /\ Earlier(p, i, {"scroll"})
                           /\ Earlier(p, i, {"quads"})
  /\ p[i] = "up" => i = Len(p) /\ Earlier(p, i, {"down"})
  /\ p[i] \in {"text", "keydown", "keyup"} => Earlier(p, i, {"focus"})
  /\ p[i] = "keyup" => Earlier(p, i, {"keydown"})
  /\ p[i] = "findFrame" <=> k = "FrameBox" /\ i = 1
  /\ p[i] = "look" => k = "IsVisible"
  /\ p[i] = "checked" => k \in {"Check", "Uncheck"}
Shape(k, p) ==
  /\ p \in Seq(Steps) /\ Len(p) \in 1..7
  /\ \A i \in 1..Len(p) : ShapeAt(k, p, i)
  /\ k \in {"Check", "Uncheck"} => /\ p[Len(p)] = "up"
                                   /\ Earlier(p, Len(p), {"checked"})

LEMMA Shapes == \A k \in Kinds : Shape(k, Program(k))
<1> SUFFICES ASSUME NEW k \in Kinds PROVE Shape(k, Program(k))
  OBVIOUS
<1> PICK p : p = Program(k)
  OBVIOUS
<1>1. CASE k = "Click"
  <2>1. p = <<"resolve", "scroll", "quads", "move", "down", "up">>
    BY <1>1, Programs
  <2>2. p \in Seq(Steps) /\ Len(p) = 6
    BY <2>1 DEF Steps, Evaluates, OnElement, ByFrame
  <2>3. p[1] = "resolve" /\ p[2] = "scroll" /\ p[3] = "quads" /\ p[4] = "move"
          /\ p[5] = "down" /\ p[6] = "up"
    BY <2>1
  <2>4. Earlier(p, 2, Finds) /\ Earlier(p, 3, Finds) /\ Earlier(p, 5, {"scroll"})
          /\ Earlier(p, 5, {"quads"}) /\ Earlier(p, 6, {"scroll"})
          /\ Earlier(p, 6, {"quads"}) /\ Earlier(p, 6, {"down"})
    BY <2>3 DEF Earlier, Finds
  <2>5. ShapeAt(k, p, 1) /\ ShapeAt(k, p, 2) /\ ShapeAt(k, p, 3) /\ ShapeAt(k, p, 4)
          /\ ShapeAt(k, p, 5) /\ ShapeAt(k, p, 6)
    BY <1>1, <2>2, <2>3, <2>4 DEF ShapeAt, OnElement, ByFrame, Finds
  <2>6. \A i \in 1..Len(p) : i = 1 \/ i = 2 \/ i = 3 \/ i = 4 \/ i = 5 \/ i = 6
    BY <2>2
  <2>7. QED
    BY <1>1, <2>2, <2>3, <2>5, <2>6 DEF Shape
<1>2. CASE k = "Hover"
  <2>1. p = <<"resolve", "scroll", "quads", "move">>
    BY <1>2, Programs
  <2>2. p \in Seq(Steps) /\ Len(p) = 4
    BY <2>1 DEF Steps, Evaluates, OnElement, ByFrame
  <2>3. p[1] = "resolve" /\ p[2] = "scroll" /\ p[3] = "quads" /\ p[4] = "move"
    BY <2>1
  <2>4. Earlier(p, 2, Finds) /\ Earlier(p, 3, Finds)
    BY <2>3 DEF Earlier, Finds
  <2>5. ShapeAt(k, p, 1) /\ ShapeAt(k, p, 2) /\ ShapeAt(k, p, 3) /\ ShapeAt(k, p, 4)
    BY <1>2, <2>2, <2>3, <2>4 DEF ShapeAt, OnElement, ByFrame, Finds
  <2>6. \A i \in 1..Len(p) : i = 1 \/ i = 2 \/ i = 3 \/ i = 4
    BY <2>2
  <2>7. QED
    BY <1>2, <2>2, <2>3, <2>5, <2>6 DEF Shape
<1>3. CASE k = "Fill"
  <2>1. p = <<"resolve", "fill">>
    BY <1>3, Programs
  <2>2. p \in Seq(Steps) /\ Len(p) = 2
    BY <2>1 DEF Steps, Evaluates, OnElement, ByFrame
  <2>3. p[1] = "resolve" /\ p[2] = "fill"
    BY <2>1
  <2>4. Earlier(p, 2, Finds)
    BY <2>3 DEF Earlier, Finds
  <2>5. ShapeAt(k, p, 1) /\ ShapeAt(k, p, 2)
    BY <1>3, <2>2, <2>3, <2>4 DEF ShapeAt, OnElement, ByFrame, Finds
  <2>6. \A i \in 1..Len(p) : i = 1 \/ i = 2
    BY <2>2
  <2>7. QED
    BY <1>3, <2>2, <2>3, <2>5, <2>6 DEF Shape
<1>4. CASE k = "Type"
  <2>1. p = <<"resolve", "focus", "text">>
    BY <1>4, Programs
  <2>2. p \in Seq(Steps) /\ Len(p) = 3
    BY <2>1 DEF Steps, Evaluates, OnElement, ByFrame
  <2>3. p[1] = "resolve" /\ p[2] = "focus" /\ p[3] = "text"
    BY <2>1
  <2>4. Earlier(p, 2, Finds) /\ Earlier(p, 3, {"focus"})
    BY <2>3 DEF Earlier, Finds
  <2>5. ShapeAt(k, p, 1) /\ ShapeAt(k, p, 2) /\ ShapeAt(k, p, 3)
    BY <1>4, <2>2, <2>3, <2>4 DEF ShapeAt, OnElement, ByFrame, Finds
  <2>6. \A i \in 1..Len(p) : i = 1 \/ i = 2 \/ i = 3
    BY <2>2
  <2>7. QED
    BY <1>4, <2>2, <2>3, <2>5, <2>6 DEF Shape
<1>5. CASE k = "Check"
  <2>1. p = <<"resolve", "checked", "scroll", "quads", "move", "down", "up">>
    BY <1>5, Programs
  <2>2. p \in Seq(Steps) /\ Len(p) = 7
    BY <2>1 DEF Steps, Evaluates, OnElement, ByFrame
  <2>3. p[1] = "resolve" /\ p[2] = "checked" /\ p[3] = "scroll" /\ p[4] = "quads"
          /\ p[5] = "move" /\ p[6] = "down" /\ p[7] = "up"
    BY <2>1
  <2>4. Earlier(p, 2, Finds) /\ Earlier(p, 3, Finds) /\ Earlier(p, 4, Finds)
          /\ Earlier(p, 6, {"scroll"}) /\ Earlier(p, 6, {"quads"})
          /\ Earlier(p, 7, {"scroll"}) /\ Earlier(p, 7, {"quads"})
          /\ Earlier(p, 7, {"down"}) /\ Earlier(p, 7, {"checked"})
    BY <2>3 DEF Earlier, Finds
  <2>5. ShapeAt(k, p, 1) /\ ShapeAt(k, p, 2) /\ ShapeAt(k, p, 3) /\ ShapeAt(k, p, 4)
          /\ ShapeAt(k, p, 5) /\ ShapeAt(k, p, 6) /\ ShapeAt(k, p, 7)
    BY <1>5, <2>2, <2>3, <2>4 DEF ShapeAt, OnElement, ByFrame, Finds
  <2>6. \A i \in 1..Len(p) : i = 1 \/ i = 2 \/ i = 3 \/ i = 4 \/ i = 5 \/ i = 6 \/ i = 7
    BY <2>2
  <2>7. QED
    BY <1>5, <2>2, <2>3, <2>5, <2>6, <2>4 DEF Shape
<1>6. CASE k = "Uncheck"
  <2>1. p = <<"resolve", "checked", "scroll", "quads", "move", "down", "up">>
    BY <1>6, Programs
  <2>2. p \in Seq(Steps) /\ Len(p) = 7
    BY <2>1 DEF Steps, Evaluates, OnElement, ByFrame
  <2>3. p[1] = "resolve" /\ p[2] = "checked" /\ p[3] = "scroll" /\ p[4] = "quads"
          /\ p[5] = "move" /\ p[6] = "down" /\ p[7] = "up"
    BY <2>1
  <2>4. Earlier(p, 2, Finds) /\ Earlier(p, 3, Finds) /\ Earlier(p, 4, Finds)
          /\ Earlier(p, 6, {"scroll"}) /\ Earlier(p, 6, {"quads"})
          /\ Earlier(p, 7, {"scroll"}) /\ Earlier(p, 7, {"quads"})
          /\ Earlier(p, 7, {"down"}) /\ Earlier(p, 7, {"checked"})
    BY <2>3 DEF Earlier, Finds
  <2>5. ShapeAt(k, p, 1) /\ ShapeAt(k, p, 2) /\ ShapeAt(k, p, 3) /\ ShapeAt(k, p, 4)
          /\ ShapeAt(k, p, 5) /\ ShapeAt(k, p, 6) /\ ShapeAt(k, p, 7)
    BY <1>6, <2>2, <2>3, <2>4 DEF ShapeAt, OnElement, ByFrame, Finds
  <2>6. \A i \in 1..Len(p) : i = 1 \/ i = 2 \/ i = 3 \/ i = 4 \/ i = 5 \/ i = 6 \/ i = 7
    BY <2>2
  <2>7. QED
    BY <1>6, <2>2, <2>3, <2>5, <2>6, <2>4 DEF Shape
<1>7. CASE k = "GetAttribute"
  <2>1. p = <<"resolve", "read">>
    BY <1>7, Programs
  <2>2. p \in Seq(Steps) /\ Len(p) = 2
    BY <2>1 DEF Steps, Evaluates, OnElement, ByFrame
  <2>3. p[1] = "resolve" /\ p[2] = "read"
    BY <2>1
  <2>4. Earlier(p, 2, Finds)
    BY <2>3 DEF Earlier, Finds
  <2>5. ShapeAt(k, p, 1) /\ ShapeAt(k, p, 2)
    BY <1>7, <2>2, <2>3, <2>4 DEF ShapeAt, OnElement, ByFrame, Finds
  <2>6. \A i \in 1..Len(p) : i = 1 \/ i = 2
    BY <2>2
  <2>7. QED
    BY <1>7, <2>2, <2>3, <2>5, <2>6 DEF Shape
<1>8. CASE k = "BoundingBox"
  <2>1. p = <<"resolve", "quads">>
    BY <1>8, Programs
  <2>2. p \in Seq(Steps) /\ Len(p) = 2
    BY <2>1 DEF Steps, Evaluates, OnElement, ByFrame
  <2>3. p[1] = "resolve" /\ p[2] = "quads"
    BY <2>1
  <2>4. Earlier(p, 2, Finds)
    BY <2>3 DEF Earlier, Finds
  <2>5. ShapeAt(k, p, 1) /\ ShapeAt(k, p, 2)
    BY <1>8, <2>2, <2>3, <2>4 DEF ShapeAt, OnElement, ByFrame, Finds
  <2>6. \A i \in 1..Len(p) : i = 1 \/ i = 2
    BY <2>2
  <2>7. QED
    BY <1>8, <2>2, <2>3, <2>5, <2>6 DEF Shape
<1>9. CASE k = "SetInputFiles"
  <2>1. p = <<"resolve", "files">>
    BY <1>9, Programs
  <2>2. p \in Seq(Steps) /\ Len(p) = 2
    BY <2>1 DEF Steps, Evaluates, OnElement, ByFrame
  <2>3. p[1] = "resolve" /\ p[2] = "files"
    BY <2>1
  <2>4. Earlier(p, 2, Finds)
    BY <2>3 DEF Earlier, Finds
  <2>5. ShapeAt(k, p, 1) /\ ShapeAt(k, p, 2)
    BY <1>9, <2>2, <2>3, <2>4 DEF ShapeAt, OnElement, ByFrame, Finds
  <2>6. \A i \in 1..Len(p) : i = 1 \/ i = 2
    BY <2>2
  <2>7. QED
    BY <1>9, <2>2, <2>3, <2>5, <2>6 DEF Shape
<1>10. CASE k = "Screenshot"
  <2>1. p = <<"resolve", "scroll", "quads", "shot">>
    BY <1>10, Programs
  <2>2. p \in Seq(Steps) /\ Len(p) = 4
    BY <2>1 DEF Steps, Evaluates, OnElement, ByFrame
  <2>3. p[1] = "resolve" /\ p[2] = "scroll" /\ p[3] = "quads" /\ p[4] = "shot"
    BY <2>1
  <2>4. Earlier(p, 2, Finds) /\ Earlier(p, 3, Finds)
    BY <2>3 DEF Earlier, Finds
  <2>5. ShapeAt(k, p, 1) /\ ShapeAt(k, p, 2) /\ ShapeAt(k, p, 3) /\ ShapeAt(k, p, 4)
    BY <1>10, <2>2, <2>3, <2>4 DEF ShapeAt, OnElement, ByFrame, Finds
  <2>6. \A i \in 1..Len(p) : i = 1 \/ i = 2 \/ i = 3 \/ i = 4
    BY <2>2
  <2>7. QED
    BY <1>10, <2>2, <2>3, <2>5, <2>6 DEF Shape
<1>11. CASE k = "Press"
  <2>1. p = <<"resolve", "focus", "keydown", "keyup">>
    BY <1>11, Programs
  <2>2. p \in Seq(Steps) /\ Len(p) = 4
    BY <2>1 DEF Steps, Evaluates, OnElement, ByFrame
  <2>3. p[1] = "resolve" /\ p[2] = "focus" /\ p[3] = "keydown" /\ p[4] = "keyup"
    BY <2>1
  <2>4. Earlier(p, 2, Finds) /\ Earlier(p, 3, {"focus"}) /\ Earlier(p, 4, {"focus"})
          /\ Earlier(p, 4, {"keydown"})
    BY <2>3 DEF Earlier, Finds
  <2>5. ShapeAt(k, p, 1) /\ ShapeAt(k, p, 2) /\ ShapeAt(k, p, 3) /\ ShapeAt(k, p, 4)
    BY <1>11, <2>2, <2>3, <2>4 DEF ShapeAt, OnElement, ByFrame, Finds
  <2>6. \A i \in 1..Len(p) : i = 1 \/ i = 2 \/ i = 3 \/ i = 4
    BY <2>2
  <2>7. QED
    BY <1>11, <2>2, <2>3, <2>5, <2>6 DEF Shape
<1>12. CASE k = "Evaluate"
  <2>1. p = <<"evaluate">>
    BY <1>12, Programs
  <2>2. p \in Seq(Steps) /\ Len(p) = 1
    BY <2>1 DEF Steps, Evaluates, OnElement, ByFrame
  <2>3. p[1] = "evaluate"
    BY <2>1
  <2>5. ShapeAt(k, p, 1)
    BY <1>12, <2>2, <2>3 DEF ShapeAt, OnElement, ByFrame, Finds
  <2>6. \A i \in 1..Len(p) : i = 1
    BY <2>2
  <2>7. QED
    BY <1>12, <2>2, <2>3, <2>5, <2>6 DEF Shape
<1>13. CASE k = "PageShot"
  <2>1. p = <<"evaluate", "shot">>
    BY <1>13, Programs
  <2>2. p \in Seq(Steps) /\ Len(p) = 2
    BY <2>1 DEF Steps, Evaluates, OnElement, ByFrame
  <2>3. p[1] = "evaluate" /\ p[2] = "shot"
    BY <2>1
  <2>5. ShapeAt(k, p, 1) /\ ShapeAt(k, p, 2)
    BY <1>13, <2>2, <2>3 DEF ShapeAt, OnElement, ByFrame, Finds
  <2>6. \A i \in 1..Len(p) : i = 1 \/ i = 2
    BY <2>2
  <2>7. QED
    BY <1>13, <2>2, <2>3, <2>5, <2>6 DEF Shape
<1>14. CASE k = "SetStorage"
  <2>1. p = <<"evaluate", "evaluate">>
    BY <1>14, Programs
  <2>2. p \in Seq(Steps) /\ Len(p) = 2
    BY <2>1 DEF Steps, Evaluates, OnElement, ByFrame
  <2>3. p[1] = "evaluate" /\ p[2] = "evaluate"
    BY <2>1
  <2>5. ShapeAt(k, p, 1) /\ ShapeAt(k, p, 2)
    BY <1>14, <2>2, <2>3 DEF ShapeAt, OnElement, ByFrame, Finds
  <2>6. \A i \in 1..Len(p) : i = 1 \/ i = 2
    BY <2>2
  <2>7. QED
    BY <1>14, <2>2, <2>3, <2>5, <2>6 DEF Shape
<1>15. CASE k = "WaitForSelector"
  <2>1. p = <<"poll">>
    BY <1>15, Programs
  <2>2. p \in Seq(Steps) /\ Len(p) = 1
    BY <2>1 DEF Steps, Evaluates, OnElement, ByFrame
  <2>3. p[1] = "poll"
    BY <2>1
  <2>5. ShapeAt(k, p, 1)
    BY <1>15, <2>2, <2>3 DEF ShapeAt, OnElement, ByFrame, Finds
  <2>6. \A i \in 1..Len(p) : i = 1
    BY <2>2
  <2>7. QED
    BY <1>15, <2>2, <2>3, <2>5, <2>6 DEF Shape
<1>16. CASE k = "IsVisible"
  <2>1. p = <<"look", "read">>
    BY <1>16, Programs
  <2>2. p \in Seq(Steps) /\ Len(p) = 2
    BY <2>1 DEF Steps, Evaluates, OnElement, ByFrame
  <2>3. p[1] = "look" /\ p[2] = "read"
    BY <2>1
  <2>4. Earlier(p, 2, Finds)
    BY <2>3 DEF Earlier, Finds
  <2>5. ShapeAt(k, p, 1) /\ ShapeAt(k, p, 2)
    BY <1>16, <2>2, <2>3, <2>4 DEF ShapeAt, OnElement, ByFrame, Finds
  <2>6. \A i \in 1..Len(p) : i = 1 \/ i = 2
    BY <2>2
  <2>7. QED
    BY <1>16, <2>2, <2>3, <2>5, <2>6 DEF Shape
<1>17. CASE k = "FrameBox"
  <2>1. p = <<"findFrame", "adopt", "quads">>
    BY <1>17, Programs
  <2>2. p \in Seq(Steps) /\ Len(p) = 3
    BY <2>1 DEF Steps, Evaluates, OnElement, ByFrame
  <2>3. p[1] = "findFrame" /\ p[2] = "adopt" /\ p[3] = "quads"
    BY <2>1
  <2>4. Earlier(p, 2, Finds) /\ Earlier(p, 2, {"findFrame"}) /\ Earlier(p, 3, Finds)
    BY <2>3 DEF Earlier, Finds
  <2>5. ShapeAt(k, p, 1) /\ ShapeAt(k, p, 2) /\ ShapeAt(k, p, 3)
    BY <1>17, <2>2, <2>3, <2>4 DEF ShapeAt, OnElement, ByFrame, Finds
  <2>6. \A i \in 1..Len(p) : i = 1 \/ i = 2 \/ i = 3
    BY <2>2
  <2>7. QED
    BY <1>17, <2>2, <2>3, <2>5, <2>6 DEF Shape
<1> QED
  BY <1>1, <1>2, <1>3, <1>4, <1>5, <1>6, <1>7, <1>8, <1>9, <1>10, <1>11, <1>12, <1>13,
     <1>14, <1>15, <1>16, <1>17, KindsAre
-----------------------------------------------------------------------------
(* Types.  The first message is the main frame's, so that no other frame   *)
(* is taken for it; a context is of the frame its message names; a running *)
(* operation is at a step of its program.                                  *)
FirstInv ==
  /\ page.mainFrameID = None => wire # <<>> /\ wire[1] = Event("attached", Main)
  /\ \A i \in 1..Len(wire) : wire[i].t = "context" => wire[i].c.frame = wire[i].f
AtInv ==
  \A o \in Ops :
    /\ op[o].phase # "idle" => /\ op[o].prog \in Kinds
                               /\ op[o].at \in 1..Len(Program(op[o].prog))
    /\ op[o].phase = "answered" => op[o].saw \in Box
TypesInv == TypeOK /\ FirstInv /\ AtInv

LEMMA MessagesAre ==
  /\ \A d \in Docs : \A w \in {"main", "isolated"} :
       /\ MainCtx(d, w) \in Message
       /\ MainCtx(d, w).t = "context" /\ MainCtx(d, w).f = Main
       /\ MainCtx(d, w).c = [frame |-> Main, doc |-> d, world |-> w]
  /\ \A d \in Docs : /\ ChildCtx(d) \in Message
                     /\ ChildCtx(d).t = "context" /\ ChildCtx(d).f = d
                     /\ ChildCtx(d).c = [frame |-> d, doc |-> d, world |-> "main"]
  /\ \A t \in {"attached", "committed", "detached"}, f \in Frames :
       /\ Event(t, f) \in Message
       /\ Event(t, f).t = t /\ Event(t, f).f = f
<1>1. Docs \subseteq Frames /\ Main \in Frames
  BY DEF Docs, Frames
<1>2. QED
  BY <1>1 DEF MainCtx, ChildCtx, Event, Message, Ctx

LEMMA MessageIs ==
  ASSUME NEW m \in Message
  PROVE  /\ m.t \in {"context", "attached", "committed", "detached", "reply"}
         /\ m.t = "context" => m.f \in Frames /\ m.c \in Ctx
         /\ m.t \in {"attached", "committed", "detached"}
              => m = Event(m.t, m.f) /\ m.f \in Frames
         /\ m.t = "reply" => /\ m.o \in Ops /\ m.ok \in BOOLEAN /\ m.yes \in BOOLEAN
                             /\ m.saw \in Box
BY DEF Message, Event

(* What a handler makes of the page. *)
LEMMA SignalIs ==
  ASSUME NEW p \in PageState
  PROVE  /\ Signal(p) \in PageState
         /\ Signal(p).mainFrameID = p.mainFrameID /\ Signal(p).execCtx = p.execCtx
         /\ Signal(p).frames = p.frames /\ Signal(p).frameCtx = p.frameCtx
         /\ Signal(p).ready => p.ready \/ p.execCtx # None
BY DEF Signal, PageState

LEMMA ContextIs ==
  ASSUME page \in PageState, page.mainFrameID = Main, NEW m, m.f \in Frames, m.c \in Ctx
  PROVE  LET p == OnExecCtxCreated(m) IN
         /\ p \in PageState /\ p.mainFrameID = Main /\ p.frames = page.frames
         /\ p.frameCtx = IF m.c.world = "main" THEN [page.frameCtx EXCEPT ![m.f] = m.c]
                         ELSE page.frameCtx
         /\ p.execCtx = IF m.c.world = "main" /\ m.f = Main THEN m.c ELSE page.execCtx
         /\ p.ready => page.ready \/ p.execCtx # None
<1> DEFINE new == IF m.c.world = "main"
            THEN [page EXCEPT !.mainFrameID = Main, !.frameCtx[m.f] = m.c,
                    !.execCtx = IF m.f = Main THEN m.c ELSE @]
            ELSE [page EXCEPT !.mainFrameID = Main]
<1>1. OnExecCtxCreated(m) = Signal(new)
  BY NoneAssumption DEF OnExecCtxCreated
<1>2. /\ new \in PageState /\ new.mainFrameID = Main /\ new.frames = page.frames
      /\ new.frameCtx = IF m.c.world = "main" THEN [page.frameCtx EXCEPT ![m.f] = m.c]
                        ELSE page.frameCtx
      /\ new.execCtx = IF m.c.world = "main" /\ m.f = Main THEN m.c ELSE page.execCtx
      /\ new.ready = page.ready
  BY DEF PageState
<1> HIDE DEF new
<1>3. QED
  BY <1>1, <1>2, SignalIs

LEMMA AttachedIs ==
  ASSUME page \in PageState, NEW m, m.f \in Frames
  PROVE  LET p == OnFrameAttached(m) IN
         /\ p \in PageState /\ p.frames = [page.frames EXCEPT ![m.f] = "attached"]
         /\ p.mainFrameID = IF m.f = Main THEN Main ELSE page.mainFrameID
         /\ p.frameCtx = page.frameCtx /\ p.execCtx = page.execCtx
         /\ p.ready => page.ready \/ page.execCtx # None
<1> DEFINE new == [page EXCEPT !.frames[m.f] = "attached",
                     !.mainFrameID = IF m.f = Main /\ @ = None THEN Main ELSE @]
<1>1. OnFrameAttached(m) = Signal(new)
  BY DEF OnFrameAttached
<1>2. /\ new \in PageState /\ new.frames = [page.frames EXCEPT ![m.f] = "attached"]
      /\ new.mainFrameID = IF m.f = Main THEN Main ELSE page.mainFrameID
      /\ new.frameCtx = page.frameCtx /\ new.execCtx = page.execCtx
      /\ new.ready = page.ready
  BY DEF PageState
<1> HIDE DEF new
<1>3. QED
  BY <1>1, <1>2, SignalIs

LEMMA DetachedIs ==
  ASSUME page \in PageState, NEW m, m.f \in Frames
  PROVE  LET p == OnFrameDetached(m) IN
         /\ p \in PageState /\ p.frames = [page.frames EXCEPT ![m.f] = "unknown"]
         /\ p.frameCtx = [page.frameCtx EXCEPT ![m.f] = None]
         /\ p.mainFrameID = page.mainFrameID /\ p.execCtx = page.execCtx
         /\ p.ready = page.ready
BY DEF PageState, OnFrameDetached

LEMMA CommittedIs ==
  ASSUME page \in PageState, NEW m, m.f \in Frames
  PROVE  LET p == OnCommitted(m) IN
         /\ p \in PageState /\ p.frames = [page.frames EXCEPT ![m.f] = "committed"]
         /\ p.frameCtx = page.frameCtx
         /\ p.mainFrameID = page.mainFrameID /\ p.execCtx = page.execCtx
         /\ p.ready = page.ready
BY DEF PageState, OnCommitted

-----------------------------------------------------------------------------
(* What a step does to the pipe: readLoop takes the first message, the     *)
(* browser appends some, whose kinds are known.                            *)
LEMMA TakenIs ==
  ASSUME TypeOK, wire # <<>>, wire' = Tail(wire)
  PROVE  /\ wire' \in Seq(Message) /\ wire[1] \in Message /\ Head(wire) = wire[1]
         /\ Len(wire) \in Nat /\ 1 \in 1..Len(wire) /\ Len(wire') = Len(wire) - 1
         /\ \A i \in 1..Len(wire') : i+1 \in 1..Len(wire) /\ wire'[i] = wire[i+1]
         /\ \A i \in 1..Len(wire) :
              i = 1 \/ (i-1 \in 1..Len(wire') /\ wire'[i-1] = wire[i])
<1>1. /\ wire' \in Seq(Message) /\ wire[1] \in Message /\ Head(wire) = wire[1]
      /\ Len(wire) \in Nat /\ 1 \in 1..Len(wire) /\ Len(wire') = Len(wire) - 1
      /\ \A i \in 1..Len(wire') : i+1 \in 1..Len(wire) /\ wire'[i] = wire[i+1]
  BY DEF TypeOK
<1>2. ASSUME NEW i \in 1..Len(wire), i # 1
      PROVE  i-1 \in 1..Len(wire') /\ wire'[i-1] = wire[i]
  <2>1. i-1 \in 1..Len(wire') /\ (i-1)+1 = i
    BY <1>1, <1>2
  <2>2. QED
    BY <1>1, <2>1
<1>3. QED
  BY <1>1, <1>2

Grown(s) ==
  /\ wire' \in Seq(Message) /\ Len(wire') = Len(wire) + Len(s)
  /\ Len(wire) \in Nat /\ Len(s) \in Nat
  /\ \A i \in 1..Len(wire) : i \in 1..Len(wire') /\ wire'[i] = wire[i]
  /\ \A i \in 1..Len(wire') :
       i \in 1..Len(wire) \/ \E k \in 1..Len(s) : i = Len(wire) + k /\ wire'[i] = s[k]
  /\ \A k \in 1..Len(s) : /\ Len(wire) + k \in 1..Len(wire')
                          /\ wire'[Len(wire) + k] = s[k]
                          /\ Len(wire) + k > Len(wire)
LEMMA GrownIs ==
  ASSUME TypeOK, NEW s \in Seq(Message), wire' = wire \o s
  PROVE  Grown(s)
<1>1. /\ wire' \in Seq(Message) /\ Len(wire') = Len(wire) + Len(s)
      /\ Len(wire) \in Nat /\ Len(s) \in Nat
      /\ \A i \in 1..(Len(wire) + Len(s)) :
           wire'[i] = IF i <= Len(wire) THEN wire[i] ELSE s[i - Len(wire)]
  BY ConcatProperties DEF TypeOK
<1>2. \A i \in 1..Len(wire) : i \in 1..Len(wire') /\ wire'[i] = wire[i]
  BY <1>1
<1>3. ASSUME NEW i \in 1..Len(wire'), i \notin 1..Len(wire)
      PROVE  \E k \in 1..Len(s) : i = Len(wire) + k /\ wire'[i] = s[k]
  <2>1. i - Len(wire) \in 1..Len(s) /\ i = Len(wire) + (i - Len(wire))
    BY <1>1, <1>3
  <2>2. wire'[i] = s[i - Len(wire)]
    BY <1>1, <1>3
  <2>3. QED
    BY <2>1, <2>2
<1>4. ASSUME NEW k \in 1..Len(s)
      PROVE  /\ Len(wire) + k \in 1..Len(wire') /\ wire'[Len(wire) + k] = s[k]
             /\ Len(wire) + k > Len(wire)
  <2>1. Len(wire) + k \in 1..Len(wire') /\ (Len(wire) + k) - Len(wire) = k
        /\ ~(Len(wire) + k <= Len(wire))
    BY <1>1
  <2>2. QED
    BY <1>1, <2>1
<1>5. QED
  BY <1>1, <1>2, <1>3, <1>4 DEF Grown

LEMMA AppendIs ==
  ASSUME TypeOK, NEW m \in Message, wire' = Append(wire, m)
  PROVE  Grown(<<m>>)
<1>1. wire' = wire \o <<m>>
  BY AppendIsConcat DEF TypeOK
<1>2. <<m>> \in Seq(Message)
  OBVIOUS
<1>3. QED
  BY <1>1, <1>2, GrownIs

(* The documents and frames the browser's messages are about. *)
LEMMA DocsAre == /\ Docs \subseteq Frames /\ Main \in Frames /\ Main \notin Docs
                 /\ 1 \in Docs
BY PageAssumption DEF Docs, Frames, Main

NavigateSays(s) ==
  /\ s \in Seq(Message) /\ Grown(s)
  /\ web'.doc \in Docs /\ web'.doc # web.doc /\ web'.child = "never"
  /\ \E k \in 1..Len(s) : s[k] = MainCtx(web'.doc, "main")
  /\ \A k \in 1..Len(s) :
       /\ s[k].t = "context" => \E w \in {"main", "isolated"} :
            s[k] = MainCtx(web'.doc, w)
       /\ s[k].t # "context" => \/ s[k] = Event("committed", Main)
                                \/ s[k] = Event("detached", web.doc)
  /\ web.child = "attached" => \E k \in 1..Len(s) : s[k] = Event("detached", web.doc)
LEMMA NavigateIs == ASSUME TypeOK, Navigate PROVE \E s : NavigateSays(s)
<1> DEFINE d == web.doc + 1
           a == MainCtx(d, "main")
           b == MainCtx(d, "isolated")
           c == Event("committed", Main)
           e == Event("detached", web.doc)
<1>1. /\ d \in Docs /\ web.doc \in Docs /\ d # web.doc /\ web'.doc = d
        /\ web'.child = "never"
  BY PageAssumption DEF Navigate, TypeOK, WebState, Docs
<1>2. a \in Message /\ b \in Message /\ c \in Message /\ e \in Message
  BY <1>1, MessagesAre, DocsAre
<1>3. PICK news \in {<<a, b, c>>, <<c, b, a>>} :
        wire' = wire \o (IF web.child = "attached" THEN <<e>> ELSE <<>>) \o news
  BY DEF Navigate
<1>n. news \in Seq(Message)
  <2>1. <<a, b, c>> \in Seq(Message) /\ <<c, b, a>> \in Seq(Message)
    BY <1>2
  <2>2. QED
    BY <2>1
<1>t. a.t = "context" /\ b.t = "context" /\ c.t # "context" /\ e.t # "context"
  BY DEF MainCtx, Event
<1>ab. /\ a = MainCtx(web'.doc, "main") /\ b = MainCtx(web'.doc, "isolated")
       /\ c = Event("committed", Main) /\ e = Event("detached", web.doc)
  BY <1>1
<1> HIDE DEF a, b, c, d, e
<1>4. PICK s \in {<<e, a, b, c>>, <<e, c, b, a>>, <<a, b, c>>, <<c, b, a>>} :
        /\ wire' = wire \o s /\ s \in Seq(Message)
        /\ web.child = "attached" => s[1] = e /\ Len(s) = 4
  <2>1. CASE web.child = "attached"
    <3>1. PICK s : s = <<e>> \o news
      OBVIOUS
    <3>2. /\ s \in Seq(Message) /\ news \in Seq(Message) /\ <<e>> \in Seq(Message)
          /\ wire \in Seq(Message)
      <4>1. news \in Seq(Message) /\ <<e>> \in Seq(Message) /\ wire \in Seq(Message)
        BY <1>2, <1>n DEF TypeOK
      <4>2. QED
        BY <3>1, <4>1
    <3>3. wire' = wire \o s
      BY <1>3, <2>1, <3>1, <3>2, ConcatAssociative
    <3>4. s \in {<<e, a, b, c>>, <<e, c, b, a>>}
      <4>1. CASE news = <<a, b, c>>
        <5>1. /\ Len(s) = 4 /\ s[1] = e /\ s[2] = a /\ s[3] = b /\ s[4] = c
          BY <3>1, <4>1
        <5>2. s = <<e, a, b, c>>
          <6> DEFINE t == <<e, a, b, c>>
          <6>1. t \in Seq(Message) /\ Len(t) = 4
            BY <1>2
          <6>2. \A i \in 1..Len(s) : s[i] = t[i]
            BY <5>1
          <6>3. QED
            BY <5>1, <6>1, <6>2, <3>2, SeqEqual
        <5>3. QED
          BY <5>2
      <4>2. CASE news = <<c, b, a>>
        <5>1. /\ Len(s) = 4 /\ s[1] = e /\ s[2] = c /\ s[3] = b /\ s[4] = a
          BY <3>1, <4>2
        <5>2. s = <<e, c, b, a>>
          <6> DEFINE t == <<e, c, b, a>>
          <6>1. t \in Seq(Message) /\ Len(t) = 4
            BY <1>2
          <6>2. \A i \in 1..Len(s) : s[i] = t[i]
            BY <5>1
          <6>3. QED
            BY <5>1, <6>1, <6>2, <3>2, SeqEqual
        <5>3. QED
          BY <5>2
      <4>3. QED
        BY <4>1, <4>2
    <3>5. s[1] = e /\ Len(s) = 4
      BY <3>4
    <3>6. QED
      BY <3>2, <3>3, <3>4, <3>5
  <2>2. CASE web.child # "attached"
    <3>1. wire' = wire \o news
      <4>1. wire' = (wire \o <<>>) \o news
        BY <1>3, <2>2
      <4>2. wire \o <<>> = wire
        BY ConcatEmptySeq DEF TypeOK
      <4>3. QED
        BY <4>1, <4>2
    <3>2. QED
      BY <1>n, <2>2, <3>1
  <2>3. QED
    BY <2>1, <2>2
<1>5. /\ \E k \in 1..Len(s) : s[k] = a
      /\ \A k \in 1..Len(s) : s[k] \in {a, b, c, e}
      /\ web.child = "attached" => \E k \in 1..Len(s) : s[k] = e
  <2>1. CASE s = <<e, a, b, c>>
    <3>1. /\ Len(s) = 4 /\ s[1] = e /\ s[2] = a /\ s[3] = b /\ s[4] = c
      BY <2>1
    <3>2. QED
      BY <3>1
  <2>2. CASE s = <<e, c, b, a>>
    <3>1. /\ Len(s) = 4 /\ s[1] = e /\ s[2] = c /\ s[3] = b /\ s[4] = a
      BY <2>2
    <3>2. QED
      BY <3>1
  <2>3. CASE s = <<a, b, c>>
    <3>1. /\ Len(s) = 3 /\ s[1] = a /\ s[2] = b /\ s[3] = c
      BY <2>3
    <3>2. QED
      BY <1>4, <3>1
  <2>4. CASE s = <<c, b, a>>
    <3>1. /\ Len(s) = 3 /\ s[1] = c /\ s[2] = b /\ s[3] = a
      BY <2>4
    <3>2. QED
      BY <1>4, <3>1
  <2>5. QED
    BY <2>1, <2>2, <2>3, <2>4
<1>6. Grown(s)
  BY <1>4, GrownIs
<1>7. QED
  BY <1>1, <1>4, <1>5, <1>6, <1>t, <1>ab DEF NavigateSays

AttachSays(s) ==
  /\ s \in Seq(Message) /\ Grown(s) /\ Len(s) = 3
  /\ s[1] = Event("attached", web.doc) /\ s[2] = ChildCtx(web.doc)
  /\ s[3] = Event("committed", web.doc)
LEMMA AttachIs == ASSUME TypeOK, AttachChild PROVE \E s : AttachSays(s)
<1> DEFINE s == <<Event("attached", web.doc), ChildCtx(web.doc),
        Event("committed", web.doc)>>
<1>1. web.doc \in Docs
  BY DEF TypeOK, WebState
<1>2. /\ Event("attached", web.doc) \in Message /\ ChildCtx(web.doc) \in Message
      /\ Event("committed", web.doc) \in Message
  BY <1>1, MessagesAre, DocsAre
<1>3. s \in Seq(Message)
  BY <1>2
<1>4. wire' = wire \o s
  BY DEF AttachChild
<1>5. Len(s) = 3 /\ s[1] = Event("attached", web.doc) /\ s[2] = ChildCtx(web.doc)
      /\ s[3] = Event("committed", web.doc)
  OBVIOUS
<1> HIDE DEF s
<1>6. QED
  BY <1>3, <1>4, <1>5, GrownIs DEF AttachSays

LEMMA DetachIs == ASSUME TypeOK, DetachChild PROVE Grown(<<Event("detached", web.doc)>>)
<1>1. Event("detached", web.doc) \in Message
  BY MessagesAre, DocsAre DEF TypeOK, WebState
<1>2. QED
  BY <1>1, AppendIs DEF DetachChild

ReplyTo(o) == [t |-> "reply", o |-> o, ok |-> Serves(req[o]), yes |-> Says(req[o]),
        saw |-> Here]
LEMMA ReplyIs ==
  ASSUME TypeOK, NEW o \in Ops, Serve(o)
  PROVE  /\ ReplyTo(o) \in Message /\ Grown(<<ReplyTo(o)>>)
         /\ ReplyTo(o).t = "reply" /\ ReplyTo(o).o = o /\ ReplyTo(o).ok = Serves(req[o])
         /\ ReplyTo(o).yes = Says(req[o]) /\ ReplyTo(o).saw = Here
<1>1. Here \in Box
  BY DEF Here, Box, TypeOK, WebState
<1>2. Serves(req[o]) \in BOOLEAN /\ Says(req[o]) \in BOOLEAN
  BY DEF Serves, Says, TypeOK, WebState, Live
<1>3. ReplyTo(o) \in Message
  BY <1>1, <1>2 DEF ReplyTo, Message
<1>4. wire' = Append(wire, ReplyTo(o))
  BY DEF Serve, ReplyTo
<1>5. QED
  BY <1>3, <1>4, AppendIs DEF ReplyTo

RefusalOf(o) == [t |-> "reply", o |-> o, ok |-> FALSE, yes |-> Says(req[o]),
        saw |-> Here]
LEMMA RefusalIs ==
  ASSUME TypeOK, NEW o \in Ops, Refuse(o)
  PROVE  Grown(<<RefusalOf(o)>>) /\ RefusalOf(o).t = "reply" /\ RefusalOf(o).o = o
<1>1. Here \in Box /\ Says(req[o]) \in BOOLEAN
  BY DEF Here, Box, Says, TypeOK, WebState
<1>2. RefusalOf(o) \in Message
  BY <1>1 DEF RefusalOf, Message
<1>3. wire' = Append(wire, RefusalOf(o))
  BY DEF Refuse, RefusalOf
<1>4. QED
  BY <1>2, <1>3, AppendIs DEF RefusalOf

-----------------------------------------------------------------------------
(* What a step does to the operations, the document and the page *)
Begun(r, n, b) == [r EXCEPT !.at = n, !.phase = "go", !.disturbed = b]
Ended(r, how, b) == [r EXCEPT !.phase = "done", !.result = how, !.good = b,
        !.saw = None,
                       !.box = None, !.ok = FALSE, !.yes = FALSE]
Gone(r, n, d, x) == [r EXCEPT !.at = n, !.phase = "go", !.saw = None, !.ok = FALSE,
                       !.yes = FALSE, !.obj = d, !.box = x]
Told(r, a, b, x) == [r EXCEPT !.phase = "answered", !.ok = a, !.yes = b, !.saw = x]

LEMMA BegunIs ==
  \A r \in Operation, n \in 0..7, b \in BOOLEAN :
    LET s == Begun(r, n, b) IN
    /\ s \in Operation /\ s.prog = r.prog /\ s.at = n /\ s.phase = "go"
    /\ s.disturbed = b /\ s.result = r.result
<1> SUFFICES ASSUME NEW r \in Operation, NEW n \in 0..7, NEW b \in BOOLEAN
             PROVE  LET s == Begun(r, n, b) IN
                  /\ s \in Operation /\ s.prog = r.prog /\ s.at = n /\ s.phase = "go"
                  /\ s.disturbed = b /\ s.result = r.result
  OBVIOUS
<1>1. Begun(r, n, b) \in Operation
  BY DEF Operation, Begun
<1>2. QED
  BY <1>1 DEF Operation, Begun
LEMMA EndedIs ==
  \A r \in Operation, how \in {"ok", "error", "timeout"}, b \in BOOLEAN :
    LET s == Ended(r, how, b) IN
    /\ s \in Operation /\ s.prog = r.prog /\ s.at = r.at /\ s.phase = "done"
    /\ s.disturbed = r.disturbed /\ s.result = how /\ s.good = b
<1> SUFFICES ASSUME NEW r \in Operation, NEW how \in {"ok", "error", "timeout"},
                    NEW b \in BOOLEAN
             PROVE  LET s == Ended(r, how, b) IN
                  /\ s \in Operation /\ s.prog = r.prog /\ s.at = r.at
                       /\ s.phase = "done"
                  /\ s.disturbed = r.disturbed /\ s.result = how /\ s.good = b
  OBVIOUS
<1>1. Ended(r, how, b) \in Operation
  BY DEF Operation, Ended
<1>2. QED
  BY <1>1 DEF Operation, Ended
GoneSays(r, n, d, x, s) ==
  /\ s \in Operation /\ s.prog = r.prog /\ s.at = n /\ s.phase = "go"
  /\ s.disturbed = r.disturbed /\ s.landed = r.landed /\ s.result = r.result
  /\ s.obj = d /\ s.box = x
LEMMA GoneIs ==
  \A r \in Operation, n \in 0..7, d \in Docs \cup {None}, x \in Box \cup {None} :
    GoneSays(r, n, d, x, Gone(r, n, d, x))
<1> SUFFICES ASSUME NEW r \in Operation, NEW n \in 0..7, NEW d \in Docs \cup {None},
                    NEW x \in Box \cup {None}
             PROVE  GoneSays(r, n, d, x, Gone(r, n, d, x))
  OBVIOUS
<1>1. Gone(r, n, d, x) \in Operation
  BY DEF Operation, Gone
<1>2. QED
  BY <1>1 DEF Operation, Gone, GoneSays
LEMMA ToldIs ==
  \A r \in Operation, a \in BOOLEAN, b \in BOOLEAN, x \in Box :
    LET s == Told(r, a, b, x) IN
    /\ s \in Operation /\ s.prog = r.prog /\ s.at = r.at /\ s.phase = "answered"
    /\ s.disturbed = r.disturbed /\ s.landed = r.landed /\ s.result = r.result
    /\ s.obj = r.obj /\ s.box = r.box
    /\ s.ok = a /\ s.yes = b /\ s.saw = x
<1> SUFFICES ASSUME NEW r \in Operation, NEW a \in BOOLEAN, NEW b \in BOOLEAN,
                    NEW x \in Box
             PROVE  LET s == Told(r, a, b, x) IN
                  /\ s \in Operation /\ s.prog = r.prog /\ s.at = r.at
                       /\ s.phase = "answered"
                  /\ s.disturbed = r.disturbed /\ s.landed = r.landed
                       /\ s.result = r.result
                  /\ s.obj = r.obj /\ s.box = r.box
                  /\ s.ok = a /\ s.yes = b /\ s.saw = x
  OBVIOUS
<1>1. Told(r, a, b, x) \in Operation
  BY DEF Operation, Told
<1>2. QED
  BY <1>1 DEF Operation, Told

LEMMA StartIs ==
  ASSUME TypeOK, NEW o \in Ops, Start(o)
  PROVE  /\ op' \in [Ops -> Operation] /\ \A q \in Ops : q # o => op'[q] = op[q]
         /\ op[o].phase = "idle" /\ op[o].prog \in Kinds
         /\ op'[o].prog = op[o].prog /\ op'[o].at = 1 /\ op'[o].phase = "go"
         /\ op'[o].disturbed = Behind /\ op'[o].result = op[o].result
<1>t. op \in [Ops -> Operation] /\ op[o] \in Operation
  BY DEF TypeOK
<1>b. PICK b \in BOOLEAN : b = Behind
  BY DEF Behind
<1>n. PICK n \in 0..7 : n = 1
  OBVIOUS
<1>1. op' = [op EXCEPT ![o] = Begun(op[o], n, b)]
  BY <1>b, <1>n DEF Start, Begun
<1>2. op[o].phase = "idle" /\ op[o].prog \in Kinds
  BY <1>t DEF Start, Operation
<1>3. /\ Begun(op[o], n, b) \in Operation
      /\ Begun(op[o], n, b).prog = op[o].prog /\ Begun(op[o], n, b).at = 1
      /\ Begun(op[o], n, b).phase = "go" /\ Begun(op[o], n, b).disturbed = Behind
      /\ Begun(op[o], n, b).result = op[o].result
  BY <1>t, <1>b, <1>n, BegunIs
<1>4. QED
  BY <1>t, <1>1, <1>2, <1>3

LEMMA SendIs ==
  ASSUME TypeOK, AtInv, NEW o \in Ops, Send(o)
  PROVE  /\ op' \in [Ops -> Operation] /\ \A q \in Ops : q # o => op'[q] = op[q]
         /\ op[o].phase = "go" /\ op'[o] = [op[o] EXCEPT !.phase = "sent"]
         /\ req' \in [Ops -> Request \cup {None}] /\ \A q \in Ops : q # o
              => req'[q] = req[q]
         /\ req'[o] \in Request /\ req'[o].step = Step(o)
         /\ req'[o].obj = op[o].obj /\ req'[o].box = op[o].box
         /\ req'[o].ctx \in {page.execCtx, page.frameCtx[Main]}
<1> DEFINE new == [op[o] EXCEPT !.phase = "sent"]
           r == [step |-> Step(o), obj |-> op[o].obj, box |-> op[o].box,
                 ctx |-> IF Step(o) = "adopt" THEN page.frameCtx[Main] ELSE page.execCtx]
<1>t. op \in [Ops -> Operation] /\ op[o] \in Operation
  BY DEF TypeOK
<1>1. op' = [op EXCEPT ![o] = new] /\ req' = [req EXCEPT ![o] = r] /\ op[o].phase = "go"
  BY DEF Send
<1>2. new \in Operation
  BY <1>t DEF Operation
<1>3. Step(o) \in Steps
  BY <1>1, Shapes DEF Step, Shape, AtInv
<1>4. r \in Request
  BY <1>3, DocsAre DEF TypeOK, Operation, Request, PageState
<1>5. /\ r.step = Step(o) /\ r.obj = op[o].obj /\ r.box = op[o].box
      /\ r.ctx \in {page.execCtx, page.frameCtx[Main]}
  OBVIOUS
<1> HIDE DEF r
<1>6. /\ req' \in [Ops -> Request \cup {None}] /\ req'[o] = r
      /\ \A q \in Ops : q # o => req'[q] = req[q]
  BY <1>1, <1>4 DEF TypeOK
<1>7. /\ op' \in [Ops -> Operation] /\ op'[o] = new
      /\ \A q \in Ops : q # o => op'[q] = op[q]
  BY <1>1, <1>2 DEF TypeOK
<1>8. QED
  BY <1>1, <1>4, <1>5, <1>6, <1>7

LEMMA FinishIs ==
  ASSUME TypeOK, NEW o \in Ops, NEW how \in {"ok", "error", "timeout"},
         op' = Finish(o, how)
  PROVE  /\ op' \in [Ops -> Operation] /\ \A q \in Ops : q # o => op'[q] = op[q]
         /\ op'[o].prog = op[o].prog /\ op'[o].at = op[o].at /\ op'[o].phase = "done"
         /\ op'[o].disturbed = op[o].disturbed /\ op'[o].result = how
         /\ op'[o].good = IsGood(o)
<1>t. op \in [Ops -> Operation] /\ op[o] \in Operation
  BY DEF TypeOK
<1>g. IsGood(o) \in BOOLEAN
  BY <1>t DEF IsGood, Operation, Wants
<1>b. PICK b \in BOOLEAN : b = IsGood(o)
  BY <1>g
<1>1. op' = [op EXCEPT ![o] = Ended(op[o], how, b)]
  BY <1>b DEF Finish, Ended
<1>2. LET s == Ended(op[o], how, b) IN
      /\ s \in Operation /\ s.prog = op[o].prog /\ s.at = op[o].at /\ s.phase = "done"
      /\ s.disturbed = op[o].disturbed /\ s.result = how /\ s.good = b
  BY <1>t, EndedIs
<1> PICK s : s = Ended(op[o], how, b)
  OBVIOUS
<1>3. op' \in [Ops -> Operation] /\ op'[o] = s /\ \A q \in Ops : q # o => op'[q] = op[q]
  BY <1>t, <1>1, <1>2
<1>4. QED
  BY <1>b, <1>2, <1>3

LEMMA Following ==
  ASSUME NEW l \in 1..7, NEW n \in 1..l, n # l
  PROVE  n + 1 \in 1..l /\ n + 1 \in 0..7
OBVIOUS
LEMMA AdvanceGoes ==
  ASSUME NEW o \in Ops, op[o].at # Len(Program(op[o].prog)), NEW n, n = op[o].at + 1,
         NEW d, d = IF Step(o) \in {"resolve",
                 "look"} THEN op[o].saw.doc ELSE op[o].obj,
         NEW x, x = IF Step(o) = "quads" THEN op[o].saw ELSE op[o].box
  PROVE  Advance(o) = [op EXCEPT ![o] = Gone(op[o], n, d, x)]
BY DEF Advance, Gone

LEMMA AdvanceIs ==
  ASSUME TypeOK, AtInv, NEW o \in Ops, Running(o), op' = Advance(o),
         op[o].at # Len(Program(op[o].prog)),
         Step(o) \in {"resolve", "look", "quads"} => op[o].saw \in Box
  PROVE  /\ op' \in [Ops -> Operation] /\ \A q \in Ops : q # o => op'[q] = op[q]
         /\ op'[o].prog = op[o].prog /\ op'[o].at = op[o].at + 1 /\ op'[o].phase = "go"
         /\ op'[o].at \in 1..Len(Program(op[o].prog))
         /\ op'[o].disturbed = op[o].disturbed /\ op'[o].landed = op[o].landed
         /\ op'[o].result = op[o].result
         /\ op'[o].obj = IF Step(o) \in {"resolve",
              "look"} THEN op[o].saw.doc ELSE op[o].obj
         /\ op'[o].box = IF Step(o) = "quads" THEN op[o].saw ELSE op[o].box
<1>t. op \in [Ops -> Operation] /\ op[o] \in Operation
  BY DEF TypeOK
<1> DEFINE p == Program(op[o].prog)
<1>1. /\ op[o].prog \in Kinds /\ op[o].at \in 1..Len(p)
  BY DEF AtInv, Running
<1>2. Len(p) \in 1..7
  BY <1>1, Shapes DEF Shape
<1>3. op[o].at + 1 \in 1..Len(p) /\ op[o].at + 1 \in 0..7
  BY <1>1, <1>2, Following, Zenon
<1>n. PICK n \in 0..7 : n = op[o].at + 1
  BY <1>3
<1>d. PICK d \in Docs \cup {None} :
        d = IF Step(o) \in {"resolve", "look"} THEN op[o].saw.doc ELSE op[o].obj
  BY <1>t DEF Operation, Box
<1>x. PICK x \in Box \cup {None} : x = IF Step(o) = "quads" THEN op[o].saw ELSE op[o].box
  BY <1>t DEF Operation
<1>k. n \in 0..7 /\ d \in Docs \cup {None} /\ x \in Box \cup {None}
  BY <1>n, <1>d, <1>x
<1>4. Advance(o) = [op EXCEPT ![o] = Gone(op[o], n, d, x)]
  BY <1>n, <1>d, <1>x, AdvanceGoes
<1>5. /\ Gone(op[o], n, d, x) \in Operation /\ Gone(op[o], n, d, x).prog = op[o].prog
      /\ Gone(op[o], n, d, x).at = n /\ Gone(op[o], n, d, x).phase = "go"
      /\ Gone(op[o], n, d, x).disturbed = op[o].disturbed
      /\ Gone(op[o], n, d, x).landed = op[o].landed
      /\ Gone(op[o], n, d, x).result = op[o].result
      /\ Gone(op[o], n, d, x).obj = d /\ Gone(op[o], n, d, x).box = x
  <2>1. GoneSays(op[o], n, d, x, Gone(op[o], n, d, x))
    BY <1>t, <1>k, GoneIs
  <2>2. QED
    BY <2>1 DEF GoneSays
<1>6. /\ op' \in [Ops -> Operation] /\ op'[o] = Gone(op[o], n, d, x)
      /\ \A q \in Ops : q # o => op'[q] = op[q]
  BY <1>t, <1>4, <1>5
<1>7. op'[o].at \in 1..Len(Program(op[o].prog)) /\ op'[o].at = op[o].at + 1
  BY <1>3, <1>5, <1>6, <1>n, Zenon
<1>8. QED
  BY <1>5, <1>6, <1>7, <1>d, <1>x, Zenon

LEMMA FoundFrame ==
  ASSUME TypeOK, AtInv, NEW o \in Ops, FindFrame(o)
  PROVE  /\ op' \in [Ops -> Operation] /\ \A q \in Ops : q # o => op'[q] = op[q]
         /\ op[o].phase = "go" /\ Step(o) = "findFrame"
         /\ op'[o].prog = op[o].prog /\ op'[o].at = op[o].at + 1 /\ op'[o].phase = "go"
         /\ op'[o].at \in 1..Len(Program(op[o].prog))
         /\ op'[o].disturbed = op[o].disturbed /\ op'[o].result = op[o].result
         /\ op'[o].obj \in Docs /\ page.frames[op'[o].obj] = "committed"
<1>t. op \in [Ops -> Operation] /\ op[o] \in Operation
  BY DEF TypeOK
<1>1. PICK f \in Docs : page.frames[f] = "committed"
        /\ op' = [Advance(o) EXCEPT ![o].obj = f]
  BY DEF FindFrame
<1>2. op[o].phase = "go" /\ Step(o) = "findFrame"
  BY DEF FindFrame
<1>3. op[o].prog = "FrameBox" /\ op[o].at = 1 /\ Len(Program(op[o].prog)) = 3
  <2>1. op[o].prog = "FrameBox" /\ op[o].at = 1
    BY <1>2, Shapes DEF Shape, ShapeAt, Step, AtInv
  <2>2. Program("FrameBox") = <<"findFrame", "adopt", "quads">>
    BY Programs
  <2>3. QED
    BY <2>1, <2>2
<1>n. PICK n \in 0..7 : n = op[o].at + 1 /\ n = 2
  BY <1>3
<1>x. PICK x \in Box \cup {None} : x = op[o].box
  BY <1>t DEF Operation
<1>d. PICK d \in Docs \cup {None} : d = op[o].obj
  BY <1>t DEF Operation
<1>f. f \in Docs \cup {None}
  OBVIOUS
<1>4. Advance(o) = [op EXCEPT ![o] = Gone(op[o], n, d, x)]
  <2>1. op[o].at # Len(Program(op[o].prog))
    BY <1>3
  <2>2. /\ d = IF Step(o) \in {"resolve", "look"} THEN op[o].saw.doc ELSE op[o].obj
        /\ x = IF Step(o) = "quads" THEN op[o].saw ELSE op[o].box
    BY <1>2, <1>d, <1>x
  <2>3. QED
    BY <2>1, <2>2, <1>n, AdvanceGoes
<1>5. [Gone(op[o], n, d, x) EXCEPT !.obj = f] = Gone(op[o], n, f, x)
  BY <1>t DEF Operation, Gone
<1>6. op' = [op EXCEPT ![o] = Gone(op[o], n, f, x)]
  BY <1>t, <1>1, <1>4, <1>5
<1>7. n \in 1..Len(Program(op[o].prog))
  <2>1. PICK l : l = Len(Program(op[o].prog)) /\ l = 3
    BY <1>3
  <2>2. n \in 1..l
    BY <2>1, <1>n
  <2>3. QED
    BY <2>1, <2>2
<1>k. n \in 0..7 /\ x \in Box \cup {None}
  BY <1>n, <1>x
<1>8. /\ Gone(op[o], n, f, x) \in Operation /\ Gone(op[o], n, f, x).prog = op[o].prog
      /\ Gone(op[o], n, f, x).at = n /\ Gone(op[o], n, f, x).phase = "go"
      /\ Gone(op[o], n, f, x).disturbed = op[o].disturbed
      /\ Gone(op[o], n, f, x).result = op[o].result
      /\ Gone(op[o], n, f, x).obj = f
  <2>1. GoneSays(op[o], n, f, x, Gone(op[o], n, f, x))
    BY <1>t, <1>f, <1>k, GoneIs
  <2>2. QED
    BY <2>1 DEF GoneSays
<1>9. /\ op' \in [Ops -> Operation] /\ op'[o] = Gone(op[o], n, f, x)
      /\ \A q \in Ops : q # o => op'[q] = op[q]
  BY <1>t, <1>6, <1>8
<1>10. QED
  BY <1>1, <1>2, <1>7, <1>8, <1>9, <1>n, Zenon

LEMMA AgainIs ==
  ASSUME TypeOK, NEW o \in Ops, TryAgain(o)
  PROVE  /\ op' \in [Ops -> Operation] /\ \A q \in Ops : q # o => op'[q] = op[q]
         /\ op[o].phase = "answered"
         /\ op'[o].prog = op[o].prog /\ op'[o].at = op[o].at /\ op'[o].phase = "go"
         /\ op'[o].disturbed = op[o].disturbed /\ op'[o].landed = op[o].landed
         /\ op'[o].result = op[o].result
         /\ op'[o].obj = op[o].obj /\ op'[o].box = op[o].box
<1> DEFINE new == [op[o] EXCEPT !.phase = "go", !.saw = None, !.ok = FALSE,
        !.yes = FALSE]
<1>t. op \in [Ops -> Operation] /\ op[o] \in Operation
  BY DEF TypeOK
<1>1. op' = [op EXCEPT ![o] = new] /\ op[o].phase = "answered"
  BY <1>t DEF TryAgain, Answered
<1>n. new \in Operation
  BY <1>t DEF Operation
<1>2. /\ new.prog = op[o].prog /\ new.at = op[o].at
      /\ new.phase = "go" /\ new.disturbed = op[o].disturbed
      /\ new.landed = op[o].landed /\ new.result = op[o].result
      /\ new.obj = op[o].obj /\ new.box = op[o].box
  BY <1>t DEF Operation
<1> HIDE DEF new
<1>3. QED
  BY <1>n, <1>t, <1>1, <1>2

LEMMA AnswerIs ==
  ASSUME TypeOK, NEW m \in Message, m.t = "reply", op[m.o].phase = "sent",
         op' = [op EXCEPT ![m.o] = [@ EXCEPT !.phase = "answered", !.ok = m.ok,
                 !.yes = m.yes,
                                             !.saw = m.saw]]
  PROVE  \E o \in Ops :
         /\ m.o = o
         /\ op' \in [Ops -> Operation] /\ \A q \in Ops : q # o => op'[q] = op[q]
         /\ op'[o].prog = op[o].prog /\ op'[o].at = op[o].at
              /\ op'[o].phase = "answered"
         /\ op'[o].disturbed = op[o].disturbed /\ op'[o].landed = op[o].landed
         /\ op'[o].result = op[o].result
         /\ op'[o].obj = op[o].obj /\ op'[o].box = op[o].box
         /\ op'[o].ok = m.ok /\ op'[o].yes = m.yes /\ op'[o].saw = m.saw
         /\ op'[o].saw \in Box
<1>m. PICK o \in Ops, a \in BOOLEAN, b \in BOOLEAN, x \in Box :
        m.o = o /\ m.ok = a /\ m.yes = b /\ m.saw = x
  BY MessageIs
<1>t. op \in [Ops -> Operation] /\ op[o] \in Operation
  BY DEF TypeOK
<1>1. op' = [op EXCEPT ![o] = Told(op[o], a, b, x)]
  BY <1>m DEF Told
<1>2. QED
  BY <1>t, <1>m, <1>1, ToldIs

LEMMA Shaken == ASSUME NEW r \in Operation
 PROVE  [r EXCEPT !.disturbed = TRUE] \in Operation
BY DEF Operation
LEMMA DisturbIs ==
  ASSUME NEW O \in [Ops -> Operation], NEW who
  PROVE  /\ Disturb(O, who) \in [Ops -> Operation]
         /\ \A q \in Ops :
              /\ q \notin who => Disturb(O, who)[q] = O[q]
              /\ Disturb(O, who)[q] \in {O[q], [O[q] EXCEPT !.disturbed = TRUE]}
              /\ q \in who /\ O[q].phase \in {"go", "sent", "answered"} =>
                   Disturb(O, who)[q] = [O[q] EXCEPT !.disturbed = TRUE]
<1>1. \A q \in Ops : O[q] \in Operation
        /\ [O[q] EXCEPT !.disturbed = TRUE] \in Operation
  BY Shaken
<1>2. QED
  BY <1>1 DEF Disturb

LEMMA EffectIs ==
  ASSUME web \in WebState, NEW r
  PROVE  /\ Effect(r) \in WebState /\ Effect(r).doc = web.doc /\ Effect(r).lay = web.lay
         /\ Effect(r).present = web.present /\ Effect(r).child = web.child
         /\ web.shown => Effect(r).shown
BY DEF Effect, WebState, Hit

-----------------------------------------------------------------------------
(* Types *)

(* What the browser's steps leave of an operation. *)
Keeps(a, b) ==
  /\ b.prog = a.prog /\ b.at = a.at /\ b.phase = a.phase
  /\ b.ok = a.ok /\ b.yes = a.yes /\ b.saw = a.saw
  /\ b.box = a.box /\ b.obj = a.obj /\ b.result = a.result /\ b.good = a.good
LEMMA DisturbKeeps ==
  ASSUME NEW O \in [Ops -> Operation], NEW who, NEW q \in Ops
  PROVE  /\ Keeps(O[q], Disturb(O, who)[q])
         /\ Disturb(O, who)[q].landed = O[q].landed
         /\ ~Disturb(O, who)[q].disturbed => ~O[q].disturbed
         /\ q \notin who => Disturb(O, who)[q].disturbed = O[q].disturbed
         /\ q \in who /\ O[q].phase \in {"go", "sent", "answered"}
              => Disturb(O, who)[q].disturbed
<1>1. PICK r \in Operation : r = O[q]
  OBVIOUS
<1>2. PICK s \in Operation : s = Disturb(O, who)[q]
  BY DisturbIs
<1>3. /\ s \in {r, [r EXCEPT !.disturbed = TRUE]}
      /\ q \notin who => s = r
      /\ q \in who /\ r.phase \in {"go", "sent", "answered"}
           => s = [r EXCEPT !.disturbed = TRUE]
  BY <1>1, <1>2, DisturbIs
<1>4. \A x \in {r, [r EXCEPT !.disturbed = TRUE]} :
        Keeps(r, x) /\ x.landed = r.landed /\ (~x.disturbed => ~r.disturbed)
  BY DEF Keeps, Operation
<1>5. [r EXCEPT !.disturbed = TRUE].disturbed
  BY DEF Operation
<1>6. QED
  BY <1>1, <1>2, <1>3, <1>4, <1>5

Landed(r, b) == [r EXCEPT !.landed = b]
LEMMA LandedIs ==
  \A r \in Operation, b \in BOOLEAN :
    /\ Landed(r, b) \in Operation /\ Keeps(r, Landed(r, b))
    /\ Landed(r, b).landed = b /\ Landed(r, b).disturbed = r.disturbed
BY DEF Landed, Operation, Keeps

LEMMA RefuseIs ==
  ASSUME TypeOK, NEW o \in Ops, Refuse(o)
  PROVE  /\ op' \in [Ops -> Operation] /\ req[o] \in Request
         /\ req' \in [Ops -> Request \cup {None}] /\ req'[o] = None
         /\ \A q \in Ops : q # o => req'[q] = req[q]
         /\ web' = web /\ web' \in WebState
         /\ \A q \in Ops :
              /\ Keeps(op[q], op'[q]) /\ op'[q].landed = op[q].landed
              /\ ~op'[q].disturbed => ~op[q].disturbed
         /\ Running(o) => op'[o].disturbed
<1>1. /\ req[o] \in Request /\ req'[o] = None /\ req' \in [Ops -> Request \cup {None}]
      /\ \A q \in Ops : q # o => req'[q] = req[q]
  BY DEF Refuse, TypeOK
<1>2. op \in [Ops -> Operation] /\ op' = Disturb(op, {o}) /\ web' = web
        /\ web \in WebState
  BY DEF Refuse, TypeOK
<1>3. op' \in [Ops -> Operation]
  BY <1>2, DisturbIs
<1>4. \A q \in Ops : /\ Keeps(op[q], op'[q]) /\ op'[q].landed = op[q].landed
                     /\ ~op'[q].disturbed => ~op[q].disturbed
  BY <1>2, DisturbKeeps
<1>5. Running(o) => op'[o].disturbed
  BY <1>2, DisturbKeeps DEF Running
<1>6. QED
  BY <1>1, <1>2, <1>3, <1>4, <1>5

LEMMA ServeIs ==
  ASSUME TypeOK, NEW o \in Ops, Serve(o)
  PROVE  /\ op' \in [Ops -> Operation] /\ req[o] \in Request
         /\ req' \in [Ops -> Request \cup {None}] /\ req'[o] = None
         /\ \A q \in Ops : q # o => req'[q] = req[q]
         /\ web' = IF Serves(req[o]) THEN Effect(req[o]) ELSE web
         /\ web' \in WebState /\ web'.doc = web.doc /\ web'.lay = web.lay
         /\ web'.present = web.present /\ web'.child = web.child
         /\ web.shown => web'.shown
         /\ \A q \in Ops :
              /\ Keeps(op[q], op'[q])
              /\ ~op'[q].disturbed => ~op[q].disturbed
              /\ q # o => op'[q].landed = op[q].landed
              /\ q # o /\ Running(q) /\ req[o].step \in Touches => op'[q].disturbed
         /\ op'[o].landed = (Serves(req[o]) /\ Lands(o, req[o]))
<1>1. /\ req[o] \in Request /\ req'[o] = None /\ req' \in [Ops -> Request \cup {None}]
      /\ \A q \in Ops : q # o => req'[q] = req[q]
  BY DEF Serve, TypeOK
<1>2. web' = IF Serves(req[o]) THEN Effect(req[o]) ELSE web
  BY DEF Serve
<1>3. /\ web' \in WebState /\ web'.doc = web.doc /\ web'.lay = web.lay
      /\ web'.present = web.present /\ web'.child = web.child
      /\ web.shown => web'.shown
  <2>1. web \in WebState
    BY DEF TypeOK
  <2>2. QED
    BY <1>2, <2>1, EffectIs
<1>t. op \in [Ops -> Operation] /\ op[o] \in Operation
  BY DEF TypeOK
<1>g. (Serves(req[o]) /\ Lands(o, req[o])) \in BOOLEAN
  OBVIOUS
<1>b. PICK b \in BOOLEAN : b = (Serves(req[o]) /\ Lands(o, req[o]))
  BY <1>g
<1> DEFINE O == [op EXCEPT ![o] = Landed(op[o], b)]
           who == IF req[o].step \in Touches THEN Ops \ {o} ELSE {}
<1>4. op' = Disturb(O, who)
  <2>1. O = [op EXCEPT ![o].landed = Serves(req[o]) /\ Lands(o, req[o])]
    BY <1>b DEF Landed
  <2>2. QED
    BY <2>1 DEF Serve
<1>k. Landed(op[o], b) \in Operation /\ Keeps(op[o], Landed(op[o], b))
      /\ Landed(op[o], b).landed = b /\ Landed(op[o], b).disturbed = op[o].disturbed
  <2>1. b \in BOOLEAN
    BY <1>b
  <2>2. QED
    BY <1>t, <2>1, LandedIs
<1>5. /\ O \in [Ops -> Operation] /\ O[o] = Landed(op[o], b)
      /\ \A q \in Ops : q # o => O[q] = op[q]
  BY <1>t, <1>k
<1>w. /\ o \notin who
      /\ req[o].step \in Touches => \A q \in Ops : q # o => q \in who
  OBVIOUS
<1> HIDE DEF O, who
<1>6. op' \in [Ops -> Operation]
  BY <1>4, <1>5, DisturbIs
<1>7. ASSUME NEW q \in Ops
      PROVE  /\ Keeps(op[q], op'[q])
             /\ ~op'[q].disturbed => ~op[q].disturbed
             /\ q # o => op'[q].landed = op[q].landed
             /\ q # o /\ Running(q) /\ req[o].step \in Touches => op'[q].disturbed
             /\ op'[o].landed = b
  <2>1. /\ Keeps(O[q], op'[q]) /\ op'[q].landed = O[q].landed
        /\ ~op'[q].disturbed => ~O[q].disturbed
        /\ q \in who /\ O[q].phase \in {"go", "sent", "answered"} => op'[q].disturbed
    BY <1>4, <1>5, DisturbKeeps
  <2>2. op'[o].landed = O[o].landed
    BY <1>4, <1>5, DisturbKeeps
  <2>3. CASE q = o
    <3>1. Keeps(op[o], op'[o])
      BY <2>1, <2>3, <1>5, <1>k DEF Keeps
    <3>2. QED
      BY <2>1, <2>2, <2>3, <3>1, <1>5, <1>k
  <2>4. CASE q # o
    BY <2>1, <2>2, <2>4, <1>5, <1>w, <1>k DEF Running
  <2>5. QED
    BY <2>3, <2>4
<1>8. QED
  BY <1>1, <1>2, <1>3, <1>6, <1>7, <1>b

LEMMA AtMoves ==
  ASSUME AtInv, NEW o \in Ops, \A q \in Ops : q # o => op'[q] = op[q],
         op'[o].prog \in Kinds, op'[o].at \in 1..Len(Program(op'[o].prog)),
         op'[o].phase = "answered" => op'[o].saw \in Box
  PROVE  AtInv'
BY DEF AtInv
LEMMA AtKept ==
  ASSUME AtInv, \A q \in Ops : Keeps(op[q], op'[q])
  PROVE  AtInv'
<1>1. ASSUME NEW q \in Ops
      PROVE  /\ op'[q].phase # "idle" => /\ op'[q].prog \in Kinds
                                         /\ op'[q].at \in 1..Len(Program(op'[q].prog))
             /\ op'[q].phase = "answered" => op'[q].saw \in Box
  BY DEF AtInv, Keeps
<1>2. QED
  BY <1>1 DEF AtInv
LEMMA FirstGrows ==
  ASSUME TypeOK, FirstInv, page' = page, NEW s, Grown(s),
         \A k \in 1..Len(s) : s[k].t = "context" => s[k].c.frame = s[k].f
  PROVE  FirstInv'
<1>1. ASSUME page'.mainFrameID = None
      PROVE  wire' # <<>> /\ wire'[1] = Event("attached", Main)
  <2>1. Len(wire) \in Nat /\ wire # <<>> /\ wire[1] = Event("attached", Main)
    BY <1>1 DEF FirstInv, TypeOK
  <2>2. 1 \in 1..Len(wire)
    BY <2>1 DEF TypeOK
  <2>3. QED
    BY <2>1, <2>2 DEF Grown
<1>2. ASSUME NEW i \in 1..Len(wire'), wire'[i].t = "context"
      PROVE  wire'[i].c.frame = wire'[i].f
  <2>1. CASE i \in 1..Len(wire)
    <3>1. wire'[i] = wire[i]
      BY <2>1 DEF Grown
    <3>2. QED
      BY <1>2, <2>1, <3>1 DEF FirstInv
  <2>2. CASE i \notin 1..Len(wire)
    <3>1. PICK k \in 1..Len(s) : wire'[i] = s[k]
      BY <2>2 DEF Grown
    <3>2. QED
      BY <1>2, <3>1
  <2>3. QED
    BY <2>1, <2>2
<1>3. QED
  BY <1>1, <1>2 DEF FirstInv

LEMMA TypesInit == Init => TypesInv
<1> SUFFICES ASSUME Init PROVE TypesInv
  OBVIOUS
<1>1. PICK plan \in Plans : op = [o \in Ops |-> [Idle EXCEPT !.prog = plan[o]]]
  BY DEF Init
<1>2. plan \in [Ops -> Kinds \cup {None}]
  BY NoneAssumption
<1>3. \A k \in Kinds \cup {None} : [Idle EXCEPT !.prog = k] \in Operation
  <2>1. PICK z \in 0..7 : z = 0
    OBVIOUS
  <2>2. ASSUME NEW k \in Kinds \cup {None}
        PROVE  [prog |-> k, at |-> z, phase |-> "idle", ok |-> FALSE, yes |-> FALSE,
                saw |-> None, box |-> None, obj |-> None, result |-> None,
                disturbed |-> FALSE, landed |-> FALSE, good |-> FALSE] \in Operation
    BY DEF Operation
  <2>3. QED
    BY <2>1, <2>2 DEF Idle
<1>4. op \in [Ops -> Operation]
  BY <1>1, <1>2, <1>3
<1>5. req \in [Ops -> Request \cup {None}]
  BY DEF Init
<1>6. /\ wire \in Seq(Message) /\ Len(wire) = 3 /\ wire # <<>>
      /\ wire[1] = Event("attached", Main) /\ wire[2] = MainCtx(1, "main")
      /\ wire[3] = MainCtx(1, "isolated")
  <2>1. /\ Event("attached", Main) \in Message /\ MainCtx(1, "main") \in Message
        /\ MainCtx(1, "isolated") \in Message
    BY MessagesAre, DocsAre
  <2>2. wire = <<Event("attached", Main), MainCtx(1, "main"), MainCtx(1, "isolated")>>
    BY DEF Init
  <2>3. QED
    BY <2>1, <2>2
<1>7. page \in PageState /\ page.mainFrameID = None
  BY DEF Init, PageState
<1>8. web \in WebState
  BY DocsAre, PageAssumption DEF Init, WebState
<1>9. \A i \in 1..Len(wire) : wire[i].t = "context" => wire[i].c.frame = wire[i].f
  <2>1. \A i \in 1..Len(wire) : i = 1 \/ i = 2 \/ i = 3
    BY <1>6
  <2>2. /\ MainCtx(1, "main").f = Main /\ MainCtx(1, "main").c.frame = Main
        /\ MainCtx(1, "isolated").f = Main /\ MainCtx(1, "isolated").c.frame = Main
        /\ Event("attached", Main).t = "attached"
    BY DEF MainCtx, Event
  <2>3. QED
    BY <1>6, <2>1, <2>2
<1>10. \A o \in Ops : op[o].phase = "idle"
  BY <1>1 DEF Idle
<1>11. QED
  BY <1>4, <1>5, <1>6, <1>7, <1>8, <1>9, <1>10 DEF TypesInv, TypeOK, FirstInv, AtInv

LEMMA HandleTypes == ASSUME TypesInv, Handle PROVE TypesInv'
<1>t. TypeOK /\ FirstInv /\ AtInv /\ page \in PageState /\ op \in [Ops -> Operation]
  BY DEF TypesInv, TypeOK
<1>w. /\ wire' \in Seq(Message) /\ wire[1] \in Message /\ Head(wire) = wire[1]
      /\ 1 \in 1..Len(wire)
      /\ \A i \in 1..Len(wire') : i+1 \in 1..Len(wire) /\ wire'[i] = wire[i+1]
  BY <1>t, TakenIs DEF Handle
<1>m. PICK m \in Message : m = wire[1]
  BY <1>w
<1>u. UNCHANGED <<web, req>>
  BY DEF Handle
<1>f. /\ page.mainFrameID \in {Main, None}
      /\ page.mainFrameID = None => m.t = "attached" /\ m.f = Main
      /\ m.t = "context" => m.c.frame = m.f
  BY <1>t, <1>w, <1>m, MessagesAre, DocsAre DEF FirstInv, PageState
<1>1. /\ page' \in PageState /\ page'.mainFrameID = Main
      /\ op' \in [Ops -> Operation] /\ AtInv'
  <2>1. CASE m.t = "context"
    <3>1. page' = OnExecCtxCreated(m) /\ op' = op
      BY <2>1, <1>m, <1>w DEF Handle
    <3>2. m.f \in Frames /\ m.c \in Ctx /\ page.mainFrameID = Main
      BY <2>1, <1>f, MessageIs
    <3>3. page' \in PageState /\ page'.mainFrameID = Main
      BY <1>t, <3>1, <3>2, ContextIs
    <3>4. QED
      BY <1>t, <3>1, <3>3 DEF AtInv
  <2>2. CASE m.t = "attached"
    <3>1. page' = OnFrameAttached(m) /\ op' = op
      BY <2>2, <1>m, <1>w DEF Handle
    <3>2. m.f \in Frames /\ (page.mainFrameID = Main \/ m.f = Main)
      BY <2>2, <1>f, MessageIs
    <3>3. page' \in PageState /\ page'.mainFrameID = Main
      BY <1>t, <3>1, <3>2, AttachedIs
    <3>4. QED
      BY <1>t, <3>1, <3>3 DEF AtInv
  <2>3. CASE m.t = "detached"
    <3>1. page' = OnFrameDetached(m) /\ op' = op
      BY <2>3, <1>m, <1>w DEF Handle
    <3>2. m.f \in Frames /\ page.mainFrameID = Main
      BY <2>3, <1>f, MessageIs
    <3>3. page' \in PageState /\ page'.mainFrameID = Main
      BY <1>t, <3>1, <3>2, DetachedIs
    <3>4. QED
      BY <1>t, <3>1, <3>3 DEF AtInv
  <2>4. CASE m.t = "committed"
    <3>1. page' = OnCommitted(m) /\ op' = op
      BY <2>4, <1>m, <1>w DEF Handle
    <3>2. m.f \in Frames /\ page.mainFrameID = Main
      BY <2>4, <1>f, MessageIs
    <3>3. page' \in PageState /\ page'.mainFrameID = Main
      BY <1>t, <3>1, <3>2, CommittedIs
    <3>4. QED
      BY <1>t, <3>1, <3>3 DEF AtInv
  <2>5. CASE m.t = "reply"
    <3>1. page' = page /\ page.mainFrameID = Main
      BY <2>5, <1>m, <1>w, <1>f DEF Handle
    <3>2. CASE op[m.o].phase = "sent"
      <4>1. op' = [op EXCEPT ![m.o] = [@ EXCEPT !.phase = "answered", !.ok = m.ok,
                                                !.yes = m.yes, !.saw = m.saw]]
        BY <2>5, <1>m, <1>w, <3>2 DEF Handle
      <4>2. PICK o \in Ops :
              /\ m.o = o /\ op' \in [Ops -> Operation]
              /\ \A q \in Ops : q # o => op'[q] = op[q]
              /\ op'[o].prog = op[o].prog /\ op'[o].at = op[o].at /\ op'[o].saw \in Box
        BY <2>5, <1>t, <3>2, <4>1, AnswerIs
      <4>3. op[o].prog \in Kinds /\ op[o].at \in 1..Len(Program(op[o].prog))
        BY <1>t, <3>2, <4>2 DEF AtInv
      <4>4. AtInv'
        BY <1>t, <4>2, <4>3, AtMoves
      <4>5. QED
        BY <1>t, <3>1, <4>2, <4>4
    <3>3. CASE op[m.o].phase # "sent"
      <4>1. op' = op
        BY <2>5, <1>m, <1>w, <3>3 DEF Handle
      <4>2. QED
        BY <1>t, <3>1, <4>1 DEF AtInv
    <3>4. QED
      BY <3>2, <3>3
  <2>6. QED
    BY <2>1, <2>2, <2>3, <2>4, <2>5, MessageIs
<1>2. FirstInv'
  <2>1. page'.mainFrameID # None
    BY <1>1, NoneAssumption
  <2>2. \A i \in 1..Len(wire') : wire'[i].t = "context" => wire'[i].c.frame = wire'[i].f
    BY <1>t, <1>w DEF FirstInv
  <2>3. QED
    BY <2>1, <2>2 DEF FirstInv
<1>3. TypeOK'
  BY <1>t, <1>u, <1>w, <1>1 DEF TypeOK
<1>4. QED
  BY <1>1, <1>2, <1>3 DEF TypesInv

LEMMA OpTypes ==
  ASSUME TypesInv, NEW o \in Ops, Start(o) \/ Send(o) \/ FindFrame(o) \/ Resume(o)
         \/ Elapse(o)
  PROVE  TypesInv'
<1>t. TypeOK /\ FirstInv /\ AtInv /\ op \in [Ops -> Operation]
  BY DEF TypesInv, TypeOK
<1>u. UNCHANGED <<page, web, wire>>
  BY DEF Start, Send, FindFrame, Resume, Elapse
<1>f. FirstInv'
  BY <1>t, <1>u DEF FirstInv
<1>k. op[o].phase \in {"go", "sent", "answered"} =>
        op[o].prog \in Kinds /\ op[o].at \in 1..Len(Program(op[o].prog))
  BY <1>t DEF AtInv
<1>r. ASSUME req' = req, op' \in [Ops -> Operation], AtInv' PROVE TypesInv'
  BY <1>t, <1>u, <1>f, <1>r DEF TypesInv, TypeOK
<1>1. CASE Start(o)
  <2>1. /\ op' \in [Ops -> Operation] /\ \A q \in Ops : q # o => op'[q] = op[q]
        /\ op[o].prog \in Kinds
        /\ op'[o].prog = op[o].prog /\ op'[o].at = 1 /\ op'[o].phase = "go"
    BY <1>t, <1>1, StartIs
  <2>2. PICK l \in 1..7 : l = Len(Program(op[o].prog))
    BY <2>1, Shapes DEF Shape
  <2>3. 1 \in 1..l
    OBVIOUS
  <2>4. op'[o].prog \in Kinds /\ op'[o].at \in 1..Len(Program(op'[o].prog))
    BY <2>1, <2>2, <2>3
  <2>5. AtInv'
    BY <1>t, <2>1, <2>4, AtMoves
  <2>6. QED
    BY <1>1, <1>r, <2>1, <2>5 DEF Start
<1>2. CASE Send(o)
  <2>1. /\ op' \in [Ops -> Operation] /\ \A q \in Ops : q # o => op'[q] = op[q]
        /\ op[o].phase = "go" /\ op'[o] = [op[o] EXCEPT !.phase = "sent"]
        /\ req' \in [Ops -> Request \cup {None}]
    BY <1>t, <1>2, SendIs
  <2>2. op'[o].prog = op[o].prog /\ op'[o].at = op[o].at /\ op'[o].phase = "sent"
    BY <1>t, <2>1 DEF Operation
  <2>3. AtInv'
    BY <1>t, <1>k, <2>1, <2>2, AtMoves
  <2>4. QED
    BY <1>t, <1>u, <1>f, <2>1, <2>3 DEF TypesInv, TypeOK
<1>3. CASE FindFrame(o)
  <2>1. /\ op' \in [Ops -> Operation] /\ \A q \in Ops : q # o => op'[q] = op[q]
        /\ op[o].phase = "go" /\ op'[o].prog = op[o].prog /\ op'[o].phase = "go"
        /\ op'[o].at \in 1..Len(Program(op[o].prog))
    BY <1>t, <1>3, FoundFrame
  <2>2. AtInv'
    BY <1>t, <1>k, <2>1, AtMoves
  <2>3. QED
    BY <1>3, <1>r, <2>1, <2>2 DEF FindFrame
<1>e. ASSUME NEW how \in {"ok", "error", "timeout"}, op' = Finish(o, how),
             op[o].phase \in {"go", "sent", "answered"}, req' = req
      PROVE  TypesInv'
  <2>1. /\ op' \in [Ops -> Operation] /\ \A q \in Ops : q # o => op'[q] = op[q]
        /\ op'[o].prog = op[o].prog /\ op'[o].at = op[o].at /\ op'[o].phase = "done"
    BY <1>t, <1>e, FinishIs
  <2>2. AtInv'
    BY <1>t, <1>k, <1>e, <2>1, AtMoves
  <2>3. QED
    BY <1>e, <1>r, <2>1, <2>2
<1>4. CASE Resume(o)
  <2>u. req' = req
    BY <1>4 DEF Resume
  <2>1. CASE TryAgain(o)
    <3>1. /\ op' \in [Ops -> Operation] /\ \A q \in Ops : q # o => op'[q] = op[q]
          /\ op[o].phase = "answered"
          /\ op'[o].prog = op[o].prog /\ op'[o].at = op[o].at /\ op'[o].phase = "go"
      BY <1>t, <2>1, AgainIs
    <3>2. AtInv'
      BY <1>t, <1>k, <3>1, AtMoves
    <3>3. QED
      BY <1>r, <2>u, <3>1, <3>2
  <2>2. CASE Proceed(o)
    <3>1. op[o].phase = "answered"
      BY <2>2 DEF Proceed, Answered
    <3>2. CASE op' = Finish(o, "ok")
      BY <1>e, <2>u, <3>1, <3>2
    <3>3. CASE op' = Advance(o) /\ op' # Finish(o, "ok")
      <4>1. op[o].at # Len(Program(op[o].prog))
        BY <3>3 DEF Advance
      <4>2. op[o].saw \in Box /\ Running(o)
        BY <1>t, <3>1 DEF AtInv, Running
      <4>3. /\ op' \in [Ops -> Operation] /\ \A q \in Ops : q # o => op'[q] = op[q]
            /\ op'[o].prog = op[o].prog /\ op'[o].phase = "go"
            /\ op'[o].at \in 1..Len(Program(op[o].prog))
        BY <1>t, <3>3, <4>1, <4>2, AdvanceIs
      <4>4. AtInv'
        BY <1>t, <1>k, <3>1, <4>3, AtMoves
      <4>5. QED
        BY <1>r, <2>u, <4>3, <4>4
    <3>4. QED
      BY <2>2, <3>2, <3>3 DEF Proceed
  <2>3. CASE Fail(o)
    BY <1>e, <2>u, <2>3 DEF Fail, Answered
  <2>4. QED
    BY <1>4, <2>1, <2>2, <2>3 DEF Resume
<1>5. CASE Elapse(o)
  <2>1. op' = Finish(o, "timeout") /\ op[o].phase \in {"go", "sent", "answered"}
          /\ req' = req
    BY <1>5 DEF Elapse, TimeOut
  <2>2. QED
    BY <1>e, <2>1
<1>6. QED
  BY <1>1, <1>2, <1>3, <1>4, <1>5

LEMMA WebTypes ==
  ASSUME TypesInv,
         \/ Navigate \/ Shift \/ Blur \/ Appear \/ AttachChild \/ DetachChild
         \/ \E o \in Ops : Serve(o) \/ Refuse(o)
  PROVE  TypesInv'
<1>t. TypeOK /\ FirstInv /\ AtInv /\ op \in [Ops -> Operation] /\ web \in WebState
  BY DEF TypesInv, TypeOK
<1>p. page' = page
  BY DEF Navigate, Shift, Blur, Appear, AttachChild, DetachChild, Serve, Refuse
<1>d. ASSUME NEW who, op' = Disturb(op, who)
      PROVE  op' \in [Ops -> Operation] /\ AtInv'
  <2>1. op' \in [Ops -> Operation] /\ \A q \in Ops : Keeps(op[q], op'[q])
    BY <1>t, <1>d, DisturbIs, DisturbKeeps
  <2>2. QED
    BY <1>t, <2>1, AtKept
<1>s. ASSUME op' = op PROVE op' \in [Ops -> Operation] /\ AtInv'
  BY <1>t, <1>s DEF AtInv
<1>w. ASSUME wire' = wire PROVE wire' \in Seq(Message) /\ FirstInv'
  BY <1>t, <1>w, <1>p DEF TypeOK, FirstInv
<1>r. ASSUME req' \in [Ops -> Request \cup {None}] \/ req' = req,
             op' \in [Ops -> Operation] /\ AtInv',
             wire' \in Seq(Message) /\ FirstInv', web' \in WebState
      PROVE  TypesInv'
  BY <1>t, <1>p, <1>r DEF TypesInv, TypeOK
<1>1. CASE Navigate
  <2>1. PICK s : NavigateSays(s)
    BY <1>t, <1>1, NavigateIs
  <2>2. \A k \in 1..Len(s) : s[k].t = "context" => s[k].c.frame = s[k].f
    <3>1. ASSUME NEW k \in 1..Len(s), s[k].t = "context" PROVE s[k].c.frame = s[k].f
      <4>1. web'.doc \in Docs
        BY <2>1 DEF NavigateSays
      <4>2. PICK w \in {"main", "isolated"} : s[k] = MainCtx(web'.doc, w)
        BY <2>1, <3>1 DEF NavigateSays
      <4>3. QED
        BY <4>2 DEF MainCtx
    <3>2. QED
      BY <3>1
  <2>3. Grown(s)
    BY <2>1 DEF NavigateSays
  <2>4. wire' \in Seq(Message) /\ FirstInv'
    BY <1>t, <1>p, <2>2, <2>3, FirstGrows DEF Grown
  <2>5. web' \in WebState
    BY <1>1, <1>t, PageAssumption DEF Navigate, WebState, Docs
  <2>6. QED
    BY <1>1, <1>d, <1>r, <2>4, <2>5 DEF Navigate
<1>2. CASE Shift
  <2>1. web' \in WebState
    <3>1. PICK l \in 0..MaxShifts : l = web.lay + 1
      <4>1. PICK j \in 0..MaxShifts : j = web.lay /\ j < MaxShifts
        BY <1>2, <1>t DEF Shift, WebState
      <4>2. j + 1 \in 0..MaxShifts
        BY <4>1, PageAssumption
      <4>3. QED
        BY <4>1, <4>2
    <3>2. PICK s \in BOOLEAN : web' = [web EXCEPT !.lay = l, !.shown = s]
      BY <1>2, <3>1 DEF Shift
    <3>3. QED
      BY <1>t, <3>2 DEF WebState
  <2>2. QED
    BY <1>2, <1>d, <1>r, <1>w, <2>1 DEF Shift
<1>3. CASE Blur
  <2>1. web' \in WebState
    BY <1>3, <1>t DEF Blur, WebState
  <2>2. QED
    BY <1>3, <1>d, <1>r, <1>w, <2>1 DEF Blur
<1>4. CASE Appear
  <2>1. web' \in WebState
    BY <1>4, <1>t DEF Appear, WebState
  <2>2. QED
    BY <1>4, <1>s, <1>r, <1>w, <2>1 DEF Appear
<1>5. CASE AttachChild
  <2>1. PICK s : AttachSays(s)
    BY <1>t, <1>5, AttachIs
  <2>2. \A k \in 1..Len(s) : s[k].t = "context" => s[k].c.frame = s[k].f
    <3>1. /\ Len(s) = 3 /\ s[1].t = "attached" /\ s[3].t = "committed"
          /\ s[2].c.frame = s[2].f
      BY <2>1 DEF AttachSays, Event, ChildCtx
    <3>2. QED
      BY <3>1
  <2>3. Grown(s)
    BY <2>1 DEF AttachSays
  <2>4. wire' \in Seq(Message) /\ FirstInv'
    BY <1>t, <1>p, <2>2, <2>3, FirstGrows DEF Grown
  <2>5. web' \in WebState
    BY <1>5, <1>t DEF AttachChild, WebState
  <2>6. QED
    BY <1>5, <1>s, <1>r, <2>4, <2>5 DEF AttachChild
<1>6. CASE DetachChild
  <2>1. PICK s : s = <<Event("detached", web.doc)>>
    OBVIOUS
  <2>2. \A k \in 1..Len(s) : s[k].t = "context" => s[k].c.frame = s[k].f
    BY <2>1 DEF Event
  <2>3. Grown(s)
    BY <1>t, <1>6, <2>1, DetachIs
  <2>4. wire' \in Seq(Message) /\ FirstInv'
    BY <1>t, <1>p, <2>2, <2>3, FirstGrows DEF Grown
  <2>5. web' \in WebState
    BY <1>6, <1>t DEF DetachChild, WebState
  <2>6. QED
    BY <1>6, <1>d, <1>r, <2>4, <2>5 DEF DetachChild
<1>7. ASSUME NEW o \in Ops, Serve(o) PROVE TypesInv'
  <2>1. /\ op' \in [Ops -> Operation] /\ req' \in [Ops -> Request \cup {None}]
        /\ web' \in WebState /\ \A q \in Ops : Keeps(op[q], op'[q])
    BY <1>t, <1>7, ServeIs
  <2>2. AtInv'
    BY <1>t, <2>1, AtKept
  <2>3. PICK s : s = <<ReplyTo(o)>>
    OBVIOUS
  <2>4. Grown(s) /\ \A k \in 1..Len(s) : s[k].t = "context" => s[k].c.frame = s[k].f
    BY <1>t, <1>7, <2>3, ReplyIs DEF ReplyTo
  <2>5. wire' \in Seq(Message) /\ FirstInv'
    BY <1>t, <1>p, <2>4, FirstGrows DEF Grown
  <2>6. QED
    BY <1>r, <2>1, <2>2, <2>5
<1>8. ASSUME NEW o \in Ops, Refuse(o) PROVE TypesInv'
  <2>1. /\ op' \in [Ops -> Operation] /\ req' \in [Ops -> Request \cup {None}]
        /\ web' \in WebState /\ \A q \in Ops : Keeps(op[q], op'[q])
    BY <1>t, <1>8, RefuseIs
  <2>2. AtInv'
    BY <1>t, <2>1, AtKept
  <2>3. PICK s : s = <<RefusalOf(o)>>
    OBVIOUS
  <2>4. Grown(s) /\ \A k \in 1..Len(s) : s[k].t = "context" => s[k].c.frame = s[k].f
    BY <1>t, <1>8, <2>3, RefusalIs DEF RefusalOf
  <2>5. wire' \in Seq(Message) /\ FirstInv'
    BY <1>t, <1>p, <2>4, FirstGrows DEF Grown
  <2>6. QED
    BY <1>r, <2>1, <2>2, <2>5
<1>9. QED
  BY <1>1, <1>2, <1>3, <1>4, <1>5, <1>6, <1>7, <1>8

LEMMA TypesStep == TypesInv /\ [Next]_vars => TypesInv'
<1>1. ASSUME TypesInv, UNCHANGED vars PROVE TypesInv'
  BY <1>1 DEF vars, TypesInv, TypeOK, FirstInv, AtInv
<1>2. ASSUME TypesInv, Next PROVE TypesInv'
  BY <1>2, HandleTypes, OpTypes, WebTypes DEF Next
<1>3. QED
  BY <1>1, <1>2

(* Every step of every operation, and what the browser says in any order,  *)
(* leaves the state well formed: an operation is at a call of its program, *)
(* with the locals that the calls before it set (OnExecCtxCreated to       *)
(* OnCommitted, the operations of Page, Locator, ElementHandle and Frame). *)
THEOREM OpsTypeCorrect == Spec => []TypeOK
<1>1. TypesInv => TypeOK
  BY DEF TypesInv
<1>2. QED
  BY <1>1, TypesInit, TypesStep, PTL DEF Spec
-----------------------------------------------------------------------------
(* What Page knows.  The newest of the messages about a frame's context    *)
(* says the context it has, when readLoop has none left then Page has it;  *)
(* the same for the frames.                                                *)
TellsContext(m, f) == /\ m.t = "detached" \/ (m.t = "context" /\ m.c.world = "main")
                      /\ m.f = f
TellsFrame(m, f)   == m.t \in {"attached", "committed", "detached"} /\ m.f = f
ContextTold(m) == IF m.t = "detached" THEN None ELSE m.c
FrameTold(m)   == IF m.t = "detached" THEN "unknown" ELSE m.t
ContextsOf(w, f) == {i \in 1..Len(w) : TellsContext(w[i], f)}
FramesOf(w, f)   == {i \in 1..Len(w) : TellsFrame(w[i], f)}
Newest(S, i) == i \in S /\ \A j \in S : j <= i

Has(d) == d = web.doc /\ web.child = "attached"
ContextIn(f) == IF f = Main THEN MainCtx(web.doc, "main").c
                ELSE IF Has(f) THEN ChildCtx(f).c ELSE None
FrameIn(d) == IF Has(d) THEN "committed" ELSE "unknown"

ExecInv ==
  /\ page.execCtx = page.frameCtx[Main]
  /\ page.execCtx # None => page.execCtx.frame = Main /\ page.execCtx.world = "main"
  /\ page.ready => page.execCtx # None
  /\ \A i \in 1..Len(wire) : wire[i].t = "detached" => wire[i].f \in Docs
ContextsInv ==
  \A f \in Frames :
    /\ \A i \in 1..Len(wire) : Newest(ContextsOf(wire, f), i)
         => ContextTold(wire[i]) = ContextIn(f)
    /\ ContextsOf(wire, f) = {} => page.frameCtx[f] = ContextIn(f)
FramesInv ==
  \A d \in Docs :
    /\ \A i \in 1..Len(wire) : Newest(FramesOf(wire, d), i)
         => FrameTold(wire[i]) = FrameIn(d)
    /\ FramesOf(wire, d) = {} => page.frames[d] = FrameIn(d)
DocInv == ExecInv /\ ContextsInv /\ FramesInv

LEMMA NewestMoves ==
  ASSUME NEW S \in SUBSET Nat, NEW R \in SUBSET Nat, \A i \in R : i >= 1 /\ i+1 \in S,
         \A i \in S : i = 1 \/ i-1 \in R
  PROVE  /\ \A i \in R : Newest(R, i) => Newest(S, i+1)
         /\ R = {} => S = {} \/ Newest(S, 1)
<1>1. ASSUME NEW i \in R, Newest(R, i), NEW j \in S PROVE j <= i+1
  <2>1. CASE j = 1
    BY <2>1
  <2>2. CASE j-1 \in R
    <3>1. j-1 <= i
      BY <1>1, <2>2 DEF Newest
    <3>2. QED
      BY <3>1
  <2>3. QED
    BY <2>1, <2>2
<1>2. ASSUME R = {}, S # {} PROVE Newest(S, 1)
  <2>1. \A j \in S : j = 1
    BY <1>2
  <2>2. 1 \in S
    BY <1>2, <2>1
  <2>3. QED
    BY <2>1, <2>2 DEF Newest
<1>3. QED
  BY <1>1, <1>2 DEF Newest

LEMMA TakenContexts ==
  ASSUME TypeOK, wire # <<>>, wire' = Tail(wire), NEW f \in Frames
  PROVE  /\ \A i \in 1..Len(wire') :
              Newest(ContextsOf(wire', f), i) =>
                i+1 \in 1..Len(wire) /\ wire'[i] = wire[i+1]
                        /\ Newest(ContextsOf(wire, f), i+1)
         /\ ContextsOf(wire', f) = {} =>
              \/ ContextsOf(wire, f) = {} /\ ~TellsContext(wire[1], f)
              \/ Newest(ContextsOf(wire, f), 1) /\ TellsContext(wire[1], f)
<1>s. ContextsOf(wire, f) \subseteq Nat /\ ContextsOf(wire', f) \subseteq Nat
  <2>1. 1..Len(wire) \subseteq Nat /\ 1..Len(wire') \subseteq Nat
    OBVIOUS
  <2>2. QED
    BY <2>1 DEF ContextsOf
<1> PICK S \in SUBSET Nat, R \in SUBSET Nat : S = ContextsOf(wire, f)
        /\ R = ContextsOf(wire', f)
  BY <1>s
<1>t. /\ \A i \in 1..Len(wire') : i+1 \in 1..Len(wire) /\ wire'[i] = wire[i+1]
      /\ \A i \in 1..Len(wire) : i = 1 \/ (i-1 \in 1..Len(wire')
           /\ wire'[i-1] = wire[i])
      /\ 1 \in 1..Len(wire)
  BY TakenIs
<1>1. \A i \in R : i >= 1 /\ i+1 \in S
  BY <1>t DEF ContextsOf
<1>2. \A i \in S : i = 1 \/ i-1 \in R
  BY <1>t DEF ContextsOf
<1>3. /\ \A i \in R : Newest(R, i) => Newest(S, i+1)
      /\ R = {} => S = {} \/ Newest(S, 1)
  BY <1>1, <1>2, NewestMoves
<1>4. 1 \in S <=> TellsContext(wire[1], f)
  BY <1>t DEF ContextsOf
<1>5. \A i : Newest(R, i) => i \in R
  BY DEF Newest
<1>6. Newest(S, 1) => 1 \in S
  BY DEF Newest
<1>7. QED
  BY <1>t, <1>3, <1>4, <1>5, <1>6

LEMMA TakenFrames ==
  ASSUME TypeOK, wire # <<>>, wire' = Tail(wire), NEW f \in Frames
  PROVE  /\ \A i \in 1..Len(wire') :
              Newest(FramesOf(wire', f), i) =>
                i+1 \in 1..Len(wire) /\ wire'[i] = wire[i+1]
                        /\ Newest(FramesOf(wire, f), i+1)
         /\ FramesOf(wire', f) = {} =>
              \/ FramesOf(wire, f) = {} /\ ~TellsFrame(wire[1], f)
              \/ Newest(FramesOf(wire, f), 1) /\ TellsFrame(wire[1], f)
<1>s. FramesOf(wire, f) \subseteq Nat /\ FramesOf(wire', f) \subseteq Nat
  <2>1. 1..Len(wire) \subseteq Nat /\ 1..Len(wire') \subseteq Nat
    OBVIOUS
  <2>2. QED
    BY <2>1 DEF FramesOf
<1> PICK S \in SUBSET Nat, R \in SUBSET Nat : S = FramesOf(wire, f)
        /\ R = FramesOf(wire', f)
  BY <1>s
<1>t. /\ \A i \in 1..Len(wire') : i+1 \in 1..Len(wire) /\ wire'[i] = wire[i+1]
      /\ \A i \in 1..Len(wire) : i = 1 \/ (i-1 \in 1..Len(wire')
           /\ wire'[i-1] = wire[i])
      /\ 1 \in 1..Len(wire)
  BY TakenIs
<1>1. \A i \in R : i >= 1 /\ i+1 \in S
  BY <1>t DEF FramesOf
<1>2. \A i \in S : i = 1 \/ i-1 \in R
  BY <1>t DEF FramesOf
<1>3. /\ \A i \in R : Newest(R, i) => Newest(S, i+1)
      /\ R = {} => S = {} \/ Newest(S, 1)
  BY <1>1, <1>2, NewestMoves
<1>4. 1 \in S <=> TellsFrame(wire[1], f)
  BY <1>t DEF FramesOf
<1>5. \A i : Newest(R, i) => i \in R
  BY DEF Newest
<1>6. Newest(S, 1) => 1 \in S
  BY DEF Newest
<1>7. QED
  BY <1>t, <1>3, <1>4, <1>5, <1>6

LEMMA GrownContexts ==
  ASSUME NEW s, Grown(s), NEW f
  PROVE  /\ \A i \in 1..Len(wire') : Newest(ContextsOf(wire', f), i) =>
              \/ /\ i \in 1..Len(wire) /\ wire'[i] = wire[i]
                      /\ Newest(ContextsOf(wire, f), i)
                 /\ \A k \in 1..Len(s) : ~TellsContext(s[k], f)
              \/ \E k \in 1..Len(s) :
                   /\ wire'[i] = s[k] /\ TellsContext(s[k], f)
                   /\ \A l \in 1..Len(s) : TellsContext(s[l], f) => l <= k
         /\ ContextsOf(wire', f) = {} => /\ ContextsOf(wire, f) = {}
                                         /\ \A k \in 1..Len(s) : ~TellsContext(s[k], f)
<1>g. /\ Len(wire') = Len(wire) + Len(s) /\ Len(wire) \in Nat /\ Len(s) \in Nat
      /\ \A i \in 1..Len(wire) : i \in 1..Len(wire') /\ wire'[i] = wire[i]
      /\ \A i \in 1..Len(wire') :
           i \in 1..Len(wire) \/ \E k \in 1..Len(s) : i = Len(wire) + k
                   /\ wire'[i] = s[k]
      /\ \A k \in 1..Len(s) : /\ Len(wire) + k \in 1..Len(wire')
                              /\ wire'[Len(wire) + k] = s[k]
                              /\ Len(wire) + k > Len(wire)
  BY DEF Grown
<1> PICK n \in Nat, z \in Nat : n = Len(wire) /\ z = Len(s)
  BY <1>g
<1>1. ASSUME NEW k \in 1..z, TellsContext(s[k], f) PROVE n + k \in ContextsOf(wire', f)
  BY <1>g, <1>1 DEF ContextsOf
<1>2. ASSUME NEW i \in ContextsOf(wire, f) PROVE i \in ContextsOf(wire', f)
  BY <1>g, <1>2 DEF ContextsOf
<1>3. ASSUME NEW i \in 1..Len(wire'), Newest(ContextsOf(wire', f), i),
             i \in 1..Len(wire)
      PROVE  /\ wire'[i] = wire[i] /\ Newest(ContextsOf(wire, f), i)
             /\ \A k \in 1..z : ~TellsContext(s[k], f)
  <2>1. wire'[i] = wire[i]
    BY <1>3, <1>g
  <2>2. i \in ContextsOf(wire, f)
    BY <2>1, <1>3 DEF ContextsOf, Newest
  <2>3. Newest(ContextsOf(wire, f), i)
    BY <2>2, <1>2, <1>3 DEF Newest
  <2>4. ASSUME NEW k \in 1..z, TellsContext(s[k], f) PROVE FALSE
    <3>1. n + k <= i
      BY <1>1, <1>3, <2>4 DEF Newest
    <3>2. i \in 1..n
      BY <1>3
    <3>3. QED
      BY <3>1, <3>2
  <2>5. QED
    BY <2>1, <2>3, <2>4
<1>4. ASSUME NEW i \in 1..Len(wire'), Newest(ContextsOf(wire', f), i),
             i \notin 1..Len(wire)
      PROVE  \E k \in 1..z : /\ wire'[i] = s[k] /\ TellsContext(s[k], f)
                             /\ \A l \in 1..z : TellsContext(s[l], f) => l <= k
  <2>1. PICK k \in 1..z : i = n + k /\ wire'[i] = s[k]
    BY <1>g, <1>4
  <2>2. TellsContext(s[k], f)
    BY <1>4, <2>1 DEF Newest, ContextsOf
  <2>3. ASSUME NEW l \in 1..z, TellsContext(s[l], f) PROVE l <= k
    <3>1. n + l <= n + k
      BY <1>1, <1>4, <2>1, <2>3 DEF Newest
    <3>2. QED
      BY <3>1
  <2>4. QED
    BY <2>1, <2>2, <2>3
<1>5. QED
  BY <1>1, <1>2, <1>3, <1>4

LEMMA GrownFrames ==
  ASSUME NEW s, Grown(s), NEW f
  PROVE  /\ \A i \in 1..Len(wire') : Newest(FramesOf(wire', f), i) =>
              \/ /\ i \in 1..Len(wire) /\ wire'[i] = wire[i]
                      /\ Newest(FramesOf(wire, f), i)
                 /\ \A k \in 1..Len(s) : ~TellsFrame(s[k], f)
              \/ \E k \in 1..Len(s) :
                   /\ wire'[i] = s[k] /\ TellsFrame(s[k], f)
                   /\ \A l \in 1..Len(s) : TellsFrame(s[l], f) => l <= k
         /\ FramesOf(wire', f) = {} => /\ FramesOf(wire, f) = {}
                                       /\ \A k \in 1..Len(s) : ~TellsFrame(s[k], f)
<1>g. /\ Len(wire') = Len(wire) + Len(s) /\ Len(wire) \in Nat /\ Len(s) \in Nat
      /\ \A i \in 1..Len(wire) : i \in 1..Len(wire') /\ wire'[i] = wire[i]
      /\ \A i \in 1..Len(wire') :
           i \in 1..Len(wire) \/ \E k \in 1..Len(s) : i = Len(wire) + k
                   /\ wire'[i] = s[k]
      /\ \A k \in 1..Len(s) : /\ Len(wire) + k \in 1..Len(wire')
                              /\ wire'[Len(wire) + k] = s[k]
                              /\ Len(wire) + k > Len(wire)
  BY DEF Grown
<1> PICK n \in Nat, z \in Nat : n = Len(wire) /\ z = Len(s)
  BY <1>g
<1>1. ASSUME NEW k \in 1..z, TellsFrame(s[k], f) PROVE n + k \in FramesOf(wire', f)
  BY <1>g, <1>1 DEF FramesOf
<1>2. ASSUME NEW i \in FramesOf(wire, f) PROVE i \in FramesOf(wire', f)
  BY <1>g, <1>2 DEF FramesOf
<1>3. ASSUME NEW i \in 1..Len(wire'), Newest(FramesOf(wire', f), i), i \in 1..Len(wire)
      PROVE  /\ wire'[i] = wire[i] /\ Newest(FramesOf(wire, f), i)
             /\ \A k \in 1..z : ~TellsFrame(s[k], f)
  <2>1. wire'[i] = wire[i]
    BY <1>3, <1>g
  <2>2. i \in FramesOf(wire, f)
    BY <2>1, <1>3 DEF FramesOf, Newest
  <2>3. Newest(FramesOf(wire, f), i)
    BY <2>2, <1>2, <1>3 DEF Newest
  <2>4. ASSUME NEW k \in 1..z, TellsFrame(s[k], f) PROVE FALSE
    <3>1. n + k <= i
      BY <1>1, <1>3, <2>4 DEF Newest
    <3>2. i \in 1..n
      BY <1>3
    <3>3. QED
      BY <3>1, <3>2
  <2>5. QED
    BY <2>1, <2>3, <2>4
<1>4. ASSUME NEW i \in 1..Len(wire'), Newest(FramesOf(wire', f), i),
             i \notin 1..Len(wire)
      PROVE  \E k \in 1..z : /\ wire'[i] = s[k] /\ TellsFrame(s[k], f)
                             /\ \A l \in 1..z : TellsFrame(s[l], f) => l <= k
  <2>1. PICK k \in 1..z : i = n + k /\ wire'[i] = s[k]
    BY <1>g, <1>4
  <2>2. TellsFrame(s[k], f)
    BY <1>4, <2>1 DEF Newest, FramesOf
  <2>3. ASSUME NEW l \in 1..z, TellsFrame(s[l], f) PROVE l <= k
    <3>1. n + l <= n + k
      BY <1>1, <1>4, <2>1, <2>3 DEF Newest
    <3>2. QED
      BY <3>1
  <2>4. QED
    BY <2>1, <2>2, <2>3
<1>5. QED
  BY <1>1, <1>2, <1>3, <1>4


LEMMA HandleKnows ==
  ASSUME TypesInv, Handle
  PROVE  /\ wire # <<>> /\ wire' = Tail(wire) /\ web' = web /\ wire[1] \in Message
         /\ page' \in PageState
         /\ \A f \in Frames : page'.frameCtx[f] = IF TellsContext(wire[1], f)
                                 THEN ContextTold(wire[1]) ELSE page.frameCtx[f]
         /\ \A f \in Frames : page'.frames[f] = IF TellsFrame(wire[1], f)
                                 THEN FrameTold(wire[1]) ELSE page.frames[f]
         /\ page'.execCtx = IF wire[1].t = "context" /\ TellsContext(wire[1], Main)
                            THEN wire[1].c ELSE page.execCtx
         /\ wire[1].t = "context" => wire[1].c \in Ctx /\ wire[1].c.frame = wire[1].f
         /\ page'.ready => page.ready \/ page'.execCtx # None
<1>t. TypeOK /\ FirstInv /\ page \in PageState
  BY DEF TypesInv, TypeOK
<1>w. /\ wire # <<>> /\ wire' = Tail(wire) /\ web' = web
      /\ wire[1] \in Message /\ Head(wire) = wire[1] /\ 1 \in 1..Len(wire)
  BY <1>t, TakenIs DEF Handle
<1>p. page' \in PageState
  BY HandleTypes DEF TypesInv, TypeOK
<1>m. PICK m \in Message : m = wire[1]
  BY <1>w
<1>f. /\ page.mainFrameID \in {Main, None}
      /\ page.mainFrameID = None => m.t = "attached" /\ m.f = Main
      /\ m.t = "context" => m.c.frame = m.f
  BY <1>t, <1>w, <1>m, MessagesAre, DocsAre DEF FirstInv, PageState
<1>g. \A f \in Frames : page.frameCtx \in [Frames -> Ctx \cup {None}]
                        /\ page.frames \in [Frames -> {"unknown", "attached",
                             "committed"}]
  BY <1>t DEF PageState
<1>1. CASE m.t = "context"
  <2>1. page' = OnExecCtxCreated(m)
    BY <1>1, <1>m, <1>w DEF Handle
  <2>2. m.f \in Frames /\ m.c \in Ctx /\ page.mainFrameID = Main
    BY <1>1, <1>f, MessageIs
  <2>3. /\ page'.frames = page.frames
        /\ page'.frameCtx = IF m.c.world = "main" THEN [page.frameCtx EXCEPT ![m.f] = m.c]
                            ELSE page.frameCtx
        /\ page'.execCtx = IF m.c.world = "main"
             /\ m.f = Main THEN m.c ELSE page.execCtx
        /\ page'.ready => page.ready \/ page'.execCtx # None
    BY <1>t, <2>1, <2>2, ContextIs
  <2>4. /\ \A f : TellsContext(m, f) <=> m.c.world = "main" /\ m.f = f
        /\ \A f : ~TellsFrame(m, f) /\ ContextTold(m) = m.c
    BY <1>1 DEF TellsContext, TellsFrame, ContextTold
  <2>5. \A f \in Frames : page'.frameCtx[f] = IF TellsContext(m, f) THEN ContextTold(m)
                                               ELSE page.frameCtx[f]
    BY <1>g, <2>2, <2>3, <2>4
  <2>6. QED
    BY <1>p, <1>w, <1>m, <1>f, <1>1, <2>2, <2>3, <2>4, <2>5
<1>2. CASE m.t = "attached"
  <2>1. page' = OnFrameAttached(m)
    BY <1>2, <1>m, <1>w DEF Handle
  <2>2. m.f \in Frames
    BY <1>2, MessageIs
  <2>3. /\ page'.frames = [page.frames EXCEPT ![m.f] = "attached"]
        /\ page'.frameCtx = page.frameCtx /\ page'.execCtx = page.execCtx
        /\ page'.ready => page.ready \/ page.execCtx # None
    BY <1>t, <2>1, <2>2, AttachedIs
  <2>4. /\ \A f : ~TellsContext(m, f)
        /\ \A f : (TellsFrame(m, f) <=> m.f = f) /\ FrameTold(m) = "attached"
    BY <1>2 DEF TellsContext, TellsFrame, FrameTold
  <2>5. \A f \in Frames : page'.frames[f] = IF TellsFrame(m, f) THEN FrameTold(m)
                                             ELSE page.frames[f]
    BY <1>g, <2>2, <2>3, <2>4
  <2>6. QED
    BY <1>p, <1>w, <1>m, <1>2, <2>2, <2>3, <2>4, <2>5
<1>3. CASE m.t = "detached"
  <2>1. page' = OnFrameDetached(m)
    BY <1>3, <1>m, <1>w DEF Handle
  <2>2. m.f \in Frames
    BY <1>3, MessageIs
  <2>3. /\ page'.frames = [page.frames EXCEPT ![m.f] = "unknown"]
        /\ page'.frameCtx = [page.frameCtx EXCEPT ![m.f] = None]
        /\ page'.execCtx = page.execCtx /\ page'.ready = page.ready
    BY <1>t, <2>1, <2>2, DetachedIs
  <2>4. /\ \A f : (TellsContext(m, f) <=> m.f = f) /\ ContextTold(m) = None
        /\ \A f : (TellsFrame(m, f) <=> m.f = f) /\ FrameTold(m) = "unknown"
    BY <1>3 DEF TellsContext, TellsFrame, FrameTold, ContextTold
  <2>5. \A f \in Frames : page'.frames[f] = IF TellsFrame(m, f) THEN FrameTold(m)
                                             ELSE page.frames[f]
    BY <1>g, <2>2, <2>3, <2>4
  <2>6. \A f \in Frames : page'.frameCtx[f] = IF TellsContext(m, f) THEN ContextTold(m)
                                               ELSE page.frameCtx[f]
    BY <1>g, <2>2, <2>3, <2>4
  <2>7. QED
    BY <1>p, <1>w, <1>m, <1>3, <2>2, <2>3, <2>5, <2>6
<1>4. CASE m.t = "committed"
  <2>1. page' = OnCommitted(m)
    BY <1>4, <1>m, <1>w DEF Handle
  <2>2. m.f \in Frames
    BY <1>4, MessageIs
  <2>3. /\ page'.frames = [page.frames EXCEPT ![m.f] = "committed"]
        /\ page'.frameCtx = page.frameCtx
        /\ page'.execCtx = page.execCtx /\ page'.ready = page.ready
    BY <1>t, <2>1, <2>2, CommittedIs
  <2>4. /\ \A f : ~TellsContext(m, f)
        /\ \A f : (TellsFrame(m, f) <=> m.f = f) /\ FrameTold(m) = "committed"
    BY <1>4 DEF TellsContext, TellsFrame, FrameTold
  <2>5. \A f \in Frames : page'.frames[f] = IF TellsFrame(m, f) THEN FrameTold(m)
                                             ELSE page.frames[f]
    BY <1>g, <2>2, <2>3, <2>4
  <2>6. QED
    BY <1>p, <1>w, <1>m, <1>4, <2>2, <2>3, <2>4, <2>5
<1>5. CASE m.t = "reply"
  <2>1. page' = page
    BY <1>5, <1>m, <1>w DEF Handle
  <2>2. \A f : ~TellsContext(m, f) /\ ~TellsFrame(m, f)
    BY <1>5 DEF TellsContext, TellsFrame
  <2>3. QED
    BY <1>p, <1>w, <1>m, <1>5, <2>1, <2>2
<1>6. QED
  BY <1>1, <1>2, <1>3, <1>4, <1>5, MessageIs
LEMMA DocInit == Init => DocInv
<1> SUFFICES ASSUME Init PROVE DocInv
  OBVIOUS
<1>1. /\ Len(wire) = 3 /\ wire[1] = Event("attached", Main)
        /\ wire[2] = MainCtx(1, "main")
      /\ wire[3] = MainCtx(1, "isolated")
           /\ \A i \in 1..Len(wire) : i = 1 \/ i = 2 \/ i = 3
  BY DEF Init
<1>2. /\ \A f : ~TellsContext(wire[1], f) /\ ~TellsContext(wire[3], f)
      /\ \A f : TellsContext(wire[2], f) <=> f = Main
      /\ ContextTold(wire[2]) = MainCtx(1, "main").c
      /\ \A f \in Docs : ~TellsFrame(wire[1], f) /\ ~TellsFrame(wire[2], f)
           /\ ~TellsFrame(wire[3], f)
      /\ \A i \in 1..Len(wire) : wire[i].t # "detached"
  <2>1. /\ Event("attached", Main).t = "attached" /\ Event("attached", Main).f = Main
        /\ MainCtx(1, "main").t = "context" /\ MainCtx(1, "main").f = Main
        /\ MainCtx(1, "main").c.world = "main"
        /\ MainCtx(1, "isolated").t = "context" /\ MainCtx(1, "isolated").f = Main
        /\ MainCtx(1, "isolated").c.world = "isolated"
    BY DEF Event, MainCtx
  <2>2. QED
    BY <1>1, <2>1, DocsAre DEF TellsContext, TellsFrame, ContextTold
<1>3. /\ web.doc = 1 /\ web.child = "never" /\ page.execCtx = None /\ ~page.ready
      /\ \A f \in Frames : page.frameCtx[f] = None /\ page.frames[f] = "unknown"
  BY DEF Init
<1>4. \A f \in Frames : /\ ~Has(f)
                        /\ ContextIn(f) = IF f = Main THEN MainCtx(1,
                             "main").c ELSE None
                        /\ FrameIn(f) = "unknown"
  BY <1>3 DEF Has, ContextIn, FrameIn
<1>5. ContextsInv
  <2>1. \A f \in Frames : ContextsOf(wire, f) = IF f = Main THEN {2} ELSE {}
    BY <1>1, <1>2 DEF ContextsOf
  <2>2. \A f \in Frames : f # Main => page.frameCtx[f] = ContextIn(f)
    BY <1>3, <1>4
  <2>3. ContextTold(wire[2]) = ContextIn(Main)
    BY <1>2, <1>4, DocsAre
  <2>4. \A f \in Frames : \A i \in 1..Len(wire) : Newest(ContextsOf(wire, f), i)
          => f = Main /\ i = 2
    BY <2>1 DEF Newest
  <2>5. QED
    BY <2>1, <2>2, <2>3, <2>4 DEF ContextsInv
<1>6. FramesInv
  <2>1. \A d \in Docs : FramesOf(wire, d) = {}
    BY <1>1, <1>2 DEF FramesOf
  <2>2. QED
    BY <2>1, <1>3, <1>4, DocsAre DEF FramesInv, Newest
<1>7. ExecInv
  BY <1>2, <1>3, DocsAre DEF ExecInv
<1>8. QED
  BY <1>5, <1>6, <1>7 DEF DocInv

LEMMA DocHandle == ASSUME TypesInv, DocInv, Handle PROVE DocInv'
<1>t. TypeOK
  BY DEF TypesInv
<1>k. /\ wire # <<>> /\ wire' = Tail(wire) /\ web' = web /\ wire[1] \in Message
      /\ \A f \in Frames : page'.frameCtx[f] = IF TellsContext(wire[1], f)
                              THEN ContextTold(wire[1]) ELSE page.frameCtx[f]
      /\ \A f \in Frames : page'.frames[f] = IF TellsFrame(wire[1], f)
                              THEN FrameTold(wire[1]) ELSE page.frames[f]
      /\ page'.execCtx = IF wire[1].t = "context" /\ TellsContext(wire[1], Main)
                         THEN wire[1].c ELSE page.execCtx
      /\ wire[1].t = "context" => wire[1].c \in Ctx /\ wire[1].c.frame = wire[1].f
      /\ page'.ready => page.ready \/ page'.execCtx # None
  BY HandleKnows
<1>w. /\ 1 \in 1..Len(wire)
      /\ \A i \in 1..Len(wire') : i+1 \in 1..Len(wire) /\ wire'[i] = wire[i+1]
  BY <1>t, <1>k, TakenIs
<1>v. /\ \A f : ContextIn(f)' = ContextIn(f)
      /\ \A d : FrameIn(d)' = FrameIn(d)
  BY <1>k DEF ContextIn, FrameIn, Has
<1>1. ExecInv'
  <2>1. wire[1].t = "detached" => wire[1].f # Main
    BY <1>w, DocsAre DEF DocInv, ExecInv
  <2>2. page'.execCtx = page'.frameCtx[Main]
    <3>1. TellsContext(wire[1], Main) => wire[1].t = "context"
            /\ ContextTold(wire[1]) = wire[1].c
      BY <2>1 DEF TellsContext, ContextTold
    <3>2. page.execCtx = page.frameCtx[Main]
      BY DEF DocInv, ExecInv
    <3>3. QED
      BY <1>k, <3>1, <3>2, DocsAre
  <2>3. page'.execCtx # None => page'.execCtx.frame = Main
          /\ page'.execCtx.world = "main"
    <3>1. CASE wire[1].t = "context" /\ TellsContext(wire[1], Main)
      BY <1>k, <3>1 DEF TellsContext
    <3>2. CASE ~(wire[1].t = "context" /\ TellsContext(wire[1], Main))
      BY <1>k, <3>2 DEF DocInv, ExecInv
    <3>3. QED
      BY <3>1, <3>2
  <2>4. page'.ready => page'.execCtx # None
    BY <1>k, NoneAssumption DEF DocInv, ExecInv
  <2>5. \A i \in 1..Len(wire') : wire'[i].t = "detached" => wire'[i].f \in Docs
    BY <1>w DEF DocInv, ExecInv
  <2>6. QED
    BY <2>2, <2>3, <2>4, <2>5 DEF ExecInv
<1>2. ContextsInv'
  <2>1. ASSUME NEW f \in Frames
        PROVE  /\ \A i \in 1..Len(wire') : Newest(ContextsOf(wire', f), i)
                                             => ContextTold(wire'[i]) = ContextIn(f)
               /\ ContextsOf(wire', f) = {} => page'.frameCtx[f] = ContextIn(f)
    <3>1. /\ \A i \in 1..Len(wire) : Newest(ContextsOf(wire, f), i)
            => ContextTold(wire[i]) = ContextIn(f)
          /\ ContextsOf(wire, f) = {} => page.frameCtx[f] = ContextIn(f)
      BY DEF DocInv, ContextsInv
    <3>2. /\ \A i \in 1..Len(wire') :
               Newest(ContextsOf(wire', f), i) =>
                 i+1 \in 1..Len(wire) /\ wire'[i] = wire[i+1]
                         /\ Newest(ContextsOf(wire, f), i+1)
          /\ ContextsOf(wire', f) = {} =>
               \/ ContextsOf(wire, f) = {} /\ ~TellsContext(wire[1], f)
               \/ Newest(ContextsOf(wire, f), 1) /\ TellsContext(wire[1], f)
      BY <1>t, <1>k, TakenContexts
    <3>3. QED
      BY <1>k, <1>w, <3>1, <3>2
  <2>2. QED
    BY <1>v, <2>1 DEF ContextsInv
<1>3. FramesInv'
  <2>1. ASSUME NEW f \in Docs
        PROVE  /\ \A i \in 1..Len(wire') : Newest(FramesOf(wire', f), i)
                                             => FrameTold(wire'[i]) = FrameIn(f)
               /\ FramesOf(wire', f) = {} => page'.frames[f] = FrameIn(f)
    <3>1. /\ \A i \in 1..Len(wire) : Newest(FramesOf(wire, f), i)
            => FrameTold(wire[i]) = FrameIn(f)
          /\ FramesOf(wire, f) = {} => page.frames[f] = FrameIn(f)
      BY DEF DocInv, FramesInv
    <3>0. f \in Frames
      BY DocsAre
    <3>2. /\ \A i \in 1..Len(wire') :
               Newest(FramesOf(wire', f), i) =>
                 i+1 \in 1..Len(wire) /\ wire'[i] = wire[i+1]
                         /\ Newest(FramesOf(wire, f), i+1)
          /\ FramesOf(wire', f) = {} =>
               \/ FramesOf(wire, f) = {} /\ ~TellsFrame(wire[1], f)
               \/ Newest(FramesOf(wire, f), 1) /\ TellsFrame(wire[1], f)
      BY <1>t, <1>k, <3>0, TakenFrames
    <3>3. QED
      BY <1>k, <1>w, <3>0, <3>1, <3>2
  <2>2. QED
    BY <1>v, <2>1 DEF FramesInv
<1>4. QED
  BY <1>1, <1>2, <1>3 DEF DocInv

(* A step that says nothing of the document, or nothing at all. *)
LEMMA DocQuiet ==
  ASSUME DocInv, page' = page, web'.doc = web.doc, web'.child = web.child,
         wire' = wire \/ \E s : Grown(s) /\ \A k \in 1..Len(s) : s[k].t = "reply"
  PROVE  DocInv'
<1>v. /\ \A f : ContextIn(f)' = ContextIn(f)
      /\ \A d : FrameIn(d)' = FrameIn(d)
  BY DEF ContextIn, FrameIn, Has
<1>1. CASE wire' = wire
  BY <1>v, <1>1 DEF DocInv, ExecInv, ContextsInv, FramesInv
<1>2. ASSUME NEW s, Grown(s), \A k \in 1..Len(s) : s[k].t = "reply"
      PROVE  DocInv'
  <2>1. \A k \in 1..Len(s) : \A f : ~TellsContext(s[k], f) /\ ~TellsFrame(s[k], f)
    BY <1>2 DEF TellsContext, TellsFrame
  <2>2. ExecInv'
    <3>1. ASSUME NEW i \in 1..Len(wire'), wire'[i].t = "detached"
          PROVE  wire'[i].f \in Docs
      <4>1. CASE i \in 1..Len(wire)
        BY <1>2, <3>1, <4>1 DEF Grown, DocInv, ExecInv
      <4>2. CASE \E k \in 1..Len(s) : wire'[i] = s[k]
        BY <1>2, <3>1, <4>2
      <4>3. QED
        BY <1>2, <4>1, <4>2 DEF Grown
    <3>2. QED
      BY <3>1 DEF DocInv, ExecInv
  <2>3. ContextsInv'
    <3>1. ASSUME NEW f \in Frames
          PROVE  /\ \A i \in 1..Len(wire') : Newest(ContextsOf(wire', f), i)
                                               => ContextTold(wire'[i]) = ContextIn(f)
                 /\ ContextsOf(wire', f) = {} => page'.frameCtx[f] = ContextIn(f)
      BY <1>2, <2>1, GrownContexts DEF DocInv, ContextsInv
    <3>2. QED
      BY <1>v, <3>1 DEF ContextsInv
  <2>4. FramesInv'
    <3>1. ASSUME NEW f \in Docs
          PROVE  /\ \A i \in 1..Len(wire') : Newest(FramesOf(wire', f), i)
                                               => FrameTold(wire'[i]) = FrameIn(f)
                 /\ FramesOf(wire', f) = {} => page'.frames[f] = FrameIn(f)
      BY <1>2, <2>1, GrownFrames DEF DocInv, FramesInv
    <3>2. QED
      BY <1>v, <3>1 DEF FramesInv
  <2>5. QED
    BY <2>2, <2>3, <2>4 DEF DocInv
<1>3. QED
  BY <1>1, <1>2

LEMMA DocNavigate == ASSUME TypesInv, DocInv, Navigate PROVE DocInv'
<1>t. TypeOK /\ page' = page
  BY DEF TypesInv, Navigate
<1>0. PICK s : NavigateSays(s)
  BY <1>t, NavigateIs
<1>s. /\ Grown(s) /\ web'.doc \in Docs /\ web'.doc # web.doc /\ web'.child = "never"
      /\ web.doc \in Docs
      /\ \E k \in 1..Len(s) : s[k] = MainCtx(web'.doc, "main")
      /\ \A k \in 1..Len(s) :
           /\ s[k].t = "context" => \E w \in {"main", "isolated"} :
                s[k] = MainCtx(web'.doc, w)
           /\ s[k].t # "context" => \/ s[k] = Event("committed", Main)
                                    \/ s[k] = Event("detached", web.doc)
      /\ web.child = "attached" => \E k \in 1..Len(s) :
           s[k] = Event("detached", web.doc)
  BY <1>0, <1>t DEF NavigateSays, TypeOK, WebState
<1>v. /\ ContextIn(Main)' = MainCtx(web'.doc, "main").c
      /\ \A f \in Docs : ContextIn(f)' = None /\ FrameIn(f)' = "unknown"
  BY <1>s, DocsAre DEF ContextIn, FrameIn, Has
<1>m. \A k \in 1..Len(s) :
        /\ TellsContext(s[k], Main) => ContextTold(s[k]) = MainCtx(web'.doc, "main").c
        /\ \A f \in Docs : TellsContext(s[k], f) => ContextTold(s[k]) = None
        /\ \A f \in Docs : TellsFrame(s[k], f) => FrameTold(s[k]) = "unknown"
        /\ s[k].t = "detached" => s[k].f \in Docs
  <2>1. ASSUME NEW k \in 1..Len(s), s[k].t = "context"
        PROVE  /\ TellsContext(s[k], Main)
                => ContextTold(s[k]) = MainCtx(web'.doc, "main").c
               /\ \A f \in Docs : ~TellsContext(s[k], f) /\ ~TellsFrame(s[k], f)
    <3>1. PICK w \in {"main", "isolated"} : s[k] = MainCtx(web'.doc, w)
      BY <1>s, <2>1
    <3>2. s[k].t = "context" /\ s[k].f = Main /\ s[k].c.world = w
            /\ (w = "main" => s[k].c = MainCtx(web'.doc, "main").c)
      BY <3>1 DEF MainCtx
    <3>3. QED
      BY <3>2, DocsAre DEF TellsContext, TellsFrame, ContextTold
  <2>2. ASSUME NEW k \in 1..Len(s), s[k].t # "context"
        PROVE  /\ ~TellsContext(s[k], Main) /\ (s[k].t = "detached" => s[k].f \in Docs)
               /\ \A f \in Docs : /\ TellsContext(s[k], f) => ContextTold(s[k]) = None
                                  /\ TellsFrame(s[k], f) => FrameTold(s[k]) = "unknown"
    <3>1. s[k] = Event("committed", Main) \/ s[k] = Event("detached", web.doc)
      BY <1>s, <2>2
    <3>2. \/ s[k].t = "committed" /\ s[k].f = Main
          \/ s[k].t = "detached" /\ s[k].f = web.doc
      BY <3>1 DEF Event
    <3>3. QED
      BY <1>s, <3>2, DocsAre DEF TellsContext, TellsFrame, ContextTold, FrameTold
  <2>3. QED
    BY <2>1, <2>2
<1>a. \E k \in 1..Len(s) : TellsContext(s[k], Main)
  BY <1>s DEF TellsContext, MainCtx
<1>b. ASSUME NEW f \in Docs, Has(f)
      PROVE  /\ \E k \in 1..Len(s) : TellsContext(s[k], f)
             /\ \E k \in 1..Len(s) : TellsFrame(s[k], f)
  <2>1. PICK k \in 1..Len(s) : s[k] = Event("detached", f)
    BY <1>b, <1>s DEF Has
  <2>2. s[k].t = "detached" /\ s[k].f = f
    BY <2>1 DEF Event
  <2>3. QED
    BY <2>2 DEF TellsContext, TellsFrame
<1>c. \A f \in Docs : ~Has(f) => ContextIn(f) = None /\ FrameIn(f) = "unknown"
  BY DocsAre DEF ContextIn, FrameIn
<1>1. ExecInv'
  <2>1. ASSUME NEW i \in 1..Len(wire'), wire'[i].t = "detached"
        PROVE  wire'[i].f \in Docs
    <3>1. CASE i \in 1..Len(wire)
      BY <1>s, <2>1, <3>1 DEF Grown, DocInv, ExecInv
    <3>2. CASE \E k \in 1..Len(s) : wire'[i] = s[k]
      BY <1>m, <2>1, <3>2
    <3>3. QED
      BY <1>s, <3>1, <3>2 DEF Grown
  <2>2. QED
    BY <1>t, <2>1 DEF DocInv, ExecInv
<1>2. ContextsInv'
  <2>1. ASSUME NEW f \in Frames
        PROVE  /\ \A i \in 1..Len(wire') : Newest(ContextsOf(wire', f), i)
                                             => ContextTold(wire'[i]) = ContextIn(f)'
               /\ ContextsOf(wire', f) = {} => page'.frameCtx[f] = ContextIn(f)'
    <3>g. /\ \A i \in 1..Len(wire') : Newest(ContextsOf(wire', f), i) =>
               \/ /\ i \in 1..Len(wire) /\ wire'[i] = wire[i]
                       /\ Newest(ContextsOf(wire, f), i)
                  /\ \A k \in 1..Len(s) : ~TellsContext(s[k], f)
               \/ \E k \in 1..Len(s) : wire'[i] = s[k] /\ TellsContext(s[k], f)
          /\ ContextsOf(wire', f) = {} => /\ ContextsOf(wire, f) = {}
                                          /\ \A k \in 1..Len(s) : ~TellsContext(s[k], f)
      BY <1>s, GrownContexts
    <3>1. CASE f = Main
      BY <1>v, <1>m, <1>a, <3>g, <3>1
    <3>2. CASE f \in Docs
      <4>1. (\A k \in 1..Len(s) : ~TellsContext(s[k], f)) => ContextIn(f) = None
        BY <1>b, <1>c, <3>2
      <4>2. \A i \in 1..Len(wire) : Newest(ContextsOf(wire, f), i)
              => ContextTold(wire[i]) = ContextIn(f)
        BY DEF DocInv, ContextsInv
      <4>3. ContextsOf(wire, f) = {} => page.frameCtx[f] = ContextIn(f)
        BY DEF DocInv, ContextsInv
      <4>4. QED
        BY <1>t, <1>v, <1>m, <3>g, <3>2, <4>1, <4>2, <4>3
    <3>3. QED
      BY <3>1, <3>2 DEF Frames
  <2>2. QED
    BY <2>1 DEF ContextsInv
<1>3. FramesInv'
  <2>1. ASSUME NEW f \in Docs
        PROVE  /\ \A i \in 1..Len(wire') : Newest(FramesOf(wire', f), i)
                                             => FrameTold(wire'[i]) = FrameIn(f)'
               /\ FramesOf(wire', f) = {} => page'.frames[f] = FrameIn(f)'
    <3>g. /\ \A i \in 1..Len(wire') : Newest(FramesOf(wire', f), i) =>
               \/ /\ i \in 1..Len(wire) /\ wire'[i] = wire[i]
                       /\ Newest(FramesOf(wire, f), i)
                  /\ \A k \in 1..Len(s) : ~TellsFrame(s[k], f)
               \/ \E k \in 1..Len(s) : wire'[i] = s[k] /\ TellsFrame(s[k], f)
          /\ FramesOf(wire', f) = {} => /\ FramesOf(wire, f) = {}
                                        /\ \A k \in 1..Len(s) : ~TellsFrame(s[k], f)
      BY <1>s, GrownFrames
    <3>1. (\A k \in 1..Len(s) : ~TellsFrame(s[k], f)) => FrameIn(f) = "unknown"
      BY <1>b, <1>c
    <3>2. \A i \in 1..Len(wire) : Newest(FramesOf(wire, f), i)
            => FrameTold(wire[i]) = FrameIn(f)
      BY DEF DocInv, FramesInv
    <3>3. FramesOf(wire, f) = {} => page.frames[f] = FrameIn(f)
      BY DEF DocInv, FramesInv
    <3>4. QED
      BY <1>t, <1>v, <1>m, <3>g, <3>1, <3>2, <3>3
  <2>2. QED
    BY <2>1 DEF FramesInv
<1>4. QED
  BY <1>1, <1>2, <1>3 DEF DocInv

(* The child frame comes or goes: what is said of it last is how it is. *)
LEMMA DocChild ==
  ASSUME TypesInv, DocInv, AttachChild \/ DetachChild
  PROVE  DocInv'
<1>t. TypeOK /\ page' = page /\ web.doc \in Docs /\ web'.doc = web.doc
      /\ web \in WebState
  BY DEF TypesInv, TypeOK, WebState, AttachChild, DetachChild
<1>d. PICK d \in Docs : d = web.doc
  BY <1>t
<1>s. \E s : /\ Grown(s)
             /\ \A k \in 1..Len(s) : s[k].f = d
             /\ \E k \in 1..Len(s) : TellsContext(s[k], d)
             /\ \E k \in 1..Len(s) : TellsFrame(s[k], d)
             /\ \A k \in 1..Len(s) : TellsContext(s[k], d)
                  => ContextTold(s[k]) = ContextIn(d)'
             /\ \A k \in 1..Len(s) :
                  TellsFrame(s[k], d) /\ (\A l \in 1..Len(s) : TellsFrame(s[l], d)
                          => l <= k)
                    => FrameTold(s[k]) = FrameIn(d)'
  <2>1. CASE AttachChild
    <3>1. PICK s : AttachSays(s)
      BY <1>t, <2>1, AttachIs
    <3>2. /\ Len(s) = 3 /\ s[1].t = "attached" /\ s[1].f = d
          /\ s[2].t = "context" /\ s[2].f = d /\ s[2].c = ChildCtx(d).c
               /\ s[2].c.world = "main"
          /\ s[3].t = "committed" /\ s[3].f = d /\ Grown(s)
      BY <1>d, <3>1 DEF AttachSays, Event, ChildCtx
    <3>3. web'.child = "attached"
      BY <2>1, <1>t DEF AttachChild, WebState
    <3>4. ContextIn(d)' = ChildCtx(d).c /\ FrameIn(d)' = "committed"
      BY <1>t, <1>d, <3>3, DocsAre DEF ContextIn, FrameIn, Has
    <3>5. \A k \in 1..Len(s) : k = 1 \/ k = 2 \/ k = 3
      BY <3>2
    <3>6. 1 \in 1..Len(s) /\ 2 \in 1..Len(s) /\ 3 \in 1..Len(s)
      BY <3>2
    <3>7. /\ ~TellsContext(s[1], d) /\ TellsContext(s[2], d) /\ ~TellsContext(s[3], d)
          /\ ContextTold(s[2]) = ChildCtx(d).c
          /\ TellsFrame(s[1], d) /\ ~TellsFrame(s[2], d) /\ TellsFrame(s[3], d)
          /\ FrameTold(s[3]) = "committed"
      BY <3>2 DEF TellsContext, TellsFrame, ContextTold, FrameTold
    <3>8. \A k \in 1..Len(s) :
            TellsFrame(s[k], d) /\ (\A l \in 1..Len(s) : TellsFrame(s[l], d) => l <= k)
                    => k = 3
      BY <3>5, <3>6, <3>7
    <3>9. QED
      BY <3>2, <3>4, <3>5, <3>6, <3>7, <3>8
  <2>2. CASE DetachChild
    <3>1. PICK s : s = <<Event("detached", d)>>
      OBVIOUS
    <3>2. Len(s) = 1 /\ s[1].t = "detached" /\ s[1].f = d /\ Grown(s)
      BY <1>t, <1>d, <2>2, <3>1, DetachIs DEF Event
    <3>3. web'.child = "gone"
      BY <2>2, <1>t DEF DetachChild, WebState
    <3>4. ContextIn(d)' = None /\ FrameIn(d)' = "unknown"
      BY <1>t, <1>d, <3>3, DocsAre DEF ContextIn, FrameIn, Has
    <3>5. \A k \in 1..Len(s) : k = 1
      BY <3>2
    <3>6. 1 \in 1..Len(s)
      BY <3>2
    <3>7. /\ TellsContext(s[1], d) /\ ContextTold(s[1]) = None
          /\ TellsFrame(s[1], d) /\ FrameTold(s[1]) = "unknown"
      BY <3>2 DEF TellsContext, TellsFrame, ContextTold, FrameTold
    <3>8. QED
      BY <3>2, <3>4, <3>5, <3>6, <3>7
  <2>3. QED
    BY <2>1, <2>2
<1>v. /\ \A f : f # d => Has(f)' = Has(f)
      /\ \A f : f # d => ContextIn(f)' = ContextIn(f) /\ FrameIn(f)' = FrameIn(f)
  BY <1>t, <1>d DEF ContextIn, FrameIn, Has
<1>0. PICK s : /\ Grown(s)
               /\ \A k \in 1..Len(s) : s[k].f = d
               /\ \E k \in 1..Len(s) : TellsContext(s[k], d)
               /\ \E k \in 1..Len(s) : TellsFrame(s[k], d)
               /\ \A k \in 1..Len(s) : TellsContext(s[k], d)
                    => ContextTold(s[k]) = ContextIn(d)'
               /\ \A k \in 1..Len(s) :
                    TellsFrame(s[k], d)
                            /\ (\A l \in 1..Len(s) : TellsFrame(s[l], d) => l <= k)
                      => FrameTold(s[k]) = FrameIn(d)'
  BY <1>s
<1>o. \A f : f # d => \A k \in 1..Len(s) : ~TellsContext(s[k], f)
        /\ ~TellsFrame(s[k], f)
  BY <1>0 DEF TellsContext, TellsFrame
<1>1. ExecInv'
  <2>1. ASSUME NEW i \in 1..Len(wire'), wire'[i].t = "detached"
        PROVE  wire'[i].f \in Docs
    <3>1. CASE i \in 1..Len(wire)
      BY <1>0, <2>1, <3>1 DEF Grown, DocInv, ExecInv
    <3>2. CASE \E k \in 1..Len(s) : wire'[i] = s[k]
      BY <1>0, <1>d, <2>1, <3>2
    <3>3. QED
      BY <1>0, <3>1, <3>2 DEF Grown
  <2>2. QED
    BY <1>t, <2>1 DEF DocInv, ExecInv
<1>2. ContextsInv'
  <2>1. ASSUME NEW f \in Frames
        PROVE  /\ \A i \in 1..Len(wire') : Newest(ContextsOf(wire', f), i)
                                             => ContextTold(wire'[i]) = ContextIn(f)'
               /\ ContextsOf(wire', f) = {} => page'.frameCtx[f] = ContextIn(f)'
    <3>g. /\ \A i \in 1..Len(wire') : Newest(ContextsOf(wire', f), i) =>
               \/ /\ i \in 1..Len(wire) /\ wire'[i] = wire[i]
                       /\ Newest(ContextsOf(wire, f), i)
                  /\ \A k \in 1..Len(s) : ~TellsContext(s[k], f)
               \/ \E k \in 1..Len(s) : wire'[i] = s[k] /\ TellsContext(s[k], f)
          /\ ContextsOf(wire', f) = {} => /\ ContextsOf(wire, f) = {}
                                          /\ \A k \in 1..Len(s) : ~TellsContext(s[k], f)
      BY <1>0, GrownContexts
    <3>1. CASE f = d
      BY <1>0, <3>g, <3>1
    <3>2. CASE f # d
      BY <1>t, <1>v, <1>o, <3>g, <3>2 DEF DocInv, ContextsInv
    <3>3. QED
      BY <3>1, <3>2
  <2>2. QED
    BY <2>1 DEF ContextsInv
<1>3. FramesInv'
  <2>1. ASSUME NEW f \in Docs
        PROVE  /\ \A i \in 1..Len(wire') : Newest(FramesOf(wire', f), i)
                                             => FrameTold(wire'[i]) = FrameIn(f)'
               /\ FramesOf(wire', f) = {} => page'.frames[f] = FrameIn(f)'
    <3>g. /\ \A i \in 1..Len(wire') : Newest(FramesOf(wire', f), i) =>
               \/ /\ i \in 1..Len(wire) /\ wire'[i] = wire[i]
                       /\ Newest(FramesOf(wire, f), i)
                  /\ \A k \in 1..Len(s) : ~TellsFrame(s[k], f)
               \/ \E k \in 1..Len(s) :
                    /\ wire'[i] = s[k] /\ TellsFrame(s[k], f)
                    /\ \A l \in 1..Len(s) : TellsFrame(s[l], f) => l <= k
          /\ FramesOf(wire', f) = {} => /\ FramesOf(wire, f) = {}
                                        /\ \A k \in 1..Len(s) : ~TellsFrame(s[k], f)
      BY <1>0, GrownFrames
    <3>1. CASE f = d
      BY <1>0, <3>g, <3>1
    <3>2. CASE f # d
      BY <1>t, <1>v, <1>o, <3>g, <3>2 DEF DocInv, FramesInv
    <3>3. QED
      BY <3>1, <3>2
  <2>2. QED
    BY <2>1 DEF FramesInv
<1>4. QED
  BY <1>1, <1>2, <1>3 DEF DocInv

LEMMA DocStep == TypesInv /\ DocInv /\ [Next]_vars => DocInv'
<1> SUFFICES ASSUME TypesInv, DocInv, [Next]_vars PROVE DocInv'
  OBVIOUS
<1>t. TypeOK
  BY DEF TypesInv
<1>1. CASE UNCHANGED vars
  BY <1>1, DocQuiet DEF vars
<1>2. CASE Shift \/ Blur \/ Appear
  <2>1. web \in WebState
    BY <1>t DEF TypeOK
  <2>2. page' = page /\ wire' = wire /\ web'.doc = web.doc /\ web'.child = web.child
    BY <1>2, <2>1 DEF Shift, Blur, Appear, WebState
  <2>3. QED
    BY <2>2, DocQuiet
<1>3. ASSUME NEW o \in Ops, Start(o) \/ Send(o) \/ FindFrame(o) \/ Resume(o)
             \/ Elapse(o)
      PROVE  DocInv'
  <2>1. page' = page /\ wire' = wire /\ web' = web
    BY <1>3 DEF Start, Send, FindFrame, Resume, Elapse
  <2>2. QED
    BY <2>1, DocQuiet
<1>4. ASSUME NEW o \in Ops, Serve(o) PROVE DocInv'
  <2>1. web'.doc = web.doc /\ web'.child = web.child
    BY <1>t, <1>4, ServeIs
  <2>2. PICK s : s = <<ReplyTo(o)>>
    OBVIOUS
  <2>3. Grown(s) /\ \A k \in 1..Len(s) : s[k].t = "reply"
    BY <1>t, <1>4, <2>2, ReplyIs
  <2>4. page' = page
    BY <1>4 DEF Serve
  <2>5. QED
    BY <2>1, <2>3, <2>4, DocQuiet
<1>5. ASSUME NEW o \in Ops, Refuse(o) PROVE DocInv'
  <2>1. page' = page /\ web'.doc = web.doc /\ web'.child = web.child
    BY <1>5 DEF Refuse
  <2>2. PICK s : s = <<RefusalOf(o)>>
    OBVIOUS
  <2>3. Grown(s) /\ \A k \in 1..Len(s) : s[k].t = "reply"
    BY <1>t, <1>5, <2>2, RefusalIs
  <2>4. QED
    BY <2>1, <2>3, DocQuiet
<1>6. QED
  BY <1>1, <1>2, <1>3, <1>4, <1>5, DocHandle, DocNavigate, DocChild DEF Next

(* However far readLoop is behind the browser, the execution context that  *)
(* calls name is a main-world context of the main frame, and when it has   *)
(* caught up it is that of the document shown, with the frames that the    *)
(* document has (onExecutionContextCreated to onNavigationCommitted).      *)
THEOREM KnowsDocument == Spec => []KnowsTheDocument
<1>1. TypesInv /\ DocInv => KnowsTheDocument
  <2> SUFFICES ASSUME TypesInv, DocInv PROVE KnowsTheDocument
    OBVIOUS
  <2>1. ASSUME ~Behind
        PROVE  /\ \A f \in Frames : ContextsOf(wire, f) = {}
               /\ \A d \in Docs : FramesOf(wire, d) = {}
    BY <2>1 DEF Behind, ContextsOf, FramesOf, TellsContext, TellsFrame
  <2>2. ASSUME ~Behind
        PROVE  /\ page.execCtx = MainCtx(web.doc, "main").c
               /\ \A d \in Docs :
                    /\ page.frames[d] = IF Has(d) THEN "committed" ELSE "unknown"
                    /\ page.frameCtx[d] = IF Has(d) THEN ChildCtx(d).c ELSE None
    <3>1. \A f \in Frames : page.frameCtx[f] = ContextIn(f)
      BY <2>1, <2>2 DEF DocInv, ContextsInv
    <3>2. \A d \in Docs : page.frames[d] = FrameIn(d)
      BY <2>1, <2>2 DEF DocInv, FramesInv
    <3>3. QED
      BY <3>1, <3>2, DocsAre DEF ContextIn, FrameIn, DocInv, ExecInv
  <2>3. QED
    BY <2>2 DEF KnowsTheDocument, DocInv, ExecInv, Has
<1>2. QED
  BY <1>1, TypesInit, TypesStep, DocInit, DocStep, PTL DEF Spec
-----------------------------------------------------------------------------
(* Undisturbed operations.  A request is out or its answer is, and it is   *)
(* of the step the operation is at.                                        *)
RepliesTo(w, o) == {i \in 1..Len(w) : w[i].t = "reply" /\ w[i].o = o}
RequestOf(o) ==
  /\ op[o].phase \in {"idle", "go", "answered"}
       => req[o] = None /\ RepliesTo(wire, o) = {}
  /\ op[o].phase = "sent" => \/ req[o] # None /\ RepliesTo(wire, o) = {}
                             \/ req[o] = None /\ \A i, j \in RepliesTo(wire, o) : i = j
  /\ op[o].phase = "sent" /\ req[o] # None =>
       req[o].step = Step(o) /\ req[o].obj = op[o].obj /\ req[o].box = op[o].box
  /\ op[o].phase \in {"sent", "answered"} => Step(o) # "findFrame"
  /\ op[o].phase # "done" => op[o].result = None
RequestInv == \A o \in Ops : RequestOf(o)

(* What is so of an operation that nothing has disturbed: the calls served *)
(* have had their effect and no other call's, what it took from them is    *)
(* still so, and what is out names the document that the browser shows.    *)
Smooth(o) == Running(o) /\ ~op[o].disturbed
Served(o) == op[o].phase = "answered" \/ (op[o].phase = "sent" /\ req[o] = None)
Past(o, S) == Earlier(Program(op[o].prog), op[o].at, S)
Did(o, S) == Past(o, S) \/ (Step(o) \in S /\ Served(o))

HeardAll(o) ==
  /\ ContextsOf(wire, Main) = {}
  /\ op[o].prog = "FrameBox" => \A d \in Docs : ~Has(d) => FramesOf(wire, d) = {}
NamesRight(o) ==
  /\ Past(o, Finds) => op[o].obj = web.doc
  /\ Past(o, {"findFrame"}) => web.child = "attached"
  /\ Past(o, {"quads"}) => op[o].box = Here
  /\ op[o].phase = "sent" /\ req[o] # None => req[o].ctx = MainCtx(web.doc, "main").c
HasEffect(o) ==
  /\ Did(o, {"scroll"}) => web.shown
  /\ Did(o, {"focus"}) => web.focus
  /\ Did(o, {"down"}) /\ ~Did(o, {"up"}) => web.pressed = "element"
  /\ Past(o, {"checked"}) /\ ~Did(o, {"up"}) => web.checked # Wants(o)
  /\ Past(o, {"checked"}) /\ Did(o, {"up"}) => web.checked = Wants(o)
  /\ Did(o, {"keydown"}) \/ Served(o) => op[o].landed
Truthful(o, ok, yes, saw) == ok /\ saw = Here
        /\ (Step(o) = "checked" => yes = web.checked)
IsAnswered(o) ==
  /\ op[o].phase = "answered" => Truthful(o, op[o].ok, op[o].yes, op[o].saw)
  /\ op[o].phase = "sent" =>
       \A i \in RepliesTo(wire, o) : Truthful(o, wire[i].ok, wire[i].yes, wire[i].saw)
SmoothInv == \A o \in Ops : Smooth(o) => HeardAll(o) /\ NamesRight(o) /\ HasEffect(o)
        /\ IsAnswered(o)

LEMMA TakenReplies ==
  ASSUME TypeOK, wire # <<>>, wire' = Tail(wire), NEW o
  PROVE  /\ \A i \in RepliesTo(wire', o) : /\ i+1 \in RepliesTo(wire, o) /\ i+1 # 1
                                           /\ wire'[i] = wire[i+1]
         /\ 1 \in RepliesTo(wire, o) <=> wire[1].t = "reply" /\ wire[1].o = o
<1>1. /\ \A i \in 1..Len(wire') : i+1 \in 1..Len(wire) /\ wire'[i] = wire[i+1]
      /\ 1 \in 1..Len(wire)
  BY TakenIs
<1>2. \A i \in RepliesTo(wire', o) : i \in 1..Len(wire') /\ wire'[i].t = "reply"
        /\ wire'[i].o = o
  BY DEF RepliesTo
<1>3. ASSUME NEW i \in RepliesTo(wire', o)
      PROVE  i+1 \in RepliesTo(wire, o) /\ i+1 # 1 /\ wire'[i] = wire[i+1]
  <2>1. i+1 \in 1..Len(wire) /\ wire'[i] = wire[i+1] /\ i \in 1..Len(wire')
    BY <1>1, <1>2
  <2>2. i+1 \in RepliesTo(wire, o)
    BY <1>2, <2>1 DEF RepliesTo
  <2>3. i+1 # 1
    BY <2>1
  <2>4. QED
    BY <2>1, <2>2, <2>3
<1>4. QED
  BY <1>1, <1>3 DEF RepliesTo

LEMMA GrownReplies ==
  ASSUME NEW s, Grown(s), NEW o, \A k \in 1..Len(s) : s[k].t = "reply" => s[k].o # o
  PROVE  RepliesTo(wire', o) = RepliesTo(wire, o)
          /\ \A i \in RepliesTo(wire, o) : wire'[i] = wire[i]
<1>1. ASSUME NEW i \in RepliesTo(wire', o) PROVE i \in RepliesTo(wire, o)
  <2>1. i \in 1..Len(wire') /\ wire'[i].t = "reply" /\ wire'[i].o = o
    BY <1>1 DEF RepliesTo
  <2>2. i \in 1..Len(wire)
    BY <2>1 DEF Grown
  <2>3. wire'[i] = wire[i]
    BY <2>2 DEF Grown
  <2>4. QED
    BY <2>1, <2>2, <2>3 DEF RepliesTo
<1>2. ASSUME NEW i \in RepliesTo(wire, o)
      PROVE  i \in RepliesTo(wire', o) /\ wire'[i] = wire[i]
  <2>1. i \in 1..Len(wire) /\ wire[i].t = "reply" /\ wire[i].o = o
    BY <1>2 DEF RepliesTo
  <2>2. i \in 1..Len(wire') /\ wire'[i] = wire[i]
    BY <2>1 DEF Grown
  <2>3. QED
    BY <2>1, <2>2 DEF RepliesTo
<1>3. QED
  BY <1>1, <1>2

NoMore(q) ==
  /\ RepliesTo(wire, q) = {} => RepliesTo(wire', q) = {}
  /\ (\A i, j \in RepliesTo(wire, q) : i = j) => \A i, j \in RepliesTo(wire', q) : i = j
LEMMA RequestSame ==
  ASSUME NEW q, RequestOf(q), Keeps(op[q], op'[q]), req'[q] = req[q], NoMore(q)
  PROVE  RequestOf(q)'
<1>1. Step(q)' = Step(q)
  BY DEF Keeps, Step
<1>2. QED
  BY <1>1 DEF RequestOf, Keeps, NoMore

LEMMA Kept == \A r : Keeps(r, r)
BY DEF Keeps

LEMMA RequestInit == Init => RequestInv
<1> SUFFICES ASSUME Init, NEW o \in Ops PROVE RequestOf(o)
  BY DEF RequestInv
<1>1. req[o] = None /\ op[o].phase = "idle" /\ op[o].result = None
  BY DEF Init, Idle
<1>2. /\ Len(wire) = 3 /\ wire[1].t = "attached" /\ wire[2].t = "context"
      /\ wire[3].t = "context" /\ \A i \in 1..Len(wire) : i = 1 \/ i = 2 \/ i = 3
  BY DEF Init, Event, MainCtx
<1>3. RepliesTo(wire, o) = {}
  BY <1>2 DEF RepliesTo
<1>4. QED
  BY <1>1, <1>3 DEF RequestOf

LEMMA HandleOp ==
  ASSUME TypesInv, Handle, NEW q \in Ops
  PROVE  \/ /\ wire[1].t = "reply" /\ wire[1].o = q /\ op[q].phase = "sent"
            /\ op'[q].prog = op[q].prog /\ op'[q].at = op[q].at
                 /\ op'[q].phase = "answered"
            /\ op'[q].disturbed = op[q].disturbed /\ op'[q].landed = op[q].landed
            /\ op'[q].result = op[q].result
            /\ op'[q].obj = op[q].obj /\ op'[q].box = op[q].box
            /\ op'[q].ok = wire[1].ok /\ op'[q].yes = wire[1].yes
                 /\ op'[q].saw = wire[1].saw
         \/ /\ op'[q] = op[q]
            /\ wire[1].t = "reply" /\ wire[1].o = q => op[q].phase # "sent"
<1>t. TypeOK /\ op \in [Ops -> Operation]
  BY DEF TypesInv, TypeOK
<1>w. wire[1] \in Message /\ Head(wire) = wire[1]
  BY <1>t, TakenIs DEF Handle
<1>1. CASE wire[1].t = "reply" /\ op[wire[1].o].phase = "sent"
  <2>1. op' = [op EXCEPT ![wire[1].o] = [@ EXCEPT !.phase = "answered",
          !.ok = wire[1].ok,
                                          !.yes = wire[1].yes, !.saw = wire[1].saw]]
    BY <1>1, <1>w DEF Handle
  <2>2. PICK m \in Message : m = wire[1]
    BY <1>w
  <2>3. PICK o \in Ops :
         /\ m.o = o /\ \A p \in Ops : p # o => op'[p] = op[p]
         /\ op'[o].prog = op[o].prog /\ op'[o].at = op[o].at
              /\ op'[o].phase = "answered"
         /\ op'[o].disturbed = op[o].disturbed /\ op'[o].landed = op[o].landed
         /\ op'[o].result = op[o].result
         /\ op'[o].obj = op[o].obj /\ op'[o].box = op[o].box
         /\ op'[o].ok = m.ok /\ op'[o].yes = m.yes /\ op'[o].saw = m.saw
    BY <1>1, <1>t, <2>1, <2>2, AnswerIs
  <2>4. QED
    BY <1>1, <2>2, <2>3
<1>2. CASE wire[1].t = "reply" /\ op[wire[1].o].phase # "sent"
  BY <1>2, <1>w DEF Handle
<1>3. CASE wire[1].t # "reply"
  <2>1. op' = op
    BY <1>3, <1>w DEF Handle
  <2>2. QED
    BY <1>3, <2>1
<1>4. QED
  BY <1>1, <1>2, <1>3

LEMMA RequestHandle == ASSUME TypesInv, RequestInv, Handle PROVE RequestInv'
<1>t. TypeOK /\ wire # <<>> /\ wire' = Tail(wire) /\ req' = req
  BY DEF TypesInv, Handle
<1> SUFFICES ASSUME NEW q \in Ops PROVE RequestOf(q)'
  BY DEF RequestInv
<1>r. RequestOf(q)
  BY DEF RequestInv
<1>k. /\ \A i \in RepliesTo(wire', q) : i+1 \in RepliesTo(wire, q) /\ i+1 # 1
      /\ 1 \in RepliesTo(wire, q) <=> wire[1].t = "reply" /\ wire[1].o = q
      /\ \A i \in RepliesTo(wire', q) : i \in Nat
  BY <1>t, TakenReplies DEF RepliesTo
<1>n. NoMore(q)
  <2>1. ASSUME \A i, j \in RepliesTo(wire, q) : i = j,
               NEW i \in RepliesTo(wire', q), NEW j \in RepliesTo(wire', q)
        PROVE  i = j
    <3>1. i+1 = j+1 /\ i \in Nat /\ j \in Nat
      BY <2>1, <1>k
    <3>2. QED
      BY <3>1
  <2>2. QED
    BY <1>k, <2>1 DEF NoMore
<1>1. CASE op'[q] = op[q]
  BY <1>t, <1>r, <1>n, <1>1, Kept, RequestSame
<1>2. CASE /\ wire[1].t = "reply" /\ wire[1].o = q /\ op[q].phase = "sent"
           /\ op'[q].prog = op[q].prog /\ op'[q].at = op[q].at
                /\ op'[q].phase = "answered"
           /\ op'[q].result = op[q].result
  <2>1. req[q] = None /\ \A i, j \in RepliesTo(wire, q) : i = j
    BY <1>2, <1>k, <1>r DEF RequestOf
  <2>2. RepliesTo(wire', q) = {}
    BY <1>2, <1>k, <2>1
  <2>3. Step(q)' = Step(q)
    BY <1>2 DEF Step
  <2>4. QED
    BY <1>t, <1>r, <1>2, <2>1, <2>2, <2>3 DEF RequestOf
<1>3. QED
  BY <1>1, <1>2, HandleOp

LEMMA RequestWeb ==
  ASSUME TypesInv, RequestInv,
         Navigate \/ Shift \/ Blur \/ Appear \/ AttachChild \/ DetachChild
  PROVE  RequestInv'
<1>t. TypeOK /\ op \in [Ops -> Operation]
  BY DEF TypesInv, TypeOK
<1>w. wire' = wire \/ \E s : Grown(s) /\ \A k \in 1..Len(s) : s[k].t # "reply"
  <2>1. CASE Navigate
    <3>1. PICK s : NavigateSays(s)
      BY <1>t, <2>1, NavigateIs
    <3>2. \A k \in 1..Len(s) : s[k].t # "reply"
      BY <3>1 DEF NavigateSays, Event
    <3>3. QED
      BY <3>1, <3>2 DEF NavigateSays
  <2>2. CASE AttachChild
    <3>1. PICK s : AttachSays(s)
      BY <1>t, <2>2, AttachIs
    <3>2. /\ Len(s) = 3 /\ s[1].t # "reply" /\ s[2].t # "reply" /\ s[3].t # "reply"
      BY <3>1 DEF AttachSays, Event, ChildCtx
    <3>3. \A k \in 1..Len(s) : s[k].t # "reply"
      BY <3>2
    <3>4. QED
      BY <3>1, <3>3 DEF AttachSays
  <2>3. CASE DetachChild
    <3>1. PICK s : s = <<Event("detached", web.doc)>>
      OBVIOUS
    <3>2. \A k \in 1..Len(s) : s[k].t # "reply"
      BY <3>1 DEF Event
    <3>3. QED
      BY <1>t, <2>3, <3>1, <3>2, DetachIs
  <2>4. QED
    BY <2>1, <2>2, <2>3 DEF Shift, Blur, Appear
<1> SUFFICES ASSUME NEW q \in Ops PROVE RequestOf(q)'
  BY DEF RequestInv
<1>n. NoMore(q)
  BY <1>w, GrownReplies DEF NoMore
<1>k. Keeps(op[q], op'[q])
  <2>1. op' = op \/ \E who : op' = Disturb(op, who)
    BY DEF Navigate, Shift, Blur, Appear, AttachChild, DetachChild
  <2>2. QED
    BY <1>t, <2>1, Kept, DisturbKeeps
<1>r. req' = req
  BY DEF Navigate, Shift, Blur, Appear, AttachChild, DetachChild
<1>1. QED
  BY <1>k, <1>n, <1>r, RequestSame DEF RequestInv

LEMMA RequestServe == ASSUME TypesInv, RequestInv, NEW o \in Ops, Serve(o) \/ Refuse(o)
 PROVE  RequestInv'
<1>t. TypeOK
  BY DEF TypesInv
<1>k. /\ req[o] \in Request /\ req'[o] = None /\ \A q \in Ops : q # o
        => req'[q] = req[q]
      /\ \A q \in Ops : Keeps(op[q], op'[q])
  BY <1>t, ServeIs, RefuseIs
<1> PICK s : (Serve(o) /\ s = <<ReplyTo(o)>>) \/ (Refuse(o) /\ s = <<RefusalOf(o)>>)
  OBVIOUS
<1>s. Grown(s) /\ Len(s) = 1 /\ \A k \in 1..Len(s) : s[k].t = "reply" /\ s[k].o = o
  BY <1>t, ReplyIs, RefusalIs
<1>1. ASSUME NEW q \in Ops, q # o PROVE RequestOf(q)'
  <2>1. NoMore(q)
    BY <1>s, <1>1, GrownReplies DEF NoMore
  <2>2. QED
    BY <1>1, <1>k, <2>1, RequestSame DEF RequestInv
<1>2. RequestOf(o)'
  <2>1. RequestOf(o) /\ req[o] # None
    BY <1>k, NoneAssumption DEF RequestInv
  <2>2. CASE op[o].phase = "sent"
    <3>1. RepliesTo(wire, o) = {}
      BY <2>1, <2>2 DEF RequestOf
    <3>2. ASSUME NEW i \in RepliesTo(wire', o) PROVE i = Len(wire) + 1
      <4>1. i \in 1..Len(wire') /\ wire'[i].t = "reply" /\ wire'[i].o = o
        BY <3>2 DEF RepliesTo
      <4>2. i \notin 1..Len(wire)
        BY <3>1, <4>1, <1>s DEF RepliesTo, Grown
      <4>3. PICK k \in 1..Len(s) : i = Len(wire) + k
        BY <4>1, <4>2, <1>s DEF Grown
      <4>4. k = 1
        BY <1>s
      <4>5. QED
        BY <4>3, <4>4
    <3>3. Step(o)' = Step(o) /\ op'[o].phase = "sent" /\ op'[o].result = op[o].result
      BY <1>k, <2>2 DEF Keeps, Step
    <3>4. QED
      BY <1>k, <2>1, <2>2, <3>2, <3>3 DEF RequestOf
  <2>3. CASE op[o].phase # "sent"
    <3>1. op[o].phase = "done"
      BY <1>t, <2>1, <2>3 DEF RequestOf, TypeOK, Operation
    <3>2. op'[o].phase = "done"
      BY <1>k, <3>1 DEF Keeps
    <3>3. QED
      BY <3>2 DEF RequestOf
  <2>4. QED
    BY <2>2, <2>3
<1>3. QED
  BY <1>1, <1>2 DEF RequestInv

LEMMA RequestMoves ==
  ASSUME RequestInv, NEW o \in Ops, wire' = wire, req' = req,
         \A q \in Ops : q # o => op'[q] = op[q],
         \/ op'[o].phase = "done"
         \/ /\ op[o].phase \in {"idle", "go", "answered"} /\ op'[o].phase = "go"
            /\ op'[o].result = op[o].result
  PROVE  RequestInv'
<1>1. ASSUME NEW q \in Ops, q # o PROVE RequestOf(q)'
  BY <1>1, Kept, RequestSame DEF RequestInv, NoMore
<1>2. RequestOf(o)'
  BY DEF RequestInv, RequestOf
<1>3. QED
  BY <1>1, <1>2 DEF RequestInv

LEMMA RequestSend == ASSUME TypesInv, RequestInv, NEW o \in Ops, Send(o)
 PROVE  RequestInv'
<1>t. TypeOK /\ AtInv /\ op \in [Ops -> Operation] /\ wire' = wire
  BY DEF TypesInv, TypeOK, Send
<1>s. /\ \A q \in Ops : q # o => op'[q] = op[q]
      /\ op[o].phase = "go" /\ op'[o] = [op[o] EXCEPT !.phase = "sent"]
      /\ \A q \in Ops : q # o => req'[q] = req[q]
      /\ req'[o] \in Request /\ req'[o].step = Step(o)
      /\ req'[o].obj = op[o].obj /\ req'[o].box = op[o].box
  BY <1>t, SendIs
<1>1. ASSUME NEW q \in Ops, q # o PROVE RequestOf(q)'
  BY <1>s, <1>t, <1>1, Kept, RequestSame DEF RequestInv, NoMore
<1>k. /\ op'[o].prog = op[o].prog /\ op'[o].at = op[o].at /\ op'[o].phase = "sent"
      /\ op'[o].obj = op[o].obj /\ op'[o].box = op[o].box
           /\ op'[o].result = op[o].result
  BY <1>t, <1>s DEF Operation
<1>2. RequestOf(o)'
  <2>1. Step(o)' = Step(o) /\ Step(o) # "findFrame"
    BY <1>k DEF Step, Send
  <2>2. req'[o] # None
    BY <1>s, NoneAssumption
  <2>3. RepliesTo(wire', o) = {} /\ op[o].result = None
    BY <1>s, <1>t DEF RequestInv, RequestOf
  <2>4. QED
    BY <1>s, <1>k, <2>1, <2>2, <2>3 DEF RequestOf
<1>3. QED
  BY <1>1, <1>2 DEF RequestInv

-----------------------------------------------------------------------------
(* What an operation has done by the step it is at *)
LEMMA Within == ASSUME NEW l \in 1..7, NEW n \in 1..l PROVE n \in 1..7
OBVIOUS
LEMMA Needs ==
  ASSUME AtInv, NEW o \in Ops, Running(o)
  PROVE  /\ op[o].prog \in Kinds /\ op[o].at \in 1..Len(Program(op[o].prog))
          /\ op[o].at \in 1..7
         /\ Step(o) \in Steps /\ (Step(o) = "findFrame" <=> op[o].prog = "FrameBox"
              /\ op[o].at = 1)
         /\ Step(o) \in Finds => op[o].at = 1
         /\ Step(o) \in OnElement \cup ByFrame \cup {"adopt"} => Past(o, Finds)
         /\ Step(o) = "adopt" => Past(o, {"findFrame"})
         /\ Step(o) \in {"down", "up"} => Past(o, {"scroll"}) /\ Past(o, {"quads"})
         /\ Step(o) = "up" => op[o].at = Len(Program(op[o].prog)) /\ Past(o, {"down"})
         /\ Step(o) \in {"text", "keydown", "keyup"} => Past(o, {"focus"})
         /\ Step(o) = "keyup" => Past(o, {"keydown"})
         /\ Step(o) = "look" => op[o].prog = "IsVisible"
         /\ Step(o) = "checked" => op[o].prog \in {"Check", "Uncheck"}
         /\ op[o].prog \in {"Check", "Uncheck"}
              /\ op[o].at = Len(Program(op[o].prog)) =>
              Step(o) = "up" /\ Past(o, {"checked"})
<1>a. PICK k \in Kinds : k = op[o].prog
  BY DEF AtInv, Running
<1>b. PICK p : p = Program(k)
  OBVIOUS
<1>c. Shape(k, p)
  BY <1>b, Shapes
<1>d. op[o].at \in 1..Len(p)
  BY <1>a, <1>b DEF AtInv, Running
<1>e. op[o].at \in 1..7
  BY <1>c, <1>d, Within DEF Shape
<1>i. PICK i \in 1..7 : i = op[o].at /\ i \in 1..Len(p)
  BY <1>d, <1>e
<1>1. ShapeAt(k, p, i)
  BY <1>c, <1>i DEF Shape
<1>2. p[i] \in Steps
  BY <1>c, <1>i DEF Shape
<1>3. Step(o) = p[i] /\ \A S : Past(o, S) <=> Earlier(p, i, S)
  BY <1>a, <1>b, <1>i DEF Step, Past
<1>4. op[o].prog = k /\ op[o].at = i /\ Program(op[o].prog) = p
  BY <1>a, <1>b, <1>i
<1>5. QED
  BY <1>1, <1>2, <1>3, <1>4, <1>i, <1>c DEF ShapeAt, Shape

LEMMA Before ==
  ASSUME AtInv, NEW o \in Ops, Running(o)
  PROVE  /\ ~Past(o, {"up"})
         /\ Past(o, {"findFrame"}) => op[o].prog = "FrameBox"
         /\ Step(o) \in Finds => ~Past(o, Finds)
<1>a. PICK k \in Kinds : k = op[o].prog
  BY DEF AtInv, Running
<1>b. PICK p : p = Program(k)
  OBVIOUS
<1>c. Shape(k, p)
  BY <1>b, Shapes
<1>d. op[o].at \in 1..Len(p)
  BY <1>a, <1>b DEF AtInv, Running
<1>e. op[o].at \in 1..7
  BY <1>c, <1>d, Within DEF Shape
<1>i. PICK i \in 1..7 : i = op[o].at /\ i \in 1..Len(p)
  BY <1>d, <1>e
<1>1. \A j \in 1..Len(p) : ShapeAt(k, p, j)
  BY <1>c DEF Shape
<1>2. Step(o) = p[i] /\ \A S : Past(o, S) <=> \E j \in 1..i-1 : p[j] \in S
  BY <1>a, <1>b, <1>i DEF Step, Past, Earlier
<1>3. \A j \in 1..i-1 : j \in 1..Len(p) /\ j # Len(p) /\ ShapeAt(k, p, j)
  BY <1>1, <1>i, <1>c DEF Shape
<1>4. ~Past(o, {"up"})
  BY <1>2, <1>3 DEF ShapeAt
<1>5. Past(o, {"findFrame"}) => k = "FrameBox"
  BY <1>2, <1>3 DEF ShapeAt
<1>6. ASSUME Step(o) \in Finds PROVE ~Past(o, Finds)
  <2>1. i = 1
    BY <1>1, <1>2, <1>6, <1>i DEF ShapeAt
  <2>2. QED
    BY <1>2, <2>1
<1>7. QED
  BY <1>4, <1>5, <1>6, <1>a

LEMMA PastNext ==
  ASSUME NEW o, op[o].at \in 1..7, op'[o].prog = op[o].prog, op'[o].at = op[o].at + 1
  PROVE  \A S : Past(o, S)' <=> Past(o, S) \/ Step(o) \in S
<1>p. PICK p : p = Program(op[o].prog)
  OBVIOUS
<1>i. PICK i \in 1..7 : i = op[o].at
  OBVIOUS
<1>1. ASSUME NEW S PROVE Earlier(p, i+1, S) <=> Earlier(p, i, S) \/ p[i] \in S
  <2>1. \A j : j \in 1..(i+1)-1 <=> j \in 1..i-1 \/ j = i
    OBVIOUS
  <2>2. QED
    BY <2>1 DEF Earlier
<1>2. Step(o) = p[i] /\ \A S : Past(o, S) <=> Earlier(p, i, S)
  BY <1>p, <1>i DEF Step, Past
<1>3. op'[o].prog = op[o].prog /\ op'[o].at = i+1
  BY <1>i
<1>4. \A S : Past(o, S)' <=> Earlier(p, i+1, S)
  BY <1>3, <1>p DEF Past
<1>5. QED
  BY <1>1, <1>2, <1>4

LEMMA PastSame ==
  ASSUME NEW o, op'[o].prog = op[o].prog, op'[o].at = op[o].at
  PROVE  Step(o)' = Step(o) /\ Wants(o)' = Wants(o) /\ \A S : Past(o, S)' <=> Past(o, S)
BY DEF Step, Past, Wants

LEMMA HeardKept ==
  ASSUME TypesInv, NEW q, HeardAll(q), op'[q].prog = op[q].prog, web'.doc = web.doc,
         web'.child = web.child,
         \/ wire' = wire
         \/ wire # <<>> /\ wire' = Tail(wire)
         \/ \E s : Grown(s) /\ \A k \in 1..Len(s) : s[k].t = "reply"
  PROVE  HeardAll(q)'
<1>t. TypeOK
  BY DEF TypesInv
<1>1. ASSUME NEW f \in Frames
      PROVE  /\ ContextsOf(wire, f) = {} => ContextsOf(wire', f) = {}
             /\ FramesOf(wire, f) = {} => FramesOf(wire', f) = {}
  <2>1. CASE wire' = wire
    BY <2>1
  <2>2. CASE wire # <<>> /\ wire' = Tail(wire)
    <3>1. \A i \in 1..Len(wire') : i+1 \in 1..Len(wire) /\ wire'[i] = wire[i+1]
      BY <1>t, <2>2, TakenIs
    <3>2. QED
      BY <3>1 DEF ContextsOf, FramesOf
  <2>3. ASSUME NEW s, Grown(s), \A k \in 1..Len(s) : s[k].t = "reply"
        PROVE  /\ ContextsOf(wire, f) = {} => ContextsOf(wire', f) = {}
               /\ FramesOf(wire, f) = {} => FramesOf(wire', f) = {}
    <3>1. \A k \in 1..Len(s) : ~TellsContext(s[k], f) /\ ~TellsFrame(s[k], f)
      BY <2>3 DEF TellsContext, TellsFrame
    <3>2. QED
      BY <2>3, <3>1 DEF Grown, ContextsOf, FramesOf
  <2>4. QED
    BY <2>1, <2>2, <2>3
<1>2. \A d : Has(d)' = Has(d)
  BY DEF Has
<1>3. QED
  BY <1>1, <1>2, DocsAre DEF HeardAll

(* What an operation relies on and a step leaves alone. *)
Same(q) ==
  /\ Keeps(op[q], op'[q]) /\ op'[q].landed = op[q].landed /\ req'[q] = req[q]
  /\ web'.doc = web.doc /\ web'.lay = web.lay /\ (web.shown => web'.shown)
  /\ web'.focus = web.focus /\ web'.pressed = web.pressed /\ web'.checked = web.checked
LEMMA SmoothSame ==
  ASSUME NEW q, Same(q), NamesRight(q), HasEffect(q), IsAnswered(q),
         Past(q, {"findFrame"}) /\ web.child = "attached" => web'.child = "attached",
         \A i \in RepliesTo(wire', q) : \E j \in RepliesTo(wire, q) : wire'[i] = wire[j]
  PROVE  NamesRight(q)' /\ HasEffect(q)' /\ IsAnswered(q)'
<1>1. /\ op'[q].prog = op[q].prog /\ op'[q].at = op[q].at /\ op'[q].phase = op[q].phase
      /\ op'[q].ok = op[q].ok /\ op'[q].yes = op[q].yes /\ op'[q].saw = op[q].saw
      /\ op'[q].obj = op[q].obj /\ op'[q].box = op[q].box
      /\ op'[q].landed = op[q].landed /\ req'[q] = req[q] /\ Here' = Here
      /\ web'.doc = web.doc /\ (web.shown => web'.shown)
      /\ web'.focus = web.focus /\ web'.pressed = web.pressed
           /\ web'.checked = web.checked
  BY DEF Same, Keeps, Here
<1>2. /\ Step(q)' = Step(q) /\ Wants(q)' = Wants(q)
      /\ \A S : Past(q, S)' <=> Past(q, S)
  BY <1>1, PastSame
<1>3. /\ Served(q)' <=> Served(q)
      /\ \A S : Did(q, S)' <=> Did(q, S)
  BY <1>1, <1>2 DEF Served, Did
<1>4. NamesRight(q)'
  BY <1>1, <1>2 DEF NamesRight
<1>5. HasEffect(q)'
  BY <1>1, <1>2, <1>3 DEF HasEffect
<1>6. IsAnswered(q)'
  BY <1>1, <1>2 DEF IsAnswered, Truthful
<1>7. QED
  BY <1>4, <1>5, <1>6

SmoothOf(q) == Smooth(q) => HeardAll(q) /\ NamesRight(q) /\ HasEffect(q)
        /\ IsAnswered(q)
LEMMA SmoothRest ==
  ASSUME TypesInv, NEW q, SmoothOf(q), Same(q), ~op'[q].disturbed => ~op[q].disturbed,
         web'.child = web.child,
         \/ wire' = wire
         \/ wire # <<>> /\ wire' = Tail(wire)
         \/ \E s : Grown(s) /\ \A k \in 1..Len(s) : s[k].t = "reply",
         \A i \in RepliesTo(wire', q) : \E j \in RepliesTo(wire, q) : wire'[i] = wire[j]
  PROVE  SmoothOf(q)'
<1> SUFFICES ASSUME Smooth(q)'
             PROVE  HeardAll(q)' /\ NamesRight(q)' /\ HasEffect(q)' /\ IsAnswered(q)'
  BY DEF SmoothOf
<1>1. op'[q].prog = op[q].prog /\ op'[q].phase = op[q].phase /\ web'.doc = web.doc
  BY DEF Same, Keeps
<1>2. Smooth(q)
  BY <1>1 DEF Smooth, Running
<1>3. HeardAll(q) /\ NamesRight(q) /\ HasEffect(q) /\ IsAnswered(q)
  BY <1>2 DEF SmoothOf
<1>4. HeardAll(q)'
  BY <1>1, <1>3, HeardKept
<1>5. NamesRight(q)' /\ HasEffect(q)' /\ IsAnswered(q)'
  BY <1>3, SmoothSame
<1>6. QED
  BY <1>4, <1>5

(* An operation that others leave alone, while the document stands. *)
LEMMA SmoothStill ==
  ASSUME TypesInv, NEW q, SmoothOf(q), op'[q] = op[q], req'[q] = req[q], wire' = wire,
         web' = web
  PROVE  SmoothOf(q)'
<1>1. Same(q)
  BY Kept DEF Same
<1>2. QED
  BY <1>1, SmoothRest

LEMMA SmoothHandle == ASSUME TypesInv, RequestInv, SmoothInv, Handle PROVE SmoothInv'
<1>t. TypeOK /\ wire # <<>> /\ wire' = Tail(wire) /\ web' = web /\ req' = req
  BY DEF TypesInv, Handle
<1> SUFFICES ASSUME NEW q \in Ops PROVE SmoothOf(q)'
  BY DEF SmoothInv, SmoothOf
<1>i. SmoothOf(q) /\ RequestOf(q)
  BY DEF SmoothInv, SmoothOf, RequestInv
<1>r. ASSUME NEW i \in RepliesTo(wire', q)
      PROVE  \E j \in RepliesTo(wire, q) : wire'[i] = wire[j]
  <2>1. i+1 \in RepliesTo(wire, q) /\ wire'[i] = wire[i+1]
    BY <1>t, TakenReplies
  <2>2. QED
    BY <2>1
<1>1. CASE op'[q] = op[q]
  <2>1. Same(q)
    BY <1>1, <1>t, Kept DEF Same
  <2>2. QED
    BY <1>1, <1>t, <1>i, <1>r, <2>1, SmoothRest
<1>2. CASE /\ wire[1].t = "reply" /\ wire[1].o = q /\ op[q].phase = "sent"
           /\ op'[q].prog = op[q].prog /\ op'[q].at = op[q].at
                /\ op'[q].phase = "answered"
           /\ op'[q].disturbed = op[q].disturbed /\ op'[q].landed = op[q].landed
           /\ op'[q].result = op[q].result
           /\ op'[q].obj = op[q].obj /\ op'[q].box = op[q].box
           /\ op'[q].ok = wire[1].ok /\ op'[q].yes = wire[1].yes
                /\ op'[q].saw = wire[1].saw
  <2> SUFFICES ASSUME Smooth(q)'
               PROVE  HeardAll(q)' /\ NamesRight(q)' /\ HasEffect(q)' /\ IsAnswered(q)'
    BY DEF SmoothOf
  <2>1. Smooth(q)
    BY <1>2 DEF Smooth, Running
  <2>2. HeardAll(q) /\ NamesRight(q) /\ HasEffect(q) /\ IsAnswered(q)
    BY <1>i, <2>1 DEF SmoothOf
  <2>3. 1 \in RepliesTo(wire, q)
    BY <1>t, <1>2, TakenReplies
  <2>4. req[q] = None
    BY <1>i, <1>2, <2>3 DEF RequestOf
  <2>5. /\ Step(q)' = Step(q) /\ Wants(q)' = Wants(q)
        /\ \A S : Past(q, S)' <=> Past(q, S)
    BY <1>2, PastSame
  <2>6. Served(q) /\ Served(q)' /\ \A S : Did(q, S)' <=> Did(q, S)
    BY <1>2, <2>4, <2>5 DEF Served, Did
  <2>7. HeardAll(q)'
    BY <1>2, <1>t, <2>2, HeardKept
  <2>8. NamesRight(q)'
    BY <1>2, <1>t, <2>2, <2>5 DEF NamesRight, Here
  <2>9. HasEffect(q)'
    BY <1>2, <1>t, <2>2, <2>5, <2>6 DEF HasEffect
  <2>10. Truthful(q, wire[1].ok, wire[1].yes, wire[1].saw)
    BY <1>2, <2>2, <2>3 DEF IsAnswered
  <2>11. IsAnswered(q)'
    BY <1>2, <1>t, <2>5, <2>10 DEF IsAnswered, Truthful, Here
  <2>12. QED
    BY <2>7, <2>8, <2>9, <2>11
<1>3. QED
  BY <1>1, <1>2, HandleOp

(* What the browser does for a call. *)
LEMMA EffectQuiet ==
  ASSUME web \in WebState, NEW r, r.step \notin Touches
  PROVE  /\ Effect(r).focus = web.focus /\ Effect(r).pressed = web.pressed
         /\ Effect(r).checked = web.checked
BY DEF Effect, WebState, Touches
LEMMA EffectFields ==
  ASSUME web \in WebState, NEW r
  PROVE  /\ r.step = "scroll" => Effect(r).shown
         /\ r.step \in {"fill", "focus"} => Effect(r).focus
         /\ r.step = "down" /\ Hit(r) => Effect(r).pressed = "element"
              /\ Effect(r).focus
         /\ r.step # "down" /\ web.focus => Effect(r).focus
         /\ r.step \notin {"down", "up"} => Effect(r).pressed = web.pressed
         /\ r.step # "up" => Effect(r).checked = web.checked
         /\ r.step = "up" /\ web.pressed = "element" /\ Hit(r)
              => Effect(r).checked = ~web.checked
BY DEF Effect, WebState

LEMMA SmoothOthers ==
  ASSUME TypesInv, SmoothInv, NEW o \in Ops, Serve(o), NEW q \in Ops, q # o
  PROVE  SmoothOf(q)'
<1>t. TypeOK /\ web \in WebState
  BY DEF TypesInv, TypeOK
<1>i. SmoothOf(q)
  BY DEF SmoothInv, SmoothOf
<1>1. /\ Keeps(op[q], op'[q]) /\ (~op'[q].disturbed => ~op[q].disturbed)
      /\ op'[q].landed = op[q].landed
      /\ Running(q) /\ req[o].step \in Touches => op'[q].disturbed
      /\ req'[q] = req[q]
      /\ web' = IF Serves(req[o]) THEN Effect(req[o]) ELSE web
      /\ web'.doc = web.doc /\ web'.lay = web.lay /\ web'.child = web.child
      /\ web.shown => web'.shown
  BY <1>t, ServeIs
<1>2. CASE ~Smooth(q)'
  BY <1>2 DEF SmoothOf
<1>3. CASE Smooth(q)'
  <2>1. Running(q)
    BY <1>1, <1>3 DEF Smooth, Running, Keeps
  <2>2. req[o].step \notin Touches
    BY <1>1, <1>3, <2>1 DEF Smooth
  <2>3. web'.focus = web.focus /\ web'.pressed = web.pressed
          /\ web'.checked = web.checked
    BY <1>1, <1>t, <2>2, EffectQuiet
  <2>4. Same(q)
    BY <1>1, <2>3 DEF Same
  <2> PICK s : s = <<ReplyTo(o)>>
    OBVIOUS
  <2>s. Grown(s) /\ \A k \in 1..Len(s) : s[k].t = "reply" /\ s[k].o = o
    BY <1>t, ReplyIs
  <2>5. \A i \in RepliesTo(wire', q) : \E j \in RepliesTo(wire, q) : wire'[i] = wire[j]
    BY <2>s, GrownReplies
  <2>6. QED
    BY <1>1, <1>i, <2>4, <2>5, <2>s, SmoothRest
<1>4. QED
  BY <1>2, <1>3

LEMMA ServedEffect ==
  ASSUME TypesInv, RequestInv, SmoothInv, NEW o \in Ops, Serve(o), Smooth(o),
         req[o] # None
  PROVE  /\ op[o].phase = "sent" /\ RepliesTo(wire, o) = {}
         /\ req[o].step = Step(o) /\ Serves(req[o])
         /\ Step(o) \in {"down", "up"} => Hit(req[o])
<1>t. TypeOK /\ AtInv /\ op[o] \in Operation /\ web \in WebState
  BY DEF TypesInv, TypeOK
<1>i. NamesRight(o) /\ HasEffect(o) /\ RequestOf(o)
  BY DEF SmoothInv, RequestInv
<1>1. op[o].phase = "sent" /\ RepliesTo(wire, o) = {} /\ Running(o)
  BY <1>i DEF RequestOf, Smooth, Running
<1>2. /\ req[o].step = Step(o) /\ req[o].obj = op[o].obj /\ req[o].box = op[o].box
      /\ req[o].ctx = MainCtx(web.doc, "main").c
  BY <1>1, <1>i DEF RequestOf, NamesRight
<1>3. /\ Step(o) \in OnElement \cup ByFrame \cup {"adopt"} => Past(o, Finds)
      /\ Step(o) = "adopt" => Past(o, {"findFrame"})
      /\ Step(o) \in {"down", "up"} => Past(o, {"scroll"}) /\ Past(o, {"quads"})
  BY <1>1, <1>t, Needs
<1>4. Live(req[o].ctx)
  <2>1. web.doc \in Docs
    BY <1>t DEF WebState
  <2>2. /\ MainCtx(web.doc, "main").c = [frame |-> Main, doc |-> web.doc,
          world |-> "main"]
        /\ MainCtx(web.doc, "main").c \in Ctx
    <3>1. ASSUME NEW d \in Docs
          PROVE  /\ MainCtx(d, "main").c = [frame |-> Main, doc |-> d, world |-> "main"]
                 /\ MainCtx(d, "main").c \in Ctx
      <4>1. MainCtx(d, "main") \in Message /\ MainCtx(d, "main").t = "context"
        BY MessagesAre
      <4>2. MainCtx(d, "main").c = [frame |-> Main, doc |-> d, world |-> "main"]
        BY MessagesAre
      <4>3. QED
        BY <4>1, <4>2, MessageIs
    <3>2. QED
      BY <2>1, <3>1
  <2>3. req[o].ctx # None /\ req[o].ctx.doc = web.doc /\ req[o].ctx.frame = Main
    BY <1>2, <2>2, NoneAssumption
  <2>4. QED
    BY <2>3 DEF Live
<1>5. Step(o) \in OnElement \cup ByFrame \cup {"adopt"} => req[o].obj = web.doc
  BY <1>2, <1>3, <1>i DEF NamesRight
<1>6. Step(o) = "adopt" => web.child = "attached"
  BY <1>3, <1>i DEF NamesRight
<1>7. Serves(req[o])
  BY <1>2, <1>4, <1>5, <1>6 DEF Serves
<1>8. Step(o) \in {"down", "up"} => Hit(req[o])
  BY <1>2, <1>3, <1>i DEF Hit, NamesRight, HasEffect, Did
<1>9. QED
  BY <1>1, <1>2, <1>7, <1>8

LEMMA SmoothServed ==
  ASSUME TypesInv, RequestInv, SmoothInv, NEW o \in Ops, Serve(o)
  PROVE  SmoothOf(o)'
<1> SUFFICES ASSUME Smooth(o)'
             PROVE  HeardAll(o)' /\ NamesRight(o)' /\ HasEffect(o)' /\ IsAnswered(o)'
  BY DEF SmoothOf
<1>t. TypeOK /\ AtInv /\ op[o] \in Operation /\ web \in WebState
  BY DEF TypesInv, TypeOK
<1>1. /\ Keeps(op[o], op'[o]) /\ (~op'[o].disturbed => ~op[o].disturbed)
      /\ op'[o].landed = (Serves(req[o]) /\ Lands(o, req[o]))
      /\ req[o] \in Request /\ req'[o] = None
      /\ web' = IF Serves(req[o]) THEN Effect(req[o]) ELSE web
      /\ web'.doc = web.doc /\ web'.lay = web.lay /\ web'.child = web.child
      /\ web.shown => web'.shown
  BY <1>t, ServeIs
<1>k. /\ op'[o].prog = op[o].prog /\ op'[o].at = op[o].at /\ op'[o].phase = op[o].phase
      /\ op'[o].obj = op[o].obj /\ op'[o].box = op[o].box
  BY <1>1 DEF Keeps
<1>2. Smooth(o) /\ Running(o) /\ req[o] # None
  BY <1>1, <1>k, NoneAssumption DEF Smooth, Running
<1>3. HeardAll(o) /\ NamesRight(o) /\ HasEffect(o)
  BY <1>2 DEF SmoothInv
<1>4. /\ op[o].phase = "sent" /\ RepliesTo(wire, o) = {}
      /\ req[o].step = Step(o) /\ Serves(req[o])
      /\ Step(o) \in {"down", "up"} => Hit(req[o])
  BY <1>2, ServedEffect
<1>5. /\ Step(o)' = Step(o) /\ Wants(o)' = Wants(o)
      /\ \A S : Past(o, S)' <=> Past(o, S)
  BY <1>k, PastSame
<1>6. /\ ~Served(o) /\ Served(o)'
      /\ \A S : /\ Did(o, S) <=> Past(o, S)
                /\ Did(o, S)' <=> Past(o, S) \/ Step(o) \in S
  BY <1>1, <1>k, <1>2, <1>4, <1>5 DEF Served, Did
<1>7. /\ Step(o) = "scroll" => web'.shown
      /\ Step(o) = "focus" => web'.focus
      /\ Step(o) = "down" => web'.pressed = "element" /\ web'.focus
      /\ web.focus => web'.focus
      /\ Step(o) \notin {"down", "up"} => web'.pressed = web.pressed
      /\ Step(o) # "up" => web'.checked = web.checked
      /\ Step(o) = "up" /\ web.pressed = "element" => web'.checked = ~web.checked
  BY <1>1, <1>4, <1>t, EffectFields
<1>8. /\ ~Past(o, {"up"})
      /\ Step(o) = "up" => Past(o, {"down"})
      /\ Step(o) \in {"text", "keydown", "keyup"} => Past(o, {"focus"})
      /\ Step(o) = "keyup" => Past(o, {"keydown"})
  BY <1>2, <1>t, Needs, Before
<1> PICK s : s = <<ReplyTo(o)>>
  OBVIOUS
<1>s. Grown(s) /\ Len(s) = 1 /\ \A k \in 1..Len(s) : s[k] = ReplyTo(o)
        /\ s[k].t = "reply"
  BY <1>t, ReplyIs
<1>9. HeardAll(o)'
  BY <1>1, <1>k, <1>3, <1>s, HeardKept
<1>10. NamesRight(o)'
  BY <1>1, <1>k, <1>3, <1>5 DEF NamesRight, Here
<1>11. HasEffect(o)'
  <2>1. Did(o, {"scroll"})' => web'.shown
    BY <1>1, <1>3, <1>6, <1>7 DEF HasEffect
  <2>2. Did(o, {"focus"})' => web'.focus
    BY <1>1, <1>3, <1>6, <1>7 DEF HasEffect
  <2>3. Did(o, {"down"})' /\ ~Did(o, {"up"})' => web'.pressed = "element"
    BY <1>1, <1>3, <1>6, <1>7, <1>8 DEF HasEffect
  <2>4. Past(o, {"checked"})' /\ ~Did(o, {"up"})' => web'.checked # Wants(o)'
    BY <1>1, <1>3, <1>5, <1>6, <1>7, <1>8 DEF HasEffect
  <2>5. Past(o, {"checked"})' /\ Did(o, {"up"})' => web'.checked = Wants(o)'
    <3>1. web.checked \in BOOLEAN /\ Wants(o) \in BOOLEAN
      BY <1>t DEF WebState, Wants
    <3>2. QED
      BY <1>1, <1>3, <1>5, <1>6, <1>7, <1>8, <3>1 DEF HasEffect
  <2>6. op'[o].landed
    <3>1. Step(o) = "up" => web.pressed = "element"
      BY <1>3, <1>6, <1>8 DEF HasEffect
    <3>2. Step(o) \in {"text", "keydown", "keyup"} => web.focus
      BY <1>3, <1>6, <1>8 DEF HasEffect
    <3>3. Step(o) = "keyup" => op[o].landed
      BY <1>3, <1>6, <1>8 DEF HasEffect
    <3>4. QED
      BY <1>1, <1>4, <3>1, <3>2, <3>3 DEF Lands
  <2>7. QED
    BY <2>1, <2>2, <2>3, <2>4, <2>5, <2>6 DEF HasEffect
<1>12. IsAnswered(o)'
  <2>1. /\ ReplyTo(o).ok = Serves(req[o]) /\ ReplyTo(o).saw = Here
        /\ ReplyTo(o).yes = Says(req[o])
    BY DEF ReplyTo
  <2>2. Here' = Here
    BY <1>1 DEF Here
  <2>3. Step(o) = "checked" => Says(req[o]) = web'.checked
    BY <1>4, <1>7 DEF Says
  <2>4. ASSUME NEW i \in RepliesTo(wire', o)
        PROVE  Truthful(o, wire[i].ok, wire[i].yes, wire[i].saw)'
    <3>1. i \in 1..Len(wire') /\ i \notin 1..Len(wire)
      BY <1>4, <1>s, <2>4 DEF RepliesTo, Grown
    <3>2. wire'[i] = ReplyTo(o)
      BY <1>s, <3>1 DEF Grown
    <3>3. QED
      BY <3>2, <2>1, <2>2, <2>3, <1>4, <1>5 DEF Truthful
  <2>5. QED
    BY <1>4, <1>k, <2>4 DEF IsAnswered
<1>13. QED
  BY <1>9, <1>10, <1>11, <1>12

LEMMA SmoothServe ==
  ASSUME TypesInv, RequestInv, SmoothInv, NEW o \in Ops, Serve(o)
  PROVE  SmoothInv'
<1>1. \A q \in Ops : SmoothOf(q)'
  BY SmoothOthers, SmoothServed
<1>2. QED
  BY <1>1 DEF SmoothInv, SmoothOf

-----------------------------------------------------------------------------
(* The steps of an undisturbed operation itself *)

(* The operation whose call is refused is disturbed; nothing else changes. *)
LEMMA SmoothRefuse ==
  ASSUME TypesInv, SmoothInv, NEW o \in Ops, Refuse(o)
  PROVE  SmoothInv'
<1>t. TypeOK
  BY DEF TypesInv
<1> SUFFICES ASSUME NEW q \in Ops PROVE SmoothOf(q)'
  BY DEF SmoothInv, SmoothOf
<1>i. SmoothOf(q)
  BY DEF SmoothInv, SmoothOf
<1>1. /\ Keeps(op[q], op'[q]) /\ op'[q].landed = op[q].landed
      /\ ~op'[q].disturbed => ~op[q].disturbed
      /\ Running(o) => op'[o].disturbed
      /\ q # o => req'[q] = req[q]
      /\ web' = web
  BY <1>t, RefuseIs
<1>2. CASE q = o
  <2>1. ~Smooth(q)'
    BY <1>1, <1>2 DEF Smooth, Running, Keeps
  <2>2. QED
    BY <2>1 DEF SmoothOf
<1>3. CASE q # o
  <2>1. Same(q)
    BY <1>1, <1>3 DEF Same
  <2> PICK s : s = <<RefusalOf(o)>>
    OBVIOUS
  <2>2. Grown(s) /\ \A k \in 1..Len(s) : s[k].t = "reply" /\ s[k].o = o
    BY <1>t, RefusalIs
  <2>3. \A i \in RepliesTo(wire', q) : \E j \in RepliesTo(wire, q) : wire'[i] = wire[j]
    BY <1>3, <2>2, GrownReplies
  <2>4. QED
    BY <1>1, <1>i, <2>1, <2>2, <2>3, SmoothRest
<1>4. QED
  BY <1>2, <1>3

LEMMA SmoothMoves ==
  ASSUME TypesInv, SmoothInv, NEW o \in Ops, \A q \in Ops : q # o => op'[q] = op[q],
         wire' = wire, web' = web, \A q \in Ops : q # o => req'[q] = req[q],
                 SmoothOf(o)'
  PROVE  SmoothInv'
<1>1. ASSUME NEW q \in Ops, q # o PROVE SmoothOf(q)'
  <2>1. SmoothOf(q)
    BY DEF SmoothInv, SmoothOf
  <2>2. QED
    BY <1>1, <2>1, SmoothStill
<1>2. QED
  BY <1>1 DEF SmoothInv, SmoothOf

LEMMA SmoothDone ==
  ASSUME NEW o, op'[o].phase = "done"
  PROVE  SmoothOf(o)'
BY DEF SmoothOf, Smooth, Running

LEMMA NoneYet == ASSUME NEW p PROVE \A S : ~Earlier(p, 1, S)
BY DEF Earlier

LEMMA SmoothStart == ASSUME TypesInv, NEW o \in Ops, Start(o) PROVE SmoothOf(o)'
<1>t. TypeOK /\ page' = page /\ wire' = wire /\ web' = web
  BY DEF TypesInv, Start
<1>1. op'[o].at = 1 /\ op'[o].phase = "go" /\ op'[o].disturbed = Behind
  BY <1>t, StartIs
<1> SUFFICES ASSUME ~op'[o].disturbed
             PROVE  HeardAll(o)' /\ NamesRight(o)' /\ HasEffect(o)' /\ IsAnswered(o)'
  BY DEF SmoothOf, Smooth
<1>2. \A f : ContextsOf(wire', f) = {} /\ FramesOf(wire', f) = {}
  BY <1>1, <1>t DEF Behind, ContextsOf, FramesOf, TellsContext, TellsFrame
<1>3. \A S : ~Past(o, S)'
  BY <1>1, NoneYet DEF Past
<1>4. ~Served(o)' /\ \A S : ~Did(o, S)'
  BY <1>1, <1>3 DEF Served, Did
<1>5. HeardAll(o)'
  BY <1>2 DEF HeardAll
<1>6. NamesRight(o)' /\ HasEffect(o)' /\ IsAnswered(o)'
  BY <1>1, <1>3, <1>4 DEF NamesRight, HasEffect, IsAnswered
<1>7. QED
  BY <1>5, <1>6

LEMMA HeardStill ==
  ASSUME NEW o, HeardAll(o), wire' = wire, web' = web, op'[o].prog = op[o].prog
  PROVE  HeardAll(o)'
BY DEF HeardAll, Has

LEMMA SmoothSend ==
  ASSUME TypesInv, DocInv, RequestInv, SmoothInv, NEW o \in Ops, Send(o)
  PROVE  SmoothOf(o)'
<1>t. TypeOK /\ AtInv /\ op \in [Ops -> Operation] /\ wire' = wire /\ web' = web
  BY DEF TypesInv, TypeOK, Send
<1>1. /\ op[o].phase = "go" /\ op'[o] = [op[o] EXCEPT !.phase = "sent"]
      /\ req'[o] \in Request /\ req'[o].ctx \in {page.execCtx, page.frameCtx[Main]}
  BY <1>t, SendIs
<1>k. /\ op'[o].prog = op[o].prog /\ op'[o].at = op[o].at /\ op'[o].phase = "sent"
      /\ op'[o].obj = op[o].obj /\ op'[o].box = op[o].box
           /\ op'[o].landed = op[o].landed
      /\ op'[o].disturbed = op[o].disturbed
  BY <1>t, <1>1 DEF Operation
<1> SUFFICES ASSUME Smooth(o)'
             PROVE  HeardAll(o)' /\ NamesRight(o)' /\ HasEffect(o)' /\ IsAnswered(o)'
  BY DEF SmoothOf
<1>2. Smooth(o)
  BY <1>1, <1>k DEF Smooth, Running
<1>3. HeardAll(o) /\ NamesRight(o) /\ HasEffect(o) /\ RequestOf(o)
  BY <1>2 DEF SmoothInv, RequestInv
<1>4. /\ Step(o)' = Step(o) /\ Wants(o)' = Wants(o)
      /\ \A S : Past(o, S)' <=> Past(o, S)
  BY <1>k, PastSame
<1>5. req'[o] # None
  BY <1>1, NoneAssumption
<1>6. ~Served(o) /\ ~Served(o)' /\ \A S : Did(o, S)' <=> Did(o, S)
  BY <1>1, <1>k, <1>4, <1>5 DEF Served, Did
<1>7. req'[o].ctx = MainCtx(web.doc, "main").c
  <2>1. page.frameCtx[Main] = ContextIn(Main)
    BY <1>3, DocsAre DEF DocInv, ContextsInv, HeardAll
  <2>2. QED
    BY <1>1, <2>1 DEF DocInv, ExecInv, ContextIn
<1>8. HeardAll(o)'
  BY <1>t, <1>k, <1>3, HeardStill
<1>9. NamesRight(o)'
  BY <1>t, <1>k, <1>3, <1>4, <1>7 DEF NamesRight, Here
<1>10. HasEffect(o)'
  BY <1>t, <1>k, <1>3, <1>4, <1>6 DEF HasEffect
<1>11. IsAnswered(o)'
  BY <1>t, <1>k, <1>1, <1>3 DEF IsAnswered, RequestOf
<1>12. QED
  BY <1>8, <1>9, <1>10, <1>11

LEMMA SmoothFindFrame ==
  ASSUME TypesInv, DocInv, RequestInv, SmoothInv, NEW o \in Ops, FindFrame(o)
  PROVE  SmoothOf(o)'
<1>t. TypeOK /\ AtInv /\ op[o] \in Operation /\ wire' = wire /\ web' = web
  BY DEF TypesInv, TypeOK, FindFrame
<1>1. /\ op[o].phase = "go" /\ Step(o) = "findFrame"
      /\ op'[o].prog = op[o].prog /\ op'[o].at = op[o].at + 1 /\ op'[o].phase = "go"
      /\ op'[o].disturbed = op[o].disturbed
      /\ op'[o].obj \in Docs /\ page.frames[op'[o].obj] = "committed"
  BY <1>t, FoundFrame
<1> SUFFICES ASSUME Smooth(o)'
             PROVE  HeardAll(o)' /\ NamesRight(o)' /\ HasEffect(o)' /\ IsAnswered(o)'
  BY DEF SmoothOf
<1>2. Smooth(o) /\ Running(o)
  BY <1>1 DEF Smooth, Running
<1>3. HeardAll(o)
  BY <1>2 DEF SmoothInv
<1>4. op[o].prog = "FrameBox" /\ op[o].at = 1 /\ op[o].at \in 1..7
  BY <1>1, <1>2, <1>t, Needs
<1>5. \A S : Past(o, S)' <=> "findFrame" \in S
  <2>1. \A S : Past(o, S)' <=> Past(o, S) \/ Step(o) \in S
    BY <1>1, <1>4, PastNext
  <2>2. \A S : ~Past(o, S)
    BY <1>4, NoneYet DEF Past
  <2>3. QED
    BY <1>1, <2>1, <2>2
<1>6. Has(op'[o].obj)
  BY <1>1, <1>3, <1>4 DEF DocInv, FramesInv, FrameIn, HeardAll
<1>7. ~Served(o)' /\ \A S : Did(o, S)' <=> "findFrame" \in S
  BY <1>1, <1>5 DEF Served, Did
<1>8. HeardAll(o)'
  BY <1>t, <1>1, <1>3, HeardStill
<1>9. NamesRight(o)'
  BY <1>t, <1>1, <1>5, <1>6 DEF NamesRight, Has, Finds
<1>10. HasEffect(o)'
  BY <1>5, <1>7 DEF HasEffect
<1>11. IsAnswered(o)'
  BY <1>1 DEF IsAnswered
<1>12. QED
  BY <1>8, <1>9, <1>10, <1>11

LEMMA SmoothAgain ==
  ASSUME TypesInv, SmoothInv, NEW o \in Ops, TryAgain(o), wire' = wire, web' = web
  PROVE  SmoothOf(o)'
<1>t. TypeOK /\ AtInv
  BY DEF TypesInv
<1>1. /\ op[o].phase = "answered"
      /\ op'[o].prog = op[o].prog /\ op'[o].at = op[o].at /\ op'[o].phase = "go"
      /\ op'[o].disturbed = op[o].disturbed /\ op'[o].landed = op[o].landed
      /\ op'[o].obj = op[o].obj /\ op'[o].box = op[o].box
  BY <1>t, AgainIs
<1> SUFFICES ASSUME Smooth(o)'
             PROVE  HeardAll(o)' /\ NamesRight(o)' /\ HasEffect(o)' /\ IsAnswered(o)'
  BY DEF SmoothOf
<1>2. Smooth(o) /\ Running(o)
  BY <1>1 DEF Smooth, Running
<1>3. HeardAll(o) /\ NamesRight(o) /\ HasEffect(o)
  BY <1>2 DEF SmoothInv
<1>4. /\ Step(o)' = Step(o) /\ Wants(o)' = Wants(o)
      /\ \A S : Past(o, S)' <=> Past(o, S)
  BY <1>1, PastSame
<1>5. ~Served(o)' /\ \A S : Did(o, S)' <=> Past(o, S)
  BY <1>1, <1>4 DEF Served, Did
<1>6. ~Did(o, {"up"}) /\ ~Past(o, {"up"})
  BY <1>2, <1>t, Before DEF Did, TryAgain, Polls
<1>7. \A S : Past(o, S) => Did(o, S)
  BY DEF Did
<1>8. HeardAll(o)'
  BY <1>t, <1>1, <1>3, HeardStill
<1>9. NamesRight(o)'
  BY <1>1, <1>3, <1>4 DEF NamesRight, Here
<1>10. HasEffect(o)'
  BY <1>1, <1>3, <1>4, <1>5, <1>6, <1>7 DEF HasEffect
<1>11. IsAnswered(o)'
  BY <1>1 DEF IsAnswered
<1>12. QED
  BY <1>8, <1>9, <1>10, <1>11

LEMMA SmoothAdvance ==
  ASSUME TypesInv, RequestInv, SmoothInv, NEW o \in Ops, Proceed(o), op' = Advance(o),
         ~Already(o),
         wire' = wire, web' = web
  PROVE  SmoothOf(o)'
<1>t. TypeOK /\ AtInv /\ op[o] \in Operation /\ op[o].phase = "answered"
        /\ op[o].saw \in Box
  BY DEF TypesInv, TypeOK, AtInv, Proceed, Answered
<1>r. Running(o)
  BY <1>t DEF Running
<1>1. CASE op[o].at = Len(Program(op[o].prog))
  <2>1. op' = Finish(o, "ok")
    BY <1>1 DEF Advance
  <2>2. op'[o].phase = "done"
    BY <1>t, <2>1, FinishIs
  <2>3. QED
    BY <2>2, SmoothDone
<1>2. CASE op[o].at # Len(Program(op[o].prog))
  <2>1. /\ op'[o].prog = op[o].prog /\ op'[o].at = op[o].at + 1 /\ op'[o].phase = "go"
        /\ op'[o].disturbed = op[o].disturbed /\ op'[o].landed = op[o].landed
        /\ op'[o].obj = IF Step(o) \in {"resolve",
             "look"} THEN op[o].saw.doc ELSE op[o].obj
        /\ op'[o].box = IF Step(o) = "quads" THEN op[o].saw ELSE op[o].box
    BY <1>t, <1>r, <1>2, AdvanceIs
  <2> SUFFICES ASSUME Smooth(o)'
               PROVE  HeardAll(o)' /\ NamesRight(o)' /\ HasEffect(o)' /\ IsAnswered(o)'
    BY DEF SmoothOf
  <2>2. Smooth(o)
    BY <1>r, <2>1 DEF Smooth
  <2>3. HeardAll(o) /\ NamesRight(o) /\ HasEffect(o) /\ IsAnswered(o) /\ RequestOf(o)
    BY <2>2 DEF SmoothInv, RequestInv
  <2>4. Truthful(o, op[o].ok, op[o].yes, op[o].saw) /\ Step(o) # "findFrame"
    BY <1>t, <2>3 DEF IsAnswered, RequestOf
  <2>5. /\ op[o].at \in 1..7
        /\ Step(o) # "up" /\ ~Past(o, {"up"})
        /\ Step(o) \in Finds => ~Past(o, Finds)
    BY <1>t, <1>r, <1>2, Needs, Before
  <2>6. \A S : Past(o, S)' <=> Past(o, S) \/ Step(o) \in S
    BY <2>1, <2>5, PastNext
  <2>7. Served(o) /\ ~Served(o)' /\ Wants(o)' = Wants(o)
    BY <1>t, <2>1 DEF Served, Wants
  <2>8. \A S : Did(o, S)' <=> Did(o, S)
    BY <2>6, <2>7 DEF Did
  <2>9. HeardAll(o)'
    BY <2>1, <2>3, HeardStill
  <2>10. NamesRight(o)'
    <3>1. op[o].saw.doc = web.doc
      BY <2>4 DEF Truthful, Here
    <3>2. Past(o, Finds)' => op'[o].obj = web.doc
      BY <2>1, <2>3, <2>4, <2>5, <2>6, <3>1 DEF NamesRight, Finds
    <3>3. Past(o, {"findFrame"})' => web.child = "attached"
      BY <2>3, <2>4, <2>6 DEF NamesRight
    <3>4. Past(o, {"quads"})' => op'[o].box = Here
      BY <2>1, <2>3, <2>4, <2>6 DEF NamesRight, Truthful
    <3>5. Here' = Here
      BY DEF Here
    <3>6. QED
      BY <2>1, <3>2, <3>3, <3>4, <3>5 DEF NamesRight
  <2>11. HasEffect(o)'
    <3>1. ~Did(o, {"up"})
      BY <2>5 DEF Did
    <3>2. Step(o) = "checked" => web.checked # Wants(o)
      BY <2>4 DEF Truthful, Already
    <3>3. Past(o, {"checked"})' => web.checked # Wants(o)
      BY <2>3, <2>6, <3>1, <3>2 DEF HasEffect
    <3>4. QED
      BY <2>1, <2>3, <2>7, <2>8, <3>1, <3>3 DEF HasEffect
  <2>12. IsAnswered(o)'
    BY <2>1 DEF IsAnswered
  <2>13. QED
    BY <2>9, <2>10, <2>11, <2>12
<1>3. QED
  BY <1>1, <1>2

(* How a step of an operation of its own leaves the operations. *)
LEMMA ResumeCases ==
  ASSUME TypesInv, NEW o \in Ops, Resume(o)
  PROVE  \/ TryAgain(o)
         \/ Proceed(o) /\ op' = Advance(o) /\ ~Already(o)
         \/ Proceed(o) /\ op' = Finish(o, "ok") /\ (Already(o) \/ Step(o) = "look")
         \/ Fail(o) /\ op' = Finish(o, "error")
BY DEF Resume, Proceed, Fail

LEMMA OnlyIts ==
  ASSUME TypesInv, NEW o \in Ops, Start(o) \/ Send(o) \/ FindFrame(o) \/ Resume(o)
         \/ Elapse(o)
  PROVE  /\ \A q \in Ops : q # o => op'[q] = op[q] /\ req'[q] = req[q]
         /\ wire' = wire /\ web' = web /\ page' = page
<1>t. TypeOK /\ AtInv /\ op \in [Ops -> Operation]
  BY DEF TypesInv, TypeOK
<1>1. wire' = wire /\ web' = web /\ page' = page
  BY DEF Start, Send, FindFrame, Resume, Elapse
<1>2. ASSUME NEW q \in Ops, q # o PROVE req'[q] = req[q]
  BY <1>t, <1>2, SendIs DEF Start, FindFrame, Resume, Elapse
<1>3. CASE Start(o)
  BY <1>t, <1>1, <1>2, <1>3, StartIs
<1>4. CASE Send(o)
  BY <1>t, <1>1, <1>2, <1>4, SendIs
<1>5. CASE FindFrame(o)
  BY <1>t, <1>1, <1>2, <1>5, FoundFrame
<1>6. ASSUME op' = Finish(o, "ok") \/ op' = Finish(o, "error")
             \/ op' = Finish(o, "timeout")
      PROVE  \A q \in Ops : q # o => op'[q] = op[q]
  BY <1>t, <1>6, FinishIs
<1>7. CASE Elapse(o)
  BY <1>1, <1>2, <1>6, <1>7 DEF Elapse, TimeOut
<1>8. CASE Resume(o)
  <2>1. CASE TryAgain(o)
    BY <1>t, <1>1, <1>2, <2>1, AgainIs
  <2>2. CASE Proceed(o) /\ op' = Advance(o)
    <3>1. \A q \in Ops : q # o => op'[q] = op[q]
      <4>1. Running(o) /\ op[o].saw \in Box
        BY <1>t, <2>2 DEF Proceed, Answered, Running, AtInv
      <4>2. CASE op[o].at = Len(Program(op[o].prog))
        BY <1>6, <2>2, <4>2 DEF Advance
      <4>3. CASE op[o].at # Len(Program(op[o].prog))
        BY <1>t, <2>2, <4>1, <4>3, AdvanceIs
      <4>4. QED
        BY <4>2, <4>3
    <3>2. QED
      BY <1>1, <1>2, <3>1
  <2>3. QED
    BY <1>1, <1>2, <1>6, <1>8, <2>1, <2>2, ResumeCases
<1>9. QED
  BY <1>3, <1>4, <1>5, <1>7, <1>8

LEMMA SmoothOp ==
  ASSUME TypesInv, DocInv, RequestInv, SmoothInv, NEW o \in Ops,
         Start(o) \/ Send(o) \/ FindFrame(o) \/ Resume(o) \/ Elapse(o)
  PROVE  SmoothInv'
<1>t. TypeOK
  BY DEF TypesInv
<1>1. /\ \A q \in Ops : q # o => op'[q] = op[q] /\ req'[q] = req[q]
      /\ wire' = wire /\ web' = web /\ page' = page
  BY OnlyIts
<1>2. ASSUME op' = Finish(o, "ok") \/ op' = Finish(o, "error")
             \/ op' = Finish(o, "timeout")
      PROVE  SmoothOf(o)'
  BY <1>t, <1>2, FinishIs, SmoothDone
<1>3. CASE Resume(o)
  <2>1. SmoothOf(o)'
    BY <1>1, <1>2, <1>3, ResumeCases, SmoothAgain, SmoothAdvance
  <2>2. QED
    BY <1>1, <2>1, SmoothMoves
<1>4. CASE Elapse(o)
  <2>1. SmoothOf(o)'
    BY <1>2, <1>4 DEF Elapse, TimeOut
  <2>2. QED
    BY <1>1, <2>1, SmoothMoves
<1>5. CASE Start(o) \/ Send(o) \/ FindFrame(o)
  <2>1. SmoothOf(o)'
    BY <1>5, SmoothStart, SmoothSend, SmoothFindFrame
  <2>2. QED
    BY <1>1, <2>1, SmoothMoves
<1>6. QED
  BY <1>3, <1>4, <1>5

(* The steps of the browser *)
LEMMA SmoothShaken ==
  ASSUME TypesInv, Navigate \/ Shift \/ Blur
  PROVE  SmoothInv'
<1>t. op \in [Ops -> Operation] /\ op' = Disturb(op, Ops)
  BY DEF TypesInv, TypeOK, Navigate, Shift, Blur
<1>1. ASSUME NEW q \in Ops PROVE ~Smooth(q)'
  <2>1. Keeps(op[q], op'[q]) /\ (op[q].phase \in {"go", "sent", "answered"}
          => op'[q].disturbed)
    BY <1>t, DisturbKeeps
  <2>2. QED
    BY <2>1 DEF Smooth, Running, Keeps
<1>2. QED
  BY <1>1 DEF SmoothInv

LEMMA SmoothAppear == ASSUME TypesInv, SmoothInv, Appear PROVE SmoothInv'
<1>t. /\ op' = op /\ req' = req /\ wire' = wire /\ web' = [web EXCEPT !.present = TRUE]
      /\ web \in WebState
  BY DEF Appear, TypesInv, TypeOK
<1>1. /\ web'.doc = web.doc /\ web'.lay = web.lay /\ web'.shown = web.shown
      /\ web'.focus = web.focus /\ web'.pressed = web.pressed
           /\ web'.checked = web.checked
      /\ web'.child = web.child
  BY <1>t DEF WebState
<1>2. ASSUME NEW q \in Ops PROVE SmoothOf(q)'
  <2>1. SmoothOf(q) /\ Same(q)
    BY <1>t, <1>1, Kept DEF SmoothInv, SmoothOf, Same
  <2>2. QED
    BY <1>t, <1>1, <2>1, SmoothRest
<1>3. QED
  BY <1>2 DEF SmoothInv, SmoothOf

(* A child frame comes or goes: what is said is of that frame only. *)
LEMMA HeardChild ==
  ASSUME TypeOK, NEW q, HeardAll(q), op'[q].prog = op[q].prog, web'.doc = web.doc,
         web.doc \in Docs, NEW s, Grown(s), \A k \in 1..Len(s) : s[k].f = web.doc,
         op[q].prog = "FrameBox" => web'.child = "attached"
  PROVE  HeardAll(q)'
<1>1. ASSUME NEW f, f # web.doc
      PROVE  /\ ContextsOf(wire, f) = {} => ContextsOf(wire', f) = {}
             /\ FramesOf(wire, f) = {} => FramesOf(wire', f) = {}
  <2>1. \A k \in 1..Len(s) : ~TellsContext(s[k], f) /\ ~TellsFrame(s[k], f)
    BY <1>1 DEF TellsContext, TellsFrame
  <2>2. QED
    BY <2>1 DEF Grown, ContextsOf, FramesOf
<1>2. ContextsOf(wire', Main) = {}
  BY <1>1, DocsAre DEF HeardAll
<1>3. ASSUME op[q].prog = "FrameBox", NEW d \in Docs, ~Has(d)'
      PROVE  FramesOf(wire', d) = {}
  <2>1. d # web.doc /\ ~Has(d)
    BY <1>3 DEF Has
  <2>2. QED
    BY <1>1, <1>3, <2>1 DEF HeardAll
<1>4. QED
  BY <1>2, <1>3 DEF HeardAll

LEMMA SmoothChild == ASSUME TypesInv, SmoothInv, AttachChild \/ DetachChild
 PROVE  SmoothInv'
<1>t. TypeOK /\ AtInv /\ op \in [Ops -> Operation] /\ web \in WebState /\ req' = req
  BY DEF TypesInv, TypeOK, AttachChild, DetachChild
<1>1. /\ web'.doc = web.doc /\ web'.lay = web.lay /\ web'.shown = web.shown
      /\ web'.focus = web.focus /\ web'.pressed = web.pressed
           /\ web'.checked = web.checked
      /\ web.doc \in Docs
      /\ AttachChild => web.child = "never" /\ web'.child = "attached"
  BY <1>t DEF WebState, AttachChild, DetachChild
<1>2. \E s : Grown(s) /\ \A k \in 1..Len(s) : s[k].f = web.doc /\ s[k].t # "reply"
  <2>1. CASE AttachChild
    <3>1. PICK s : AttachSays(s)
      BY <1>t, <2>1, AttachIs
    <3>2. /\ Event("attached", web.doc).f = web.doc
            /\ Event("attached", web.doc).t # "reply"
          /\ Event("committed", web.doc).f = web.doc
               /\ Event("committed", web.doc).t # "reply"
          /\ ChildCtx(web.doc).f = web.doc /\ ChildCtx(web.doc).t # "reply"
      BY DEF Event, ChildCtx
    <3>3. \A k \in 1..Len(s) : k = 1 \/ k = 2 \/ k = 3
      BY <3>1 DEF AttachSays
    <3>4. QED
      BY <3>1, <3>2, <3>3 DEF AttachSays
  <2>2. CASE DetachChild
    <3>1. PICK s : s = <<Event("detached", web.doc)>>
      OBVIOUS
    <3>2. Grown(s)
      BY <1>t, <2>2, <3>1, DetachIs
    <3>3. Event("detached", web.doc).f = web.doc
            /\ Event("detached", web.doc).t # "reply"
      BY DEF Event
    <3>4. \A k \in 1..Len(s) : s[k] = Event("detached", web.doc)
      BY <3>1
    <3>5. QED
      BY <3>2, <3>3, <3>4
  <2>3. QED
    BY <2>1, <2>2
<1>3. PICK s : Grown(s) /\ \A k \in 1..Len(s) : s[k].f = web.doc /\ s[k].t # "reply"
  BY <1>2
<1>4. ASSUME NEW q \in Ops, Smooth(q)'
      PROVE  HeardAll(q)' /\ NamesRight(q)' /\ HasEffect(q)' /\ IsAnswered(q)'
  <2>1. /\ Keeps(op[q], op'[q]) /\ op'[q].landed = op[q].landed
        /\ ~op'[q].disturbed => ~op[q].disturbed
        /\ DetachChild /\ q \in OnFrames
             /\ op[q].phase \in {"go", "sent", "answered"} =>
             op'[q].disturbed
    <3>1. CASE AttachChild
      BY <3>1, Kept DEF AttachChild, DetachChild
    <3>2. CASE DetachChild
      <4>1. op' = Disturb(op, OnFrames)
        BY <3>2 DEF DetachChild
      <4>2. QED
        BY <1>t, <4>1, DisturbKeeps
    <3>3. QED
      BY <3>1, <3>2
  <2>2. op'[q].prog = op[q].prog /\ op'[q].phase = op[q].phase
    BY <2>1 DEF Keeps
  <2>3. Smooth(q) /\ Running(q)
    BY <1>4, <2>1, <2>2 DEF Smooth, Running
  <2>4. DetachChild => op[q].prog # "FrameBox"
    BY <1>4, <2>1, <2>3 DEF OnFrames, Smooth, Running
  <2>5. HeardAll(q) /\ NamesRight(q) /\ HasEffect(q) /\ IsAnswered(q)
    BY <2>3 DEF SmoothInv
  <2>6. HeardAll(q)'
    BY <1>t, <1>1, <1>3, <2>2, <2>4, <2>5, HeardChild
  <2>7. Past(q, {"findFrame"}) => op[q].prog = "FrameBox"
    BY <1>t, <2>3, Before
  <2>8. Past(q, {"findFrame"}) /\ web.child = "attached" => web'.child = "attached"
    BY <1>1, <2>4, <2>7
  <2>9. Same(q)
    BY <1>t, <1>1, <2>1 DEF Same
  <2>10. \A i \in RepliesTo(wire', q) : \E j \in RepliesTo(wire, q) : wire'[i] = wire[j]
    BY <1>3, GrownReplies
  <2>11. NamesRight(q)' /\ HasEffect(q)' /\ IsAnswered(q)'
    BY <2>5, <2>8, <2>9, <2>10, SmoothSame
  <2>12. QED
    BY <2>6, <2>11
<1>5. QED
  BY <1>4 DEF SmoothInv

-----------------------------------------------------------------------------
(* The invariants of every step *)

LEMMA RequestOp ==
  ASSUME TypesInv, RequestInv, NEW o \in Ops,
         Start(o) \/ FindFrame(o) \/ Resume(o) \/ Elapse(o)
  PROVE  RequestInv'
<1>t. TypeOK /\ AtInv
  BY DEF TypesInv
<1>1. wire' = wire /\ req' = req
  BY DEF Start, FindFrame, Resume, Elapse
<1>2. \A q \in Ops : q # o => op'[q] = op[q]
  BY OnlyIts
<1>3. CASE op'[o].phase = "done"
  BY <1>1, <1>2, <1>3, RequestMoves
<1>4. ASSUME op' = Finish(o, "ok") \/ op' = Finish(o, "error")
             \/ op' = Finish(o, "timeout")
      PROVE  op'[o].phase = "done"
  BY <1>t, <1>4, FinishIs
<1>5. ASSUME op'[o].phase # "done"
      PROVE  /\ op[o].phase \in {"idle", "go", "answered"} /\ op'[o].phase = "go"
             /\ op'[o].result = op[o].result
  <2>1. CASE Start(o)
    BY <1>t, <2>1, StartIs
  <2>2. CASE FindFrame(o)
    BY <1>t, <2>2, FoundFrame
  <2>3. CASE Elapse(o)
    BY <1>4, <1>5, <2>3 DEF Elapse, TimeOut
  <2>4. CASE TryAgain(o)
    BY <1>t, <2>4, AgainIs
  <2>5. CASE Proceed(o) /\ op' = Advance(o)
    <3>1. Running(o) /\ op[o].saw \in Box /\ op[o].phase = "answered"
      BY <1>t, <2>5 DEF Proceed, Answered, Running, AtInv
    <3>2. op[o].at # Len(Program(op[o].prog))
      BY <1>4, <1>5, <2>5 DEF Advance
    <3>3. QED
      BY <1>t, <2>5, <3>1, <3>2, AdvanceIs
  <2>6. CASE Resume(o)
    BY <1>4, <1>5, <2>4, <2>5, <2>6, ResumeCases
  <2>7. QED
    BY <2>1, <2>2, <2>3, <2>6
<1>6. QED
  BY <1>1, <1>2, <1>3, <1>5, RequestMoves

LEMMA RequestStep == TypesInv /\ RequestInv /\ [Next]_vars => RequestInv'
<1> SUFFICES ASSUME TypesInv, RequestInv, [Next]_vars PROVE RequestInv'
  OBVIOUS
<1>1. CASE UNCHANGED vars
  BY <1>1 DEF vars, RequestInv, RequestOf, RepliesTo, Step
<1>2. QED
  BY <1>1, RequestHandle, RequestWeb, RequestServe, RequestSend, RequestOp DEF Next

LEMMA SmoothInit == Init => SmoothInv
<1> SUFFICES ASSUME Init PROVE SmoothInv
  OBVIOUS
<1>1. ASSUME NEW o \in Ops PROVE op[o].phase = "idle"
  BY DEF Init, Idle
<1>2. QED
  BY <1>1 DEF SmoothInv, Smooth, Running

LEMMA SmoothStep == TypesInv /\ DocInv /\ RequestInv /\ SmoothInv /\ [Next]_vars
        => SmoothInv'
<1> SUFFICES ASSUME TypesInv, DocInv, RequestInv, SmoothInv, [Next]_vars
             PROVE  SmoothInv'
  OBVIOUS
<1>1. CASE UNCHANGED vars
  <2>1. \A q \in Ops : SmoothOf(q)'
    BY <1>1, SmoothStill DEF vars, SmoothInv, SmoothOf
  <2>2. QED
    BY <2>1 DEF SmoothInv, SmoothOf
<1>2. QED
  BY <1>1, SmoothHandle, SmoothServe, SmoothRefuse, SmoothOp, SmoothShaken, SmoothAppear, SmoothChild
  DEF Next

-----------------------------------------------------------------------------
(* How operations end *)

DoneOf(o) ==
  /\ op[o].phase = "done" /\ ~op[o].disturbed =>
       op[o].result # "error" /\ (op[o].result = "ok" => op[o].good)
  /\ op[o].result = "error" => Step(o) \notin Polls

LEMMA DoneKept ==
  ASSUME NEW q, DoneOf(q), Keeps(op[q], op'[q]), ~op'[q].disturbed => ~op[q].disturbed
  PROVE  DoneOf(q)'
<1>1. Step(q)' = Step(q) /\ op'[q].phase = op[q].phase /\ op'[q].result = op[q].result
      /\ op'[q].good = op[q].good
  BY DEF Keeps, Step
<1>2. QED
  BY <1>1 DEF DoneOf

LEMMA DoneNot == ASSUME NEW q, RequestOf(q)', op'[q].phase # "done" PROVE DoneOf(q)'
BY NoneAssumption DEF DoneOf, RequestOf

LEMMA DoneFinish ==
  ASSUME TypesInv, NEW o \in Ops, NEW how \in {"ok", "error", "timeout"},
         op' = Finish(o, how),
         how = "error" => op[o].disturbed /\ Step(o) \notin Polls,
         how = "ok" /\ ~op[o].disturbed => IsGood(o)
  PROVE  DoneOf(o)'
<1>1. /\ op'[o].prog = op[o].prog /\ op'[o].at = op[o].at /\ op'[o].phase = "done"
      /\ op'[o].disturbed = op[o].disturbed /\ op'[o].result = how
           /\ op'[o].good = IsGood(o)
  BY FinishIs DEF TypesInv
<1>2. Step(o)' = Step(o)
  BY <1>1, PastSame
<1>3. QED
  BY <1>1, <1>2 DEF DoneOf

LEMMA GoodEnd ==
  ASSUME TypesInv, SmoothInv, NEW o \in Ops, Proceed(o), ~op[o].disturbed,
         Already(o) \/ Step(o) = "look" \/ op[o].at = Len(Program(op[o].prog))
  PROVE  IsGood(o)
<1>t. TypeOK /\ AtInv /\ op[o].phase = "answered" /\ Running(o)
  BY DEF TypesInv, Proceed, Answered, Running
<1>1. HasEffect(o) /\ IsAnswered(o)
  BY <1>t DEF SmoothInv, Smooth
<1>2. Truthful(o, op[o].ok, op[o].yes, op[o].saw) /\ Served(o)
  BY <1>t, <1>1 DEF IsAnswered, Served
<1>3. CASE Already(o)
  <2>1. op[o].prog \in {"Check", "Uncheck"} /\ web.checked = Wants(o)
    BY <1>t, <1>2, <1>3, Needs DEF Truthful, Already
  <2>2. QED
    BY <2>1 DEF IsGood, Acts
<1>4. CASE Step(o) = "look"
  <2>1. op[o].prog = "IsVisible"
    BY <1>t, <1>4, Needs
  <2>2. QED
    BY <2>1 DEF IsGood, Acts
<1>5. CASE op[o].at = Len(Program(op[o].prog))
  <2>1. CASE op[o].prog \in {"Check", "Uncheck"}
    <3>1. Step(o) = "up" /\ Past(o, {"checked"})
      BY <1>t, <1>5, <2>1, Needs
    <3>2. web.checked = Wants(o)
      BY <1>1, <1>2, <3>1 DEF HasEffect, Did
    <3>3. QED
      BY <2>1, <3>2 DEF IsGood, Acts
  <2>2. CASE op[o].prog \notin {"Check", "Uncheck"}
    BY <1>1, <1>2, <2>2 DEF IsGood, HasEffect
  <2>3. QED
    BY <2>1, <2>2
<1>6. QED
  BY <1>3, <1>4, <1>5

LEMMA DoneOp ==
  ASSUME TypesInv, RequestInv', SmoothInv, NEW o \in Ops, DoneOf(o),
         Start(o) \/ Send(o) \/ FindFrame(o) \/ Resume(o) \/ Elapse(o)
  PROVE  DoneOf(o)'
<1>t. TypeOK /\ AtInv /\ RequestOf(o)'
  BY DEF TypesInv, RequestInv
<1>0. ASSUME op'[o].phase # "done" PROVE DoneOf(o)'
  BY <1>0, <1>t, DoneNot
<1>1. CASE Start(o) \/ FindFrame(o)
  BY <1>0, <1>1, <1>t, StartIs, FoundFrame
<1>2. CASE Send(o)
  <2>1. op[o] \in Operation /\ op'[o] = [op[o] EXCEPT !.phase = "sent"]
    BY <1>2, <1>t, SendIs DEF TypeOK
  <2>2. op'[o].phase = "sent"
    BY <2>1 DEF Operation
  <2>3. QED
    BY <1>0, <2>2
<1>3. CASE Elapse(o)
  BY <1>3, DoneFinish DEF Elapse, TimeOut
<1>4. CASE TryAgain(o)
  BY <1>0, <1>4, <1>t, AgainIs
<1>5. CASE Proceed(o) /\ op' = Finish(o, "ok") /\ (Already(o) \/ Step(o) = "look")
  BY <1>5, GoodEnd, DoneFinish
<1>6. CASE Proceed(o) /\ op' = Advance(o) /\ ~Already(o)
  <2>1. CASE op[o].at = Len(Program(op[o].prog))
    <3>1. op' = Finish(o, "ok")
      BY <1>6, <2>1 DEF Advance
    <3>2. QED
      BY <1>6, <2>1, <3>1, GoodEnd, DoneFinish
  <2>2. CASE op[o].at # Len(Program(op[o].prog))
    <3>1. Running(o) /\ op[o].saw \in Box
      BY <1>t, <1>6 DEF Proceed, Answered, Running, AtInv
    <3>2. op'[o].phase = "go"
      BY <1>t, <1>6, <2>2, <3>1, AdvanceIs
    <3>3. QED
      BY <1>0, <3>2
  <2>3. QED
    BY <2>1, <2>2
<1>7. CASE Fail(o) /\ op' = Finish(o, "error")
  <2>1. op[o].phase = "answered" /\ ~op[o].ok /\ Step(o) \notin Polls
    BY <1>7 DEF Fail, Answered
  <2>2. op[o].disturbed
    BY <2>1 DEF SmoothInv, Smooth, Running, IsAnswered, Truthful
  <2>3. QED
    BY <1>7, <2>1, <2>2, DoneFinish
<1>8. QED
  BY <1>1, <1>2, <1>3, <1>4, <1>5, <1>6, <1>7, ResumeCases

LEMMA DoneStep ==
  TypesInv /\ RequestInv' /\ SmoothInv /\ UndisturbedSucceeds /\ [Next]_vars
          => UndisturbedSucceeds'
<1> SUFFICES ASSUME TypesInv, RequestInv', SmoothInv, UndisturbedSucceeds, [Next]_vars,
                    NEW q \in Ops
             PROVE  DoneOf(q)'
  BY DEF UndisturbedSucceeds, DoneOf
<1>t. TypeOK /\ op \in [Ops -> Operation]
  BY DEF TypesInv, TypeOK
<1>i. DoneOf(q)
  BY DEF UndisturbedSucceeds, DoneOf
<1>k. ASSUME op'[q] = op[q] PROVE DoneOf(q)'
  BY <1>i, <1>k, Kept, DoneKept
<1>1. CASE UNCHANGED vars \/ Appear \/ AttachChild
  BY <1>1, <1>k DEF vars, Appear, AttachChild
<1>2. CASE Navigate \/ Shift \/ Blur \/ DetachChild
  <2>1. PICK who : op' = Disturb(op, who)
    BY <1>2 DEF Navigate, Shift, Blur, DetachChild
  <2>2. Keeps(op[q], op'[q]) /\ (~op'[q].disturbed => ~op[q].disturbed)
    BY <1>t, <2>1, DisturbKeeps
  <2>3. QED
    BY <1>i, <2>2, DoneKept
<1>3. CASE Handle
  <2>1. CASE op'[q].phase = "answered"
    BY <2>1, DoneNot DEF RequestInv
  <2>2. QED
    BY <1>3, <1>k, <2>1, HandleOp
<1>4. ASSUME NEW o \in Ops, Serve(o) \/ Refuse(o) PROVE DoneOf(q)'
  BY <1>4, <1>t, <1>i, ServeIs, RefuseIs, DoneKept
<1>5. ASSUME NEW o \in Ops, Start(o) \/ Send(o) \/ FindFrame(o) \/ Resume(o)
             \/ Elapse(o)
      PROVE  DoneOf(q)'
  <2>1. CASE q = o
    BY <1>5, <1>i, <2>1, DoneOp
  <2>2. CASE q # o
    BY <1>5, <1>k, <2>2, OnlyIts
  <2>3. QED
    BY <2>1, <2>2
<1>6. QED
  BY <1>1, <1>2, <1>3, <1>4, <1>5 DEF Next

(* An operation that nothing disturbs, whatever its calls and however the  *)
(* messages of others come between them, does not fail, and one that       *)
(* returns has acted on its element (ClickWithOptions, Fill, Type, Press,  *)
(* setChecked, SetInputFiles); a wait helper never fails but by deadline   *)
(* (WaitForSelector, waitForHandle).                                       *)
THEOREM UndisturbedOps == Spec => []UndisturbedSucceeds
<1>1. Init => UndisturbedSucceeds
  <2> SUFFICES ASSUME Init PROVE UndisturbedSucceeds
    OBVIOUS
  <2>1. ASSUME NEW o \in Ops PROVE op[o].phase = "idle" /\ op[o].result = None
    BY DEF Init, Idle
  <2>2. QED
    BY <2>1, NoneAssumption DEF UndisturbedSucceeds
<1>2. QED
  BY <1>1, TypesInit, TypesStep, DocInit, DocStep, RequestInit, RequestStep, SmoothInit,
     SmoothStep, DoneStep, PTL DEF Spec
=============================================================================
