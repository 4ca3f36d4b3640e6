--------------------------- MODULE Platform_proofs ---------------------------
(***************************************************************************)
(* The invariants of MCPlatform's captures, surfaces, devices and audio,   *)
(* for any images, sizes, buffers, devices and bounds: each component has  *)
(* an inductive invariant that its own steps keep and no other component's *)
(* step touches.  What is sent is in Wire_proofs.                          *)
(***************************************************************************)
EXTENDS MCPlatform, FiniteSetTheorems, WellFoundedInduction, TLAPS

(* A step of the suite is one of the component it looks at, or leaves it.  *)
LEMMA ComponentSteps ==
    ASSUME [Steps]_allVars
    PROVE  /\ focus' = focus
           /\ [focus = "kms" /\ Kms!Next]_kmsVars
           /\ \/ focus = "wlr" /\ Wlr!Next
              \/ focus = "wlrStart" /\ WlrStart!Next
              \/ UNCHANGED wlrVars
           /\ [focus = "dxgi" /\ Dxgi!Next]_dxgiVars
           /\ \/ focus = "convert" /\ Convert!Next
              \/ focus = "fbc" /\ Fbc!Next
              \/ focus = "nvenc" /\ Nvenc!Next
              \/ UNCHANGED convertVars
           /\ \/ focus = "wire" /\ Wire!Next
              \/ focus = "audioWire" /\ AudioWire!Next
              \/ focus = "control" /\ Control!Next
              \/ focus = "send" /\ Send!Next
              \/ focus = "qos" /\ Qos!Next
              \/ UNCHANGED wireVars
           /\ [focus = "audio" /\ Audio!Next]_audioVars
           /\ \/ focus = "pointer" /\ Pointer!Next
              \/ focus = "pad" /\ Rumble!Next
              \/ UNCHANGED pointerVars
  BY DEF Steps, OnlyFocus, allVars

-----------------------------------------------------------------------------
(* KmsCapture.  The copy of the cursor in an image is older than the       *)
(* captured one or is it; an image that is pushed with a cursor got that.  *)
KmsTypes ==
    /\ kmsPc \in {"closed", "cursor", "plane", "loop", "refresh", "update", "pull",
                  "blend", "push", "drain"}
    /\ DOMAIN kmsCursor = {"visible", "fb", "serial"}
    /\ kmsCursor.serial \in Nat /\ kmsCursor.visible \in BOOLEAN
    /\ DOMAIN drawn = KmsImages /\ DOMAIN kmsShown = KmsImages
    /\ \A i \in KmsImages : drawn[i].serial \in Nat
CursorPixels ==
    /\ kmsCursor.visible => pixels = kmsCursor.fb
    /\ kmsCursor.serial = 0 => pixels = "none"
ImagePixels ==
    /\ \A i \in KmsImages :
        /\ drawn[i].serial <= kmsCursor.serial
        /\ drawn[i].serial = kmsCursor.serial => drawn[i].image = pixels
    /\ kmsPc \in {"closed", "cursor", "plane"} =>
        \A i \in KmsImages : drawn[i].serial = 0 /\ drawn[i].image = "none"
InHand ==
    /\ kmsPc \in {"blend", "push"} => mine \in KmsImages
    /\ ~ram /\ kmsPc \in {"refresh", "update"} => mine \in KmsImages
PushedPixels ==
    kmsPc = "push" /\ kmsShown[mine] =>
        kmsCursor.visible /\ drawn[mine].serial = kmsCursor.serial
KmsInv == KmsTypes /\ CursorPixels /\ ImagePixels /\ InHand /\ PushedPixels

LEMMA KmsStart == ASSUME Kms!Init PROVE KmsInv
  BY DEF Kms!Init, KmsInv, KmsTypes, CursorPixels, ImagePixels, InHand, PushedPixels,
         Kms!NoPixels

(* A new number of the cursor makes the copies in all images older. *)
LEMMA KmsUpdates ==
    ASSUME KmsInv, Kms!UpdateCursor PROVE KmsInv'
  <1> USE DEF Kms!cursorVars, Kms!imageVars, Kms!desktopVars
  <1>1. /\ kmsPc = "update" /\ kmsPc' \in {"pull", "blend"} /\ UNCHANGED <<drawn, kmsShown, mine, ram>>
        /\ kmsPc' = "blend" => ~ram
    BY DEF Kms!UpdateCursor
  <1>2. CASE UNCHANGED <<kmsCursor, pixels>>
    BY <1>1, <1>2 DEF KmsInv, KmsTypes, CursorPixels, ImagePixels, InHand, PushedPixels
  <1>3. CASE /\ pixels' = pixels
             /\ \/ kmsCursor' = [kmsCursor EXCEPT !.visible = FALSE, !.fb = "none"]
                \/ kmsCursor' = [kmsCursor EXCEPT !.visible = FALSE]
    <2>1. /\ DOMAIN kmsCursor' = {"visible", "fb", "serial"}
          /\ kmsCursor'.visible = FALSE /\ kmsCursor'.serial = kmsCursor.serial
      BY <1>3 DEF KmsInv, KmsTypes
    <2> QED BY <1>1, <1>3, <2>1 DEF KmsInv, KmsTypes, CursorPixels, ImagePixels, InHand, PushedPixels
  <1>4. CASE Kms!CursorDownloaded
    <2>1. /\ DOMAIN kmsCursor' = {"visible", "fb", "serial"}
          /\ kmsCursor'.visible = TRUE /\ kmsCursor'.serial = kmsCursor.serial + 1
          /\ pixels' = kmsCursor'.fb
      BY <1>4 DEF Kms!CursorDownloaded
    <2>2. kmsCursor.serial \in Nat /\ kmsCursor'.serial # 0
      BY <2>1 DEF KmsInv, KmsTypes
    <2>3. \A i \in KmsImages : drawn'[i].serial < kmsCursor'.serial
      BY <1>1, <2>1, <2>2 DEF KmsInv, KmsTypes, ImagePixels
    <2>4. KmsTypes' /\ CursorPixels'
      <3>1. kmsCursor'.serial \in Nat
        BY <2>1, <2>2
      <3>2. kmsCursor'.visible \in BOOLEAN
        BY <2>1
      <3>3. KmsTypes'
        BY <1>1, <2>1, <3>1, <3>2 DEF KmsInv, KmsTypes
      <3> QED BY <2>1, <2>2, <3>3 DEF CursorPixels
    <2>5. ImagePixels'
      BY <1>1, <2>3, <2>4 DEF KmsTypes, ImagePixels
    <2>6. InHand' /\ PushedPixels'
      BY <1>1 DEF KmsInv, InHand, PushedPixels
    <2> QED BY <2>4, <2>5, <2>6 DEF KmsInv
  <1> QED BY <1>2, <1>3, <1>4 DEF Kms!UpdateCursor, Kms!CursorUnreadable

(* An image is pushed with the cursor as it is, or with none.              *)
LEMMA KmsBlends ==
    ASSUME KmsInv, Kms!Blend \/ Kms!BlendCopied PROVE KmsInv'
  <1> USE DEF Kms!cursorVars, Kms!imageVars, Kms!desktopVars
  <1> PICK new : new = [image |-> pixels, serial |-> kmsCursor.serial]
    OBVIOUS
  <1>1. /\ kmsPc = "blend" /\ kmsPc' = "push" /\ mine' = mine /\ mine \in KmsImages
        /\ UNCHANGED <<ram, kmsCursor, pixels>>
        /\ kmsShown' = [kmsShown EXCEPT ![mine] = kmsCursor.visible]
    BY DEF Kms!Blend, Kms!BlendCopied, KmsInv, InHand
  <1>2. /\ kmsShown'[mine] = kmsCursor.visible /\ DOMAIN kmsShown' = KmsImages
    BY <1>1 DEF KmsInv, KmsTypes
  <1>3. \/ drawn' = drawn /\ (kmsCursor.visible => drawn[mine].serial = kmsCursor.serial)
        \/ drawn' = [drawn EXCEPT ![mine] = [image |-> pixels, serial |-> kmsCursor.serial]]
        \/ drawn' = [drawn EXCEPT ![mine] = Kms!NoPixels] /\ ~kmsCursor.visible
    BY DEF Kms!Blend, Kms!BlendCopied
  <1>4. CASE drawn' = drawn /\ (kmsCursor.visible => drawn[mine].serial = kmsCursor.serial)
    BY <1>1, <1>2, <1>4 DEF KmsInv, KmsTypes, CursorPixels, ImagePixels, InHand, PushedPixels
  <1>5. CASE drawn' = [drawn EXCEPT ![mine] = [image |-> pixels, serial |-> kmsCursor.serial]]
    <2>1. /\ drawn'[mine] = [image |-> pixels, serial |-> kmsCursor.serial]
          /\ DOMAIN drawn' = KmsImages
          /\ \A i \in KmsImages : i # mine => drawn'[i] = drawn[i]
      BY <1>1, <1>5 DEF KmsInv, KmsTypes
    <2> QED BY <1>1, <1>2, <2>1 DEF KmsInv, KmsTypes, CursorPixels, ImagePixels, InHand, PushedPixels
  <1>6. CASE drawn' = [drawn EXCEPT ![mine] = Kms!NoPixels] /\ ~kmsCursor.visible
    <2>1. /\ drawn'[mine] = Kms!NoPixels /\ DOMAIN drawn' = KmsImages
          /\ \A i \in KmsImages : i # mine => drawn'[i] = drawn[i]
      BY <1>1, <1>6 DEF KmsInv, KmsTypes
    <2> QED BY <1>1, <1>2, <1>6, <2>1
            DEF KmsInv, KmsTypes, CursorPixels, ImagePixels, InHand, PushedPixels, Kms!NoPixels
  <1> QED BY <1>3, <1>4, <1>5, <1>6

LEMMA KmsStep ==
    ASSUME KmsInv, [focus = "kms" /\ Kms!Next]_kmsVars PROVE KmsInv'
  <1> USE DEF Kms!cursorVars, Kms!imageVars, Kms!desktopVars
  <1>1. CASE UNCHANGED kmsVars
    BY <1>1 DEF KmsInv, KmsTypes, CursorPixels, ImagePixels, InHand, PushedPixels, kmsVars
  <1>2. CASE Kms!UpdateCursor
    BY <1>2, KmsUpdates
  <1>3. CASE Kms!Blend \/ Kms!BlendCopied
    BY <1>3, KmsBlends
  <1>4. CASE Kms!Desktop \/ Kms!DropPrivileges \/ Kms!DisplayNames
    BY <1>4 DEF Kms!Desktop, Kms!DropPrivileges, Kms!DisplayNames, KmsInv, KmsTypes,
                CursorPixels, ImagePixels, InHand, PushedPixels
  <1>5. ASSUME NEW p \in Kms!Displays, Kms!Open(p) PROVE KmsInv'
    BY <1>5 DEF Kms!Open, KmsInv, KmsTypes, CursorPixels, ImagePixels, InHand, PushedPixels
  <1>6. CASE Kms!SelectMemory
    BY <1>6 DEF Kms!SelectMemory, KmsInv, KmsTypes, CursorPixels, ImagePixels, InHand, PushedPixels
  <1>7. CASE Kms!FindCursorPlane
    BY <1>7 DEF Kms!FindCursorPlane, KmsInv, KmsTypes, CursorPixels, ImagePixels, InHand, PushedPixels
  <1>8. CASE Kms!RamSnapshot \/ Kms!PushImage
    BY <1>8 DEF Kms!RamSnapshot, Kms!PushImage, KmsInv, KmsTypes, CursorPixels, ImagePixels, InHand,
                PushedPixels
  <1>9. ASSUME NEW i \in KmsImages, Kms!PullImage(i) PROVE KmsInv'
    BY <1>9 DEF Kms!PullImage, KmsInv, KmsTypes, CursorPixels, ImagePixels, InHand, PushedPixels
  <1>10. CASE Kms!RefreshFails \/ Kms!RefreshReinit \/ Kms!RefreshOk
    <2>1. /\ kmsPc = "refresh" /\ kmsPc' \in {"drain", "loop", "update"}
          /\ UNCHANGED <<kmsCursor, pixels, drawn, kmsShown, ram>>
          /\ kmsPc' = "update" => mine' = mine
      BY <1>10 DEF Kms!RefreshFails, Kms!RefreshReinit, Kms!RefreshOk, Kms!Close
    <2> QED BY <2>1 DEF KmsInv, KmsTypes, CursorPixels, ImagePixels, InHand, PushedPixels
  <1>11. CASE Kms!DropImages
    <2>1. /\ kmsPc' = "closed" /\ UNCHANGED <<kmsCursor, pixels, ram>>
          /\ DOMAIN drawn' = KmsImages /\ DOMAIN kmsShown' = KmsImages
          /\ \A i \in KmsImages : drawn'[i] = Kms!NoPixels
      BY <1>11 DEF Kms!DropImages
    <2> QED BY <2>1 DEF KmsInv, KmsTypes, CursorPixels, ImagePixels, InHand, PushedPixels, Kms!NoPixels
  <1> QED BY <1>1, <1>2, <1>3, <1>4, <1>5, <1>6, <1>7, <1>8, <1>9, <1>10, <1>11 DEF Kms!Next

LEMMA KmsShowsCursor == ASSUME KmsInv PROVE Kms!CursorIsCurrent
  BY DEF KmsInv, KmsTypes, CursorPixels, ImagePixels, InHand, PushedPixels, Kms!CursorIsCurrent

(* The larger of two numbers, and the smaller. *)
LEMMA LargerOfTwo ==
    ASSUME NEW a \in Int, NEW b \in Int
    PROVE  Kms!Max({a, b}) = IF a < b THEN b ELSE a
  <1> DEFINE m == IF a < b THEN b ELSE a
  <1>1. m \in {a, b} /\ \A y \in {a, b} : m >= y
    OBVIOUS
  <1>2. \A x \in {a, b} : (\A y \in {a, b} : x >= y) => x = m
    OBVIOUS
  <1> QED BY <1>1, <1>2 DEF Kms!Max
LEMMA SmallerOfTwo ==
    ASSUME NEW a \in Int, NEW b \in Int
    PROVE  Kms!Min({a, b}) = IF a < b THEN a ELSE b
  <1> DEFINE m == IF a < b THEN a ELSE b
  <1>1. m \in {a, b} /\ \A y \in {a, b} : m <= y
    OBVIOUS
  <1>2. \A x \in {a, b} : (\A y \in {a, b} : x <= y) => x = m
    OBVIOUS
  <1> QED BY <1>1, <1>2 DEF Kms!Min

LEMMA Shifted ==
    ASSUME NEW x \in Int, NEW t \in Int, NEW m \in Int
    PROVE  (\E k \in 0..(m - 1) : x = t + k) <=> x - t \in 0..(m - 1)
  <1>1. ASSUME NEW k \in 0..(m - 1), x = t + k PROVE x - t \in 0..(m - 1)
    BY <1>1
  <1>2. ASSUME x - t \in 0..(m - 1) PROVE \E k \in 0..(m - 1) : x = t + k
    <2>1. x = t + (x - t)
      OBVIOUS
    <2> QED BY <1>2, <2>1
  <1> QED BY <1>1, <1>2

(* The part of the cursor that is drawn, wherever it is, of     *)
(* a cursor that is no larger than the image.                              *)
LEMMA DrawnOverlap ==
    ASSUME NEW side \in Nat, NEW screen \in Nat, NEW left \in Int, side <= screen
    PROVE  LET o == Kms!Overlap(left, side, screen)
           IN  /\ {o.to + k : k \in 0..(o.n - 1)}
                     = {x \in 0..(screen - 1) : left <= x /\ x < left + side}
               /\ o.n > 0 => o.to - left = o.skip
  <1> DEFINE o == Kms!Overlap(left, side, screen)
             to == IF 0 < left THEN left ELSE 0
             skip == to - IF -side < left THEN left ELSE -side
             room == IF 0 < screen - to THEN screen - to ELSE 0
             n == (IF side < room THEN side ELSE room) - skip
  <1>1. Kms!Max({0, left}) = to
    BY LargerOfTwo
  <1>2. Kms!Max({-side, left}) = IF -side < left THEN left ELSE -side
    <2> -side \in Int OBVIOUS
    <2> QED BY LargerOfTwo
  <1>3. Kms!Max({0, screen - to}) = room
    <2> screen - to \in Int OBVIOUS
    <2> QED BY LargerOfTwo
  <1>4. Kms!Min({side, room}) = IF side < room THEN side ELSE room
    <2> room \in Int OBVIOUS
    <2> QED BY SmallerOfTwo
  <1>5. o = [to |-> to, skip |-> skip, n |-> n]
    BY <1>1, <1>2, <1>3, <1>4 DEF Kms!Overlap
  <1>6. o.to = to /\ o.skip = skip /\ o.n = n
    BY <1>5
  <1>7. to \in Int /\ n \in Int /\ skip \in Int
    OBVIOUS
  <1>8. n > 0 => to - left = skip
    OBVIOUS
  <1>10. \A x \in Int :
           (to <= x /\ x < to + n) <=> (0 <= x /\ x < screen /\ left <= x /\ x < left + side)
    OBVIOUS
  <1> HIDE DEF n, to, skip, room, o
  <1>9. ASSUME NEW x \in Int
        PROVE  (\E k \in 0..(n - 1) : x = to + k)
                 <=> (x \in 0..(screen - 1) /\ left <= x /\ x < left + side)
    <2>1. (\E k \in 0..(n - 1) : x = to + k) <=> x - to \in 0..(n - 1)
      BY <1>7, Shifted
    <2>2. x - to \in 0..(n - 1) <=> (to <= x /\ x < to + n)
      BY <1>7
    <2>3. (to <= x /\ x < to + n) <=> (0 <= x /\ x < screen /\ left <= x /\ x < left + side)
      BY <1>10
    <2> QED BY <2>1, <2>2, <2>3
  <1> QED
    <2>1. {o.to + k : k \in 0..(o.n - 1)} = {to + k : k \in 0..(n - 1)}
      BY <1>6
    <2>2. {to + k : k \in 0..(n - 1)} \subseteq Int
      BY <1>7
    <2>3. {to + k : k \in 0..(n - 1)} = {x \in 0..(screen - 1) : left <= x /\ x < left + side}
      BY <1>9, <2>2
    <2>4. o.n > 0 => o.to - left = o.skip
      BY <1>6, <1>8
    <2> QED BY <2>1, <2>3, <2>4 DEF o

LEMMA KmsDraws == Kms!DrawsTheOverlap
  <1> SUFFICES ASSUME NEW side \in 1..3, NEW screen \in 3..5, NEW left \in -5..7
               PROVE  LET o == Kms!Overlap(left, side, screen)
                      IN  {o.to + k : k \in 0..(o.n - 1)}
                            = {x \in 0..(screen - 1) : left <= x /\ x < left + side}
                          /\ (o.n > 0 => o.to - left = o.skip)
    BY DEF Kms!DrawsTheOverlap
  <1>1. side \in Nat /\ screen \in Nat /\ left \in Int /\ side <= screen
    OBVIOUS
  <1> QED BY <1>1, DrawnOverlap

-----------------------------------------------------------------------------
(* DxgiCapture.  What was kept of the frame acquired last shows it, in an  *)
(* image without the pointer or in the surface, and the plan made for the  *)
(* frame fits what is kept.                                                *)
ImageFields == {"tex", "addr", "dummy", "blank", "desk", "cursor"}
DxgiTypes ==
    /\ dxgiBackend \in {"none", "vram", "ram", "wgc"}
    /\ dxgiPc \in {"closed", "loop", "last", "out", "copy", "texture", "push"}
    /\ dxgiPc \in {"last", "out"} => dxgiBackend = "vram"
    /\ dxgiPc = "copy" => dxgiBackend = "ram"
    /\ dxgiPc = "texture" => dxgiBackend = "wgc"
    /\ dxgiPc = "closed" => dxgiBackend = "none"
    /\ dxgiPointer \in BOOLEAN /\ dxgiCursor \in BOOLEAN /\ known \in BOOLEAN /\ fresh \in BOOLEAN
    /\ DOMAIN img = DxgiImages
    /\ \A i \in DxgiImages : DOMAIN img[i] = ImageFields
LastShows ==
    /\ dxgiLast.kind \in {"none", "image", "surface"}
    /\ dxgiLast.kind = "none" => seen = 0
    /\ dxgiLast.kind = "image" =>
        dxgiLast.img \in DxgiImages /\ img[dxgiLast.img].desk = seen /\ img[dxgiLast.img].cursor = FALSE
    /\ dxgiLast.kind = "surface" => surface = seen
OutFits ==
    /\ plan.out = "forward" => dxgiLast.kind = "image" /\ dxgiCursor = FALSE
    /\ plan.out = "blend" => dxgiLast.kind = "surface" /\ dxgiCursor = TRUE
    /\ plan.out = "dummy" => seen = 0
LastFits ==
    /\ plan.last = "nothing" => LastShows /\ OutFits
    /\ plan.last = "source to surface" => plan.out = "blend" /\ dxgiCursor = TRUE
    /\ plan.last = "source to image" => plan.out = "forward" /\ dxgiCursor = FALSE
    /\ plan.last = "image to surface" =>
        LastShows /\ dxgiLast.kind = "image" /\ plan.out = "blend" /\ dxgiCursor = TRUE
    /\ plan.last = "surface to image" =>
        LastShows /\ dxgiLast.kind = "surface" /\ plan.out = "forward" /\ dxgiCursor = FALSE
KeptFrame ==
    /\ ~known => seen = 0
    /\ dxgiBackend = "wgc" => dxgiCursor = FALSE /\ known = TRUE
    /\ dxgiBackend = "vram" /\ dxgiPc \in {"loop", "out", "push"} => LastShows
    /\ dxgiPc = "out" => OutFits
    /\ dxgiPc = "last" => LastFits
    /\ dxgiPc = "texture" => seen = consumed
    /\ dxgiPc = "push" => out \in DxgiImages /\ img[out].desk = seen /\ img[out].cursor = dxgiCursor

(* The capture frames of the thread that produces them: the ones that are  *)
(* held anywhere are different and open.                                   *)
FramesHeld ==
    /\ dxgiDesk \in Nat \ {0} /\ cb \in Nat /\ produced \in Nat /\ consumed \in Nat
    /\ cb <= dxgiDesk /\ produced <= dxgiDesk /\ consumed <= dxgiDesk
    /\ fresh => cb # dxgiDesk /\ produced # dxgiDesk /\ consumed # dxgiDesk
    /\ cb # 0 => cb \in opened /\ cb # produced /\ cb # consumed
    /\ produced # 0 => produced \in opened /\ produced # consumed
    /\ consumed # 0 => consumed \in opened
    /\ dxgiBackend # "wgc" => produced = 0 /\ consumed = 0
    /\ dxgiPc = "texture" => consumed # 0
DxgiInv == DxgiTypes /\ KeptFrame /\ FramesHeld

LEMMA DxgiStart == ASSUME Dxgi!Init PROVE DxgiInv
  <1>1. DxgiTypes
    BY DEF Dxgi!Init, DxgiTypes, Dxgi!Blank, ImageFields
  <1>2. KeptFrame
    BY DEF Dxgi!Init, KeptFrame
  <1>3. FramesHeld
    BY DEF Dxgi!Init, FramesHeld
  <1> QED BY <1>1, <1>2, <1>3 DEF DxgiInv

(* Filling an image gives it the content and leaves the others alone.      *)
LEMMA Filled ==
    ASSUME DxgiTypes, NEW i \in DxgiImages, NEW dummy, NEW d, NEW c, Dxgi!Fill(i, dummy, d, c)
    PROVE  /\ DOMAIN img' = DxgiImages
           /\ \A j \in DxgiImages : DOMAIN img'[j] = ImageFields
           /\ \A j \in DxgiImages : j # i => img'[j] = img[j]
           /\ img'[i].desk = d /\ img'[i].cursor = c
  <1>1. PICK t \in Dxgi!Completed(i, dummy) : img' = [img EXCEPT ![i] = [t EXCEPT !.desk = d, !.cursor = c]]
    BY DEF Dxgi!Fill
  <1>2. DOMAIN t = ImageFields
    BY DEF Dxgi!Completed, DxgiTypes, ImageFields
  <1>3. PICK n : n = [t EXCEPT !.desk = d, !.cursor = c]
    OBVIOUS
  <1>4. DOMAIN n = ImageFields /\ n.desk = d /\ n.cursor = c
    BY <1>2, <1>3 DEF ImageFields
  <1>5. img' = [img EXCEPT ![i] = n]
    BY <1>1, <1>3
  <1> QED BY <1>4, <1>5 DEF DxgiTypes

(* What the frames of the producing thread do to each other.               *)
LEMMA FramesStep ==
    ASSUME DxgiInv, [focus = "dxgi" /\ Dxgi!Next]_dxgiVars PROVE FramesHeld'
  <1> USE DEF Dxgi!wgcVars, Dxgi!sceneVars, Dxgi!encVars
  <1>1. CASE UNCHANGED dxgiVars
    BY <1>1 DEF DxgiInv, FramesHeld, dxgiVars
  <1>2. CASE Dxgi!Desktop
    BY <1>2 DEF Dxgi!Desktop, DxgiInv, FramesHeld
  <1>3. CASE Dxgi!Close /\ dxgiPc' = "closed" /\ UNCHANGED <<dxgiDesk, fresh>>
    BY <1>3 DEF Dxgi!Close, DxgiInv, FramesHeld
  <1>4. CASE Dxgi!Reinit
    BY <1>4, <1>3 DEF Dxgi!Reinit, Dxgi!Close
  <1>5. CASE Dxgi!Acquire
    <2>1. CASE fresh /\ dxgiResized
      BY <1>5, <2>1, <1>3 DEF Dxgi!Acquire, Dxgi!Close
    <2>2. CASE ~(fresh /\ dxgiResized)
      <3>1. dxgiPc' # "texture" /\ fresh' = FALSE /\ UNCHANGED <<dxgiDesk, dxgiBackend, cb, produced, consumed, opened>>
        BY <1>5, <2>2 DEF Dxgi!Acquire
      <3> QED BY <3>1 DEF DxgiInv, FramesHeld
    <2> QED BY <2>1, <2>2
  <1>6. CASE \/ Dxgi!LastNothing \/ Dxgi!LastToSurface \/ Dxgi!Forward \/ Dxgi!Push
             \/ Dxgi!TakeImage \/ Dxgi!Convert
    <2>1. /\ UNCHANGED <<dxgiDesk, dxgiBackend, fresh, cb, produced, consumed, opened>>
          /\ dxgiPc' = "texture" => dxgiPc = "texture"
      BY <1>6 DEF Dxgi!LastNothing, Dxgi!LastToSurface, Dxgi!Forward, Dxgi!Push, Dxgi!TakeImage, Dxgi!Convert
    <2> QED BY <2>1 DEF DxgiInv, FramesHeld
  <1>7. CASE Dxgi!FrameArrived
    BY <1>7 DEF Dxgi!FrameArrived, DxgiInv, FramesHeld
  <1>8. CASE Dxgi!Produce
    BY <1>8 DEF Dxgi!Produce, DxgiInv, FramesHeld
  <1>9. CASE Dxgi!ProduceLate
    BY <1>9 DEF Dxgi!ProduceLate, DxgiInv, FramesHeld
  <1>10. CASE Dxgi!Consume
    BY <1>10 DEF Dxgi!Consume, DxgiInv, FramesHeld
  <1>11. ASSUME NEW b \in Dxgi!Backends, Dxgi!Open(b) PROVE FramesHeld'
    <2>1. /\ UNCHANGED <<dxgiDesk, cb, produced, consumed, opened>> /\ dxgiPc' = "loop" /\ cb = 0
          /\ dxgiPc = "closed"
      BY <1>11 DEF Dxgi!Open
    <2>2. produced = 0 /\ consumed = 0
      BY <2>1 DEF DxgiInv, DxgiTypes, FramesHeld
    <2> QED BY <2>1, <2>2 DEF DxgiInv, FramesHeld
  <1>12. ASSUME NEW i \in DxgiImages,
                Dxgi!CopySource(i) \/ Dxgi!ReplaceSurface(i) \/ Dxgi!Blend(i) \/ Dxgi!Dummy(i) \/ Dxgi!CopyToMemory(i)
         PROVE  FramesHeld'
    <2>1. /\ UNCHANGED <<dxgiDesk, dxgiBackend, fresh, cb, produced, consumed, opened>>
          /\ dxgiPc' # "texture"
      BY <1>12 DEF Dxgi!CopySource, Dxgi!ReplaceSurface, Dxgi!Blend, Dxgi!Dummy, Dxgi!CopyToMemory
    <2> QED BY <2>1 DEF DxgiInv, FramesHeld
  <1>13. ASSUME NEW i \in DxgiImages, Dxgi!CopyConsumed(i) PROVE FramesHeld'
    <2>1. CASE dxgiResized
      BY <1>13, <2>1, <1>3 DEF Dxgi!CopyConsumed, Dxgi!Close
    <2>2. CASE ~dxgiResized
      <3>1. dxgiPc' # "texture" /\ UNCHANGED <<dxgiDesk, dxgiBackend, fresh, cb, produced, consumed, opened>>
        BY <1>13, <2>2 DEF Dxgi!CopyConsumed
      <3> QED BY <3>1 DEF DxgiInv, FramesHeld
    <2> QED BY <2>1, <2>2
  <1> QED BY <1>1, <1>2, <1>4, <1>5, <1>6, <1>7, <1>8, <1>9, <1>10, <1>11, <1>12, <1>13 DEF Dxgi!Next

(* The plan of the next frame, from what is kept of the last.              *)
LEMMA PlanFits ==
    ASSUME DxgiInv, Dxgi!Acquire, ~(fresh /\ dxgiResized) PROVE DxgiTypes' /\ KeptFrame'
  <1>1. /\ dxgiPc = "loop" /\ dxgiPc' = IF dxgiBackend = "ram" THEN "copy" ELSE "last"
        /\ dxgiBackend \in {"vram", "ram"}
        /\ known' = (known \/ fresh) /\ seen' = (IF fresh THEN dxgiDesk ELSE seen)
        /\ dxgiCursor' = (IF moved THEN dxgiPointer ELSE dxgiCursor)
        /\ plan' = [last |-> Dxgi!LastAction, out |-> Dxgi!OutAction]
        /\ fresh' = FALSE
        /\ UNCHANGED <<dxgiBackend, out, img, dxgiLast, surface, dxgiPointer, consumed>>
    BY DEF Dxgi!Acquire, Dxgi!wgcVars, Dxgi!sceneVars
  <1>2. dxgiCursor' \in BOOLEAN /\ known' \in BOOLEAN
    BY <1>1 DEF DxgiInv, DxgiTypes
  <1>3. DxgiTypes'
    BY <1>1, <1>2 DEF DxgiInv, DxgiTypes
  <1>4. ~known' => seen' = 0
    BY <1>1 DEF DxgiInv, DxgiTypes, KeptFrame
  <1>5. ASSUME dxgiBackend = "vram" PROVE LastFits'
    <2>1. LastShows
      BY <1>1, <1>5 DEF DxgiInv, KeptFrame
    <2>2. plan'.last = Dxgi!LastAction /\ plan'.out = Dxgi!OutAction
      BY <1>1
    <2>3. CASE fresh
      <3>1. known' = TRUE
        BY <1>1, <2>3
      <3>2. CASE dxgiCursor' = TRUE
        BY <1>1, <2>2, <2>3, <3>1, <3>2 DEF LastFits, Dxgi!LastAction, Dxgi!OutAction
      <3>3. CASE dxgiCursor' = FALSE
        BY <1>1, <2>2, <2>3, <3>1, <3>3 DEF LastFits, Dxgi!LastAction, Dxgi!OutAction
      <3> QED BY <1>2, <3>2, <3>3
    <2>4. CASE ~fresh
      <3>1. seen' = seen /\ LastShows'
        BY <1>1, <2>1, <2>4 DEF LastShows
      <3>2. CASE ~known'
        BY <1>4, <2>2, <3>1, <3>2 DEF LastFits, OutFits, Dxgi!LastAction, Dxgi!OutAction
      <3>3. CASE known' /\ dxgiCursor' = TRUE
        BY <1>1, <2>2, <2>4, <3>1, <3>3 DEF LastFits, OutFits, LastShows, Dxgi!LastAction, Dxgi!OutAction
      <3>4. CASE known' /\ dxgiCursor' = FALSE
        BY <1>1, <2>2, <2>4, <3>1, <3>4 DEF LastFits, OutFits, LastShows, Dxgi!LastAction, Dxgi!OutAction
      <3> QED BY <1>2, <3>2, <3>3, <3>4
    <2> QED BY <2>3, <2>4
  <1> QED BY <1>1, <1>3, <1>4, <1>5 DEF KeptFrame

(* A capture that closed keeps nothing.                                    *)
LEMMA DxgiCloses ==
    ASSUME DxgiInv, Dxgi!Close, fresh' \in BOOLEAN,
           UNCHANGED <<known, seen, dxgiPointer, dxgiCursor>>
    PROVE  DxgiTypes' /\ KeptFrame'
  <1>1. DOMAIN img' = DxgiImages /\ \A i \in DxgiImages : DOMAIN img'[i] = ImageFields
    BY DEF Dxgi!Close, Dxgi!Blank, ImageFields
  <1>2. dxgiPc' = "closed" /\ dxgiBackend' = "none"
    BY DEF Dxgi!Close
  <1> QED BY <1>1, <1>2 DEF DxgiInv, DxgiTypes, KeptFrame

LEMMA KeptStep ==
    ASSUME DxgiInv, [focus = "dxgi" /\ Dxgi!Next]_dxgiVars PROVE DxgiTypes' /\ KeptFrame'
  <1> USE DEF Dxgi!wgcVars, Dxgi!sceneVars, Dxgi!encVars
  <1>t. DxgiTypes /\ KeptFrame /\ FramesHeld
    BY DEF DxgiInv
  <1>1. CASE UNCHANGED dxgiVars
    <2>1. UNCHANGED <<dxgiBackend, dxgiPc, dxgiPointer, fresh, plan, known, seen, dxgiCursor, dxgiLast,
                      surface, out, img, consumed>>
      BY <1>1 DEF dxgiVars
    <2>2. DxgiTypes'
      BY <2>1, <1>t DEF DxgiTypes
    <2>3. KeptFrame'
      BY <2>1, <1>t DEF KeptFrame, LastShows, OutFits, LastFits
    <2> QED BY <2>2, <2>3
  <1>2. CASE Dxgi!Desktop
    <2>1. /\ UNCHANGED <<dxgiBackend, dxgiPc, plan, known, seen, dxgiCursor, dxgiLast, surface, out, img, consumed>>
          /\ dxgiPointer' \in BOOLEAN /\ fresh' \in BOOLEAN
      BY <1>2, <1>t DEF Dxgi!Desktop, DxgiTypes
    <2> QED BY <2>1, <1>t DEF DxgiTypes, KeptFrame, LastShows, OutFits, LastFits
  <1>3. CASE Dxgi!Reinit
    BY <1>3, <1>t, DxgiCloses DEF Dxgi!Reinit, DxgiTypes
  <1>4. CASE Dxgi!Acquire
    <2>1. CASE fresh /\ dxgiResized
      <3>1. Dxgi!Close /\ UNCHANGED <<fresh, known, seen, dxgiPointer, dxgiCursor>>
        BY <1>4, <2>1 DEF Dxgi!Acquire
      <3> QED BY <3>1, <1>t, DxgiCloses DEF DxgiTypes
    <2> QED BY <2>1, <1>4, PlanFits
  <1>5. CASE Dxgi!LastNothing
    <2>1. /\ dxgiPc = "last" /\ dxgiPc' = "out" /\ LastShows /\ OutFits
          /\ UNCHANGED <<dxgiBackend, plan, known, fresh, seen, dxgiCursor, dxgiPointer, dxgiLast, surface, out, img, consumed>>
      BY <1>5, <1>t DEF Dxgi!LastNothing, KeptFrame, LastFits
    <2> QED BY <2>1, <1>t DEF DxgiTypes, KeptFrame, LastShows, OutFits
  <1>6. CASE Dxgi!LastToSurface
    <2>1. /\ dxgiPc = "last" /\ dxgiPc' = "out" /\ plan.last \in {"source to surface", "image to surface"}
          /\ surface' = (IF plan.last = "source to surface" THEN seen ELSE img[dxgiLast.img].desk)
          /\ dxgiLast' = [kind |-> "surface", img |-> "none"]
          /\ UNCHANGED <<dxgiBackend, plan, known, fresh, seen, dxgiCursor, dxgiPointer, out, img, consumed>>
      BY <1>6 DEF Dxgi!LastToSurface
    <2>2. surface' = seen /\ plan.out = "blend" /\ dxgiCursor = TRUE
      BY <2>1, <1>t DEF KeptFrame, LastFits, LastShows
    <2>3. LastShows' /\ OutFits'
      BY <2>1, <2>2 DEF LastShows, OutFits
    <2> QED BY <2>1, <2>3, <1>t DEF DxgiTypes, KeptFrame
  <1>7. ASSUME NEW i \in DxgiImages, Dxgi!CopySource(i) \/ Dxgi!ReplaceSurface(i)
        PROVE  DxgiTypes' /\ KeptFrame'
    <2>1. /\ dxgiPc = "last" /\ dxgiPc' = "out"
          /\ dxgiLast' = [kind |-> "image", img |-> i]
          /\ UNCHANGED <<dxgiBackend, plan, known, fresh, seen, dxgiCursor, dxgiPointer, surface, out, consumed>>
          /\ Dxgi!Fill(i, FALSE, seen, FALSE) \/ Dxgi!Fill(i, FALSE, surface, FALSE)
      BY <1>7 DEF Dxgi!CopySource, Dxgi!ReplaceSurface
    <2>2. /\ Dxgi!Fill(i, FALSE, seen, FALSE)
          /\ plan.out = "forward" /\ dxgiCursor = FALSE
      BY <1>7, <1>t DEF KeptFrame, LastFits, LastShows, Dxgi!CopySource, Dxgi!ReplaceSurface
    <2>3. /\ DOMAIN img' = DxgiImages /\ \A j \in DxgiImages : DOMAIN img'[j] = ImageFields
          /\ img'[i].desk = seen /\ img'[i].cursor = FALSE
      <3> PICK no : no = FALSE
        OBVIOUS
      <3>1. Dxgi!Fill(i, no, seen, no)
        BY <2>2
      <3>2. /\ DOMAIN img' = DxgiImages /\ \A j \in DxgiImages : DOMAIN img'[j] = ImageFields
            /\ img'[i].desk = seen /\ img'[i].cursor = no
        BY <3>1, <1>t, Filled
      <3> QED BY <3>2
    <2>4. LastShows' /\ OutFits'
      BY <2>1, <2>2, <2>3 DEF LastShows, OutFits
    <2> QED BY <2>1, <2>3, <2>4, <1>t DEF DxgiTypes, KeptFrame
  <1>8. CASE Dxgi!Forward
    <2>1. /\ dxgiPc = "out" /\ dxgiPc' = "push" /\ plan.out = "forward" /\ out' = dxgiLast.img
          /\ UNCHANGED <<dxgiBackend, plan, known, fresh, seen, dxgiCursor, dxgiPointer, dxgiLast, surface, img, consumed>>
      BY <1>8 DEF Dxgi!Forward
    <2>2. LastShows /\ OutFits /\ LastShows'
      BY <2>1, <1>t DEF KeptFrame, DxgiTypes, LastShows
    <2> QED BY <2>1, <2>2, <1>t DEF DxgiTypes, KeptFrame, LastShows, OutFits
  <1>9. ASSUME NEW i \in DxgiImages, Dxgi!Blend(i) \/ Dxgi!Dummy(i) PROVE DxgiTypes' /\ KeptFrame'
    <2>1. /\ dxgiPc = "out" /\ dxgiPc' = "push" /\ Dxgi!Free(i) /\ out' = i
          /\ UNCHANGED <<dxgiBackend, plan, known, fresh, seen, dxgiCursor, dxgiPointer, dxgiLast, surface, consumed>>
      BY <1>9 DEF Dxgi!Blend, Dxgi!Dummy
    <2>2. LastShows /\ OutFits
      BY <2>1, <1>t DEF KeptFrame, DxgiTypes
    <2>3. /\ DOMAIN img' = DxgiImages /\ \A j \in DxgiImages : DOMAIN img'[j] = ImageFields
          /\ \A j \in DxgiImages : j # i => img'[j] = img[j]
          /\ img'[i].desk = seen /\ img'[i].cursor = dxgiCursor
      <3>1. CASE Dxgi!Blend(i)
        <4>1. Dxgi!Fill(i, FALSE, surface, TRUE) /\ plan.out = "blend"
          BY <3>1 DEF Dxgi!Blend
        <4>2. surface = seen /\ dxgiCursor = TRUE
          BY <4>1, <2>2 DEF LastShows, OutFits
        <4> PICK no, yes : no = FALSE /\ yes = TRUE
          OBVIOUS
        <4>3. Dxgi!Fill(i, no, seen, yes)
          BY <4>1, <4>2
        <4>4. /\ DOMAIN img' = DxgiImages /\ \A j \in DxgiImages : DOMAIN img'[j] = ImageFields
              /\ \A j \in DxgiImages : j # i => img'[j] = img[j]
              /\ img'[i].desk = seen /\ img'[i].cursor = yes
          BY <4>3, <1>t, Filled
        <4> QED BY <4>2, <4>4
      <3>2. CASE Dxgi!Dummy(i)
        <4>1. Dxgi!Fill(i, TRUE, 0, dxgiCursor) /\ plan.out = "dummy"
          BY <3>2 DEF Dxgi!Dummy
        <4>2. seen = 0
          BY <4>1, <2>2 DEF OutFits
        <4> PICK yes : yes = TRUE
          OBVIOUS
        <4>3. Dxgi!Fill(i, yes, seen, dxgiCursor)
          BY <4>1, <4>2
        <4> QED BY <4>3, <1>t, Filled
      <3> QED BY <1>9, <3>1, <3>2
    <2>4. LastShows'
      BY <2>1, <2>2, <2>3 DEF LastShows, Dxgi!Free
    <2> QED BY <2>1, <2>3, <2>4, <1>t DEF DxgiTypes, KeptFrame
  <1>10. ASSUME NEW i \in DxgiImages, Dxgi!CopyToMemory(i) PROVE DxgiTypes' /\ KeptFrame'
    <2>1. /\ dxgiPc = "copy" /\ dxgiPc' = "push" /\ out' = i
          /\ surface' = (IF known THEN seen ELSE 0)
          /\ Dxgi!Fill(i, FALSE, surface', dxgiCursor)
          /\ UNCHANGED <<dxgiBackend, plan, known, fresh, seen, dxgiCursor, dxgiPointer, dxgiLast, consumed>>
      BY <1>10 DEF Dxgi!CopyToMemory
    <2>2. surface' = seen /\ dxgiBackend = "ram"
      BY <2>1, <1>t DEF KeptFrame, DxgiTypes
    <2>3. PICK s : s = surface'
      OBVIOUS
    <2>4. /\ DOMAIN img' = DxgiImages /\ \A j \in DxgiImages : DOMAIN img'[j] = ImageFields
          /\ img'[i].desk = s /\ img'[i].cursor = dxgiCursor
      <3>1. Dxgi!Fill(i, FALSE, seen, dxgiCursor)
        BY <2>1, <2>2
      <3> QED BY <3>1, <2>2, <2>3, <1>t, Filled
    <2> QED BY <2>1, <2>2, <2>3, <2>4, <1>t DEF DxgiTypes, KeptFrame
  <1>11. CASE Dxgi!Push
    <2>1. /\ dxgiPc = "push" /\ dxgiPc' = "loop"
          /\ UNCHANGED <<dxgiBackend, plan, known, fresh, seen, dxgiCursor, dxgiPointer, dxgiLast, surface, img, consumed>>
      BY <1>11 DEF Dxgi!Push
    <2> QED BY <2>1, <1>t DEF DxgiTypes, KeptFrame, LastShows
  <1>12. CASE Dxgi!FrameArrived \/ Dxgi!Produce \/ Dxgi!ProduceLate \/ Dxgi!TakeImage \/ Dxgi!Convert
    <2>1. /\ UNCHANGED <<dxgiBackend, dxgiPc, plan, known, seen, dxgiCursor, dxgiPointer, dxgiLast, surface, out, img, consumed>>
          /\ fresh' \in BOOLEAN
      BY <1>12, <1>t DEF Dxgi!FrameArrived, Dxgi!Produce, Dxgi!ProduceLate, Dxgi!TakeImage, Dxgi!Convert, DxgiTypes
    <2> QED BY <2>1, <1>t DEF DxgiTypes, KeptFrame, LastShows, OutFits, LastFits
  <1>13. CASE Dxgi!Consume
    <2>1. /\ dxgiPc = "loop" /\ dxgiBackend = "wgc" /\ consumed' = produced
          /\ \/ dxgiPc' = "loop" /\ seen' = seen
             \/ dxgiPc' = "texture" /\ seen' = produced
          /\ UNCHANGED <<dxgiBackend, plan, known, fresh, dxgiCursor, dxgiPointer, dxgiLast, surface, out, img>>
      BY <1>13 DEF Dxgi!Consume
    <2>2. ~known' => seen' = 0
      <3>1. known = TRUE
        BY <2>1, <1>t DEF KeptFrame
      <3> QED BY <2>1, <3>1
    <2> QED BY <2>1, <2>2, <1>t DEF DxgiTypes, KeptFrame
  <1>14. ASSUME NEW b \in Dxgi!Backends, Dxgi!Open(b) PROVE DxgiTypes' /\ KeptFrame'
    <2>1. /\ dxgiPc = "closed" /\ dxgiPc' = "loop" /\ dxgiBackend' = b
          /\ known' \in BOOLEAN /\ fresh' \in BOOLEAN /\ seen' = 0 /\ dxgiCursor' = FALSE
          /\ b = "wgc" => known' = TRUE
          /\ dxgiLast' = [kind |-> "none", img |-> "none"]
          /\ UNCHANGED <<dxgiPointer, img>>
      BY <1>14 DEF Dxgi!Open, Dxgi!FirstFrame, Dxgi!FormatKnown
    <2> QED BY <2>1, <1>t DEF DxgiTypes, KeptFrame, LastShows, Dxgi!Backends
  <1>15. ASSUME NEW i \in DxgiImages, Dxgi!CopyConsumed(i) PROVE DxgiTypes' /\ KeptFrame'
    <2>1. CASE dxgiResized
      <3>1. Dxgi!Close /\ UNCHANGED <<fresh, known, seen, dxgiPointer, dxgiCursor>>
        BY <1>15, <2>1 DEF Dxgi!CopyConsumed
      <3> QED BY <3>1, <1>t, DxgiCloses DEF DxgiTypes
    <2>2. CASE ~dxgiResized
      <3>1. /\ dxgiPc = "texture" /\ dxgiPc' = "push" /\ out' = i /\ Dxgi!Fill(i, FALSE, consumed, FALSE)
            /\ UNCHANGED <<dxgiBackend, plan, known, fresh, seen, dxgiCursor, dxgiPointer, dxgiLast, surface, consumed>>
        BY <1>15, <2>2 DEF Dxgi!CopyConsumed
      <3>2. dxgiBackend = "wgc" /\ seen = consumed /\ dxgiCursor = FALSE
        BY <3>1, <1>t DEF DxgiTypes, KeptFrame
      <3>3. /\ DOMAIN img' = DxgiImages /\ \A j \in DxgiImages : DOMAIN img'[j] = ImageFields
            /\ img'[i].desk = consumed /\ img'[i].cursor = FALSE
        BY <3>1, <1>t, Filled
      <3> QED BY <3>1, <3>2, <3>3, <1>t DEF DxgiTypes, KeptFrame
    <2> QED BY <2>1, <2>2
  <1> QED BY <1>1, <1>2, <1>3, <1>4, <1>5, <1>6, <1>7, <1>8, <1>9, <1>10, <1>11, <1>12, <1>13, <1>14, <1>15
          DEF Dxgi!Next

LEMMA DxgiStep ==
    ASSUME DxgiInv, [focus = "dxgi" /\ Dxgi!Next]_dxgiVars PROVE DxgiInv'
  BY FramesStep, KeptStep DEF DxgiInv

LEMMA DxgiShows == ASSUME DxgiInv PROVE Dxgi!FrameIsCurrent /\ Dxgi!ConsumedFrameIsOpen
  BY DEF DxgiInv, DxgiTypes, KeptFrame, FramesHeld, Dxgi!FrameIsCurrent, Dxgi!ConsumedFrameIsOpen

(* Whoever fills or forgets an image, the encoder does not have it.        *)
LEMMA DxgiHolds ==
    ASSUME DxgiInv, [focus = "dxgi" /\ Dxgi!Next]_dxgiVars, NEW i \in DxgiImages,
           i \in {slot, dxgiEnc}, i \in {slot', dxgiEnc'}
    PROVE  img'[i] = img[i]
  <1> USE DEF Dxgi!wgcVars, Dxgi!sceneVars, Dxgi!encVars
  <1>t. DxgiTypes
    BY DEF DxgiInv
  <1>1. CASE img' = img
    BY <1>1
  <1>2. ASSUME NEW j \in DxgiImages, NEW d, NEW k, NEW c, Dxgi!Fill(j, k, d, c), j \notin {slot, dxgiEnc}
        PROVE  img'[i] = img[i]
    BY <1>2, <1>t, Filled
  <1>3. ASSUME dxgiEnc' = "none", slot' = "none" PROVE FALSE
    BY <1>3, ImageAssumption
  <1> QED
    <2>1. CASE \/ Dxgi!Desktop \/ Dxgi!LastNothing \/ Dxgi!LastToSurface \/ Dxgi!Forward \/ Dxgi!Push
               \/ Dxgi!FrameArrived \/ Dxgi!Produce \/ Dxgi!ProduceLate \/ Dxgi!Consume \/ Dxgi!TakeImage
               \/ Dxgi!Convert \/ UNCHANGED dxgiVars
      BY <2>1 DEF Dxgi!Desktop, Dxgi!LastNothing, Dxgi!LastToSurface, Dxgi!Forward, Dxgi!Push,
            Dxgi!FrameArrived, Dxgi!Produce, Dxgi!ProduceLate, Dxgi!Consume, Dxgi!TakeImage,
            Dxgi!Convert, dxgiVars
    <2>2. CASE Dxgi!Reinit \/ Dxgi!Acquire
      BY <2>2, <1>3 DEF Dxgi!Reinit, Dxgi!Acquire
    <2>3. ASSUME NEW b \in Dxgi!Backends, Dxgi!Open(b) PROVE img'[i] = img[i]
      BY <2>3 DEF Dxgi!Open
    <2>4. ASSUME NEW j \in DxgiImages,
                 \/ Dxgi!CopySource(j) \/ Dxgi!ReplaceSurface(j) \/ Dxgi!Blend(j) \/ Dxgi!Dummy(j)
          PROVE  img'[i] = img[i]
      BY <2>4, <1>t, Filled DEF Dxgi!CopySource, Dxgi!ReplaceSurface, Dxgi!Blend, Dxgi!Dummy, Dxgi!Free
    <2>5. ASSUME NEW j \in DxgiImages, Dxgi!CopyToMemory(j) PROVE img'[i] = img[i]
      <3>1. PICK s : s = surface'
        OBVIOUS
      <3>2. Dxgi!Fill(j, FALSE, s, dxgiCursor) /\ j # i
        BY <2>5, <3>1 DEF Dxgi!CopyToMemory, Dxgi!Free
      <3> QED BY <3>2, <1>t, Filled
    <2>6. ASSUME NEW j \in DxgiImages, Dxgi!CopyConsumed(j) PROVE img'[i] = img[i]
      BY <2>6, <1>t, <1>3, Filled DEF Dxgi!CopyConsumed, Dxgi!Free
    <2> QED BY <2>1, <2>2, <2>3, <2>4, <2>5, <2>6 DEF Dxgi!Next

-----------------------------------------------------------------------------
(* WaylandCapture, with a session's compositor from the start (Wlr) or     *)
(* with what is found (WlrStart).  The numbers of the descriptors that are *)
(* held anywhere are different, and they are the open ones.                *)
FrameFields == {"fd", "mem", "size"}
WlrTypes ==
    /\ current \in {0, 1} /\ exported \in Nat
    /\ DOMAIN wlrFrames = {0, 1}
    /\ \A k \in {0, 1} : /\ DOMAIN wlrFrames[k] = FrameFields
                         /\ wlrFrames[k].fd \in Nat /\ wlrFrames[k].fd <= exported
    /\ DOMAIN images = WlrImages
    /\ \A i \in WlrImages : /\ DOMAIN images[i] = {"fd", "mem", "out"}
                            /\ images[i].fd \in Nat /\ images[i].fd <= exported
WlrHeld(f) ==
    \/ f = wlrFrames[0].fd \/ f = wlrFrames[1].fd
    \/ \E i \in WlrImages : f = images[i].fd
WlrOwned ==
    /\ \A f : f \in open <=> f # 0 /\ WlrHeld(f)
    /\ wlrFrames[0].fd = wlrFrames[1].fd => wlrFrames[0].fd = 0
    /\ \A i \in WlrImages :
        /\ \A k \in {0, 1} : images[i].fd = wlrFrames[k].fd => images[i].fd = 0
        /\ \A j \in WlrImages : images[i].fd = images[j].fd => images[i].fd = 0 \/ i = j
DescriptorInv == WlrTypes /\ WlrOwned

LEMMA WlrOwnedStart == ASSUME Wlr!Init \/ WlrStart!Init PROVE DescriptorInv
  <1>1. /\ current = 0 /\ exported = 0 /\ open = {}
        /\ wlrFrames = [i \in {0, 1} |-> [fd |-> 0, mem |-> 0, size |-> 0]]
        /\ images = [i \in WlrImages |-> [fd |-> 0, mem |-> 0, out |-> FALSE]]
    BY DEF Wlr!Init, WlrStart!Init, Wlr!Empty, WlrStart!Empty
  <1>2. /\ \A k \in {0, 1} : DOMAIN wlrFrames[k] = FrameFields /\ wlrFrames[k].fd = 0
        /\ \A i \in WlrImages : DOMAIN images[i] = {"fd", "mem", "out"} /\ images[i].fd = 0
    BY <1>1 DEF FrameFields
  <1>3. WlrTypes
    BY <1>1, <1>2 DEF WlrTypes
  <1>4. WlrOwned
    BY <1>1, <1>2 DEF WlrOwned, WlrHeld
  <1> QED BY <1>3, <1>4 DEF DescriptorInv

(* A frame descriptor gets another size, is closed, or both are.           *)
LEMMA WlrCloses ==
    ASSUME DescriptorInv, DOMAIN wlrFrames' = {0, 1},
           \A k \in {0, 1} : DOMAIN wlrFrames'[k] = FrameFields /\ wlrFrames'[k].fd \in {wlrFrames[k].fd, 0},
           \A f : f \in open' <=> f \in open /\ ~\E k \in {0, 1} : f = wlrFrames[k].fd /\ wlrFrames'[k].fd = 0,
           current' \in {0, 1}, exported' = exported,
           DOMAIN images' = WlrImages,
           \A i \in WlrImages : DOMAIN images'[i] = {"fd", "mem", "out"} /\ images'[i].fd = images[i].fd
    PROVE  DescriptorInv'
  <1>1. WlrTypes'
    BY DEF DescriptorInv, WlrTypes
  <1>2. WlrOwned'
    BY DEF DescriptorInv, WlrTypes, WlrOwned, WlrHeld
  <1> QED BY <1>1, <1>2 DEF DescriptorInv

LEMMA FrameReset ==
    ASSUME WlrTypes, NEW k \in {0, 1}, NEW g, g = [wlrFrames EXCEPT ![k].fd = 0]
    PROVE  /\ DOMAIN g = {0, 1} /\ \A j \in {0, 1} : DOMAIN g[j] = FrameFields
           /\ g[k].fd = 0 /\ g[k].mem = wlrFrames[k].mem
           /\ \A j \in {0, 1} : j # k => g[j] = wlrFrames[j]
  <1>1. PICK n : n = [wlrFrames[k] EXCEPT !.fd = 0]
    OBVIOUS
  <1>2. DOMAIN n = FrameFields /\ n.fd = 0 /\ n.mem = wlrFrames[k].mem
    BY <1>1 DEF WlrTypes, FrameFields
  <1>3. g = [wlrFrames EXCEPT ![k] = n]
    BY <1>1
  <1> QED BY <1>2, <1>3 DEF WlrTypes

(* The inactive descriptor gets a number that was never used.              *)
LEMMA WlrExports ==
    ASSUME DescriptorInv, NEW o \in {0, 1}, exported' = exported + 1,
           DOMAIN wlrFrames' = {0, 1}, \A k \in {0, 1} : DOMAIN wlrFrames'[k] = FrameFields,
           wlrFrames'[o].fd = exported + 1, \A k \in {0, 1} : k # o => wlrFrames'[k].fd = wlrFrames[k].fd,
           open' = (open \ {wlrFrames[o].fd}) \cup {exported + 1},
           current' = current, images' = images
    PROVE  DescriptorInv'
  <1>1. WlrTypes'
    BY DEF DescriptorInv, WlrTypes
  <1>2. WlrOwned'
    <2>1. exported + 1 # 0 /\ \A f : WlrHeld(f) => f # exported + 1
      BY DEF DescriptorInv, WlrTypes, WlrHeld
    <2> QED BY <2>1 DEF DescriptorInv, WlrTypes, WlrOwned, WlrHeld
  <1> QED BY <1>1, <1>2 DEF DescriptorInv

(* An image closes what it had and takes a descriptor over.                *)
LEMMA WlrTakes ==
    ASSUME DescriptorInv, NEW i \in WlrImages,
           wlrFrames' = [wlrFrames EXCEPT ![current].fd = 0],
           images' = [images EXCEPT ![i] =
                        [fd |-> wlrFrames[current].fd, mem |-> wlrFrames[current].mem, out |-> TRUE]],
           open' = open \ {images[i].fd}, current' = current, exported' = exported
    PROVE  DescriptorInv'
  <1>1. PICK n : n = [fd |-> wlrFrames[current].fd, mem |-> wlrFrames[current].mem, out |-> TRUE]
    OBVIOUS
  <1>2. DOMAIN n = {"fd", "mem", "out"} /\ n.fd = wlrFrames[current].fd
    BY <1>1
  <1>3. images' = [images EXCEPT ![i] = n]
    BY <1>1
  <1>4. /\ images'[i] = n /\ DOMAIN images' = WlrImages
        /\ \A j \in WlrImages : j # i => images'[j] = images[j]
    BY <1>3 DEF DescriptorInv, WlrTypes
  <1>5. /\ DOMAIN wlrFrames' = {0, 1} /\ \A j \in {0, 1} : DOMAIN wlrFrames'[j] = FrameFields
        /\ wlrFrames'[current].fd = 0
        /\ \A j \in {0, 1} : j # current => wlrFrames'[j] = wlrFrames[j]
    BY FrameReset DEF DescriptorInv, WlrTypes
  <1>6. WlrTypes'
    BY <1>2, <1>4, <1>5 DEF DescriptorInv, WlrTypes
  <1>7. \A f : f # 0 => (WlrHeld(f)' <=> WlrHeld(f) /\ f # images[i].fd)
    BY <1>2, <1>4, <1>5 DEF DescriptorInv, WlrTypes, WlrOwned, WlrHeld
  <1>8. WlrOwned'
    <2>1. \A f : f \in open' <=> f # 0 /\ WlrHeld(f)'
      BY <1>7 DEF DescriptorInv, WlrOwned
    <2>2. wlrFrames'[0].fd = wlrFrames'[1].fd => wlrFrames'[0].fd = 0
      BY <1>5 DEF DescriptorInv, WlrTypes
    <2>3. \A q \in WlrImages, k \in {0, 1} : images'[q].fd = wlrFrames'[k].fd => images'[q].fd = 0
      BY <1>2, <1>4, <1>5 DEF DescriptorInv, WlrTypes, WlrOwned
    <2>4. \A q, j \in WlrImages : images'[q].fd = images'[j].fd => images'[q].fd = 0 \/ q = j
      BY <1>2, <1>4 DEF DescriptorInv, WlrTypes, WlrOwned
    <2> QED BY <2>1, <2>2, <2>3, <2>4 DEF WlrOwned, WlrHeld
  <1> QED BY <1>6, <1>8 DEF DescriptorInv

LEMMA OtherFrame ==
    ASSUME WlrTypes
    PROVE  /\ Wlr!Other \in {0, 1} /\ Wlr!Other # current /\ WlrStart!Other = Wlr!Other
           /\ \A k \in {0, 1} : k = current \/ k = Wlr!Other
  BY DEF WlrTypes, Wlr!Other, WlrStart!Other

LEMMA DescriptorStep ==
    ASSUME DescriptorInv,
           (focus = "wlr" /\ Wlr!Next) \/ (focus = "wlrStart" /\ WlrStart!Next) \/ UNCHANGED wlrVars
    PROVE  DescriptorInv'
  <1> USE DEF Wlr!hostVars, Wlr!bufferVars, WlrStart!hostVars, WlrStart!bufferVars
  <1>t. WlrTypes
    BY DEF DescriptorInv
  <1>o. PICK o \in {0, 1} : /\ o = Wlr!Other /\ o = WlrStart!Other /\ o # current
                            /\ \A k \in {0, 1} : k = current \/ k = o
    BY <1>t, OtherFrame
  <1>0. ASSUME UNCHANGED <<current, exported, wlrFrames, images, open>> PROVE DescriptorInv'
    BY <1>0 DEF DescriptorInv, WlrTypes, WlrOwned, WlrHeld
  <1>1. CASE UNCHANGED wlrVars
    BY <1>1, <1>0 DEF wlrVars
  <1>2. CASE \/ Wlr!CaptureSocket \/ Wlr!SocketRequired \/ Wlr!ConnectDesktop \/ Wlr!InitCapture
             \/ Wlr!Listen \/ Wlr!Timeout \/ Wlr!Reinit \/ Wlr!World
    BY <1>2, <1>0 DEF Wlr!CaptureSocket, Wlr!SocketRequired, Wlr!ConnectDesktop, Wlr!InitCapture,
          Wlr!Listen, Wlr!Timeout, Wlr!Reinit, Wlr!World
  <1>3. CASE \/ WlrStart!CaptureSocket \/ WlrStart!SocketRequired \/ WlrStart!ConnectDesktop
             \/ WlrStart!InitCapture \/ WlrStart!Listen \/ WlrStart!Timeout \/ WlrStart!Reinit \/ WlrStart!World
    BY <1>3, <1>0 DEF WlrStart!CaptureSocket, WlrStart!SocketRequired, WlrStart!ConnectDesktop,
          WlrStart!InitCapture, WlrStart!Listen, WlrStart!Timeout, WlrStart!Reinit, WlrStart!World
  <1>4. ASSUME NEW r, Wlr!Describe(r) \/ Wlr!ParamsCreated(r) \/ WlrStart!Describe(r) \/ WlrStart!ParamsCreated(r)
        PROVE  DescriptorInv'
    BY <1>4, <1>0 DEF Wlr!Describe, Wlr!ParamsCreated, WlrStart!Describe, WlrStart!ParamsCreated,
          Wlr!Event, WlrStart!Event
  <1>5. ASSUME NEW r, Wlr!NoBuffer(r) \/ WlrStart!NoBuffer(r) PROVE DescriptorInv'
    <2>1. /\ UNCHANGED <<current, exported, images, open>>
          /\ wlrFrames' = wlrFrames \/ wlrFrames' = [wlrFrames EXCEPT ![o].size = info]
      BY <1>5, <1>o DEF Wlr!NoBuffer, WlrStart!NoBuffer, Wlr!Event, WlrStart!Event
    <2>2. CASE wlrFrames' = wlrFrames
      BY <2>1, <2>2, <1>0
    <2>3. CASE wlrFrames' = [wlrFrames EXCEPT ![o].size = info]
      <3>1. PICK n : n = [wlrFrames[o] EXCEPT !.size = info]
        OBVIOUS
      <3>2. DOMAIN n = FrameFields /\ n.fd = wlrFrames[o].fd
        BY <3>1, <1>t DEF WlrTypes, FrameFields
      <3>3. wlrFrames' = [wlrFrames EXCEPT ![o] = n]
        BY <2>3, <3>1
      <3>4. /\ DOMAIN wlrFrames' = {0, 1}
            /\ \A k \in {0, 1} : DOMAIN wlrFrames'[k] = FrameFields /\ wlrFrames'[k].fd = wlrFrames[k].fd
        BY <3>2, <3>3, <1>t DEF WlrTypes
      <3>5. WlrTypes'
        BY <3>4, <2>1, <1>t DEF WlrTypes
      <3>6. WlrOwned'
        BY <3>4, <2>1 DEF DescriptorInv, WlrOwned, WlrHeld
      <3> QED BY <3>5, <3>6 DEF DescriptorInv
    <2> QED BY <2>1, <2>2, <2>3
  <1>6. ASSUME NEW r, Wlr!CreateBuffer(r) \/ WlrStart!CreateBuffer(r) PROVE DescriptorInv'
    <2>1. /\ UNCHANGED <<current, images>>
          /\ \/ /\ \E made : wlrFrames' = [wlrFrames EXCEPT ![o] = [fd |-> exported + 1, mem |-> made, size |-> info]]
                /\ open' = (open \ {wlrFrames[o].fd}) \cup {exported + 1}
                /\ exported' = exported + 1
             \/ /\ wlrFrames' = [[wlrFrames EXCEPT ![o].fd = 0] EXCEPT ![o].size = info]
                /\ open' = open \ {wlrFrames[o].fd} /\ exported' = exported
      BY <1>6, <1>o DEF Wlr!CreateBuffer, WlrStart!CreateBuffer, Wlr!Event, WlrStart!Event, Wlr!Closed,
            WlrStart!Closed, Wlr!Destroyed, WlrStart!Destroyed
    <2>2. ASSUME NEW made, wlrFrames' = [wlrFrames EXCEPT ![o] = [fd |-> exported + 1, mem |-> made, size |-> info]],
                 open' = (open \ {wlrFrames[o].fd}) \cup {exported + 1}, exported' = exported + 1
          PROVE  DescriptorInv'
      <3>1. PICK n : n = [fd |-> exported + 1, mem |-> made, size |-> info]
        OBVIOUS
      <3>2. DOMAIN n = FrameFields /\ n.fd = exported + 1
        BY <3>1 DEF FrameFields
      <3>3. wlrFrames' = [wlrFrames EXCEPT ![o] = n]
        BY <2>2, <3>1
      <3>4. /\ DOMAIN wlrFrames' = {0, 1} /\ \A k \in {0, 1} : DOMAIN wlrFrames'[k] = FrameFields
            /\ wlrFrames'[o].fd = exported + 1 /\ \A k \in {0, 1} : k # o => wlrFrames'[k].fd = wlrFrames[k].fd
        BY <3>2, <3>3, <1>t DEF WlrTypes
      <3> QED BY <2>1, <2>2, <3>4, WlrExports
    <2>3. CASE /\ wlrFrames' = [[wlrFrames EXCEPT ![o].fd = 0] EXCEPT ![o].size = info]
               /\ open' = open \ {wlrFrames[o].fd} /\ exported' = exported
      <3>1. PICK g : g = [wlrFrames EXCEPT ![o].fd = 0]
        OBVIOUS
      <3>2. /\ DOMAIN g = {0, 1} /\ \A j \in {0, 1} : DOMAIN g[j] = FrameFields
            /\ g[o].fd = 0 /\ \A j \in {0, 1} : j # o => g[j] = wlrFrames[j]
        BY <3>1, <1>t, FrameReset
      <3>3. PICK n : n = [g[o] EXCEPT !.size = info]
        OBVIOUS
      <3>4. DOMAIN n = FrameFields /\ n.fd = 0
        BY <3>2, <3>3 DEF FrameFields
      <3>5. wlrFrames' = [g EXCEPT ![o] = n]
        BY <2>3, <3>1, <3>3
      <3>6. /\ DOMAIN wlrFrames' = {0, 1} /\ \A k \in {0, 1} : DOMAIN wlrFrames'[k] = FrameFields
            /\ wlrFrames'[o].fd = 0 /\ wlrFrames'[current].fd = wlrFrames[current].fd
        BY <3>2, <3>4, <3>5, <1>o, <1>t DEF WlrTypes
      <3>7. \A f : f \in open' <=> f \in open /\ ~\E k \in {0, 1} : f = wlrFrames[k].fd /\ wlrFrames'[k].fd = 0
        BY <2>3, <3>6, <1>o, <1>t DEF WlrTypes, DescriptorInv, WlrOwned
      <3>8. \A k \in {0, 1} : wlrFrames'[k].fd \in {wlrFrames[k].fd, 0}
        BY <3>6, <1>o
      <3> QED BY <2>1, <2>3, <3>6, <3>7, <3>8, <1>t, WlrCloses DEF WlrTypes
    <2> QED BY <2>1, <2>2, <2>3
  <1>7. ASSUME NEW k \in {0, 1}, wlrFrames' = [wlrFrames EXCEPT ![k].fd = 0],
               open' = open \ {wlrFrames[k].fd}, current' \in {0, 1}, UNCHANGED <<exported, images>>
        PROVE  DescriptorInv'
    <2>1. /\ DOMAIN wlrFrames' = {0, 1} /\ \A j \in {0, 1} : DOMAIN wlrFrames'[j] = FrameFields
          /\ wlrFrames'[k].fd = 0 /\ \A j \in {0, 1} : j # k => wlrFrames'[j] = wlrFrames[j]
      BY <1>7, <1>t, FrameReset
    <2>2. \A f : f \in open' <=> f \in open /\ ~\E j \in {0, 1} : f = wlrFrames[j].fd /\ wlrFrames'[j].fd = 0
      BY <1>7, <2>1 DEF DescriptorInv, WlrOwned
    <2>3. \A j \in {0, 1} : wlrFrames'[j].fd \in {wlrFrames[j].fd, 0}
      BY <2>1
    <2> QED BY <1>7, <2>1, <2>2, <2>3, <1>t, WlrCloses DEF WlrTypes
  <1>8. ASSUME NEW r, Wlr!Failed(r) \/ WlrStart!Failed(r) PROVE DescriptorInv'
    <2>1. /\ wlrFrames' = [wlrFrames EXCEPT ![o].fd = 0] /\ open' = open \ {wlrFrames[o].fd}
          /\ UNCHANGED <<exported, images, current>>
      BY <1>8, <1>o DEF Wlr!Failed, WlrStart!Failed, Wlr!Event, WlrStart!Event, Wlr!Closed,
            WlrStart!Closed, Wlr!Destroyed, WlrStart!Destroyed
    <2> QED BY <2>1, <1>7, <1>t DEF WlrTypes
  <1>9. ASSUME NEW r, Wlr!Ready(r) \/ WlrStart!Ready(r) PROVE DescriptorInv'
    <2>1. /\ wlrFrames' = [wlrFrames EXCEPT ![current].fd = 0] /\ open' = open \ {wlrFrames[current].fd}
          /\ UNCHANGED <<exported, images>> /\ current' = o
      BY <1>9, <1>o DEF Wlr!Ready, WlrStart!Ready, Wlr!Event, WlrStart!Event, Wlr!Closed,
            WlrStart!Closed, Wlr!Destroyed, WlrStart!Destroyed
    <2> QED BY <2>1, <1>7, <1>t DEF WlrTypes
  <1>10. CASE Wlr!TakeVram \/ WlrStart!TakeVram
    <2>1. /\ UNCHANGED <<current, exported>>
          /\ \/ UNCHANGED <<images, open, wlrFrames>>
             \/ /\ wlrFrames' = [wlrFrames EXCEPT ![current].fd = 0]
                /\ \E i \in WlrImages :
                     /\ images' = [images EXCEPT ![i] =
                          [fd |-> wlrFrames[current].fd, mem |-> wlrFrames[current].mem, out |-> TRUE]]
                     /\ open' = open \ {images[i].fd}
      BY <1>10 DEF Wlr!TakeVram, WlrStart!TakeVram, Wlr!Free, WlrStart!Free, Wlr!Destroyed, WlrStart!Destroyed
    <2> QED BY <2>1, <1>0, WlrTakes
  <1>11. ASSUME DOMAIN images' = WlrImages,
                \A i \in WlrImages : DOMAIN images'[i] = {"fd", "mem", "out"} /\ images'[i].fd = images[i].fd,
                UNCHANGED <<current, exported, wlrFrames, open>>
         PROVE  DescriptorInv'
    <2>1. WlrTypes'
      BY <1>11, <1>t DEF WlrTypes
    <2>2. WlrOwned'
      BY <1>11 DEF DescriptorInv, WlrOwned, WlrHeld
    <2> QED BY <2>1, <2>2 DEF DescriptorInv
  <1>12. CASE Wlr!TakeRam \/ WlrStart!TakeRam
    <2>1. /\ UNCHANGED <<current, exported, wlrFrames, open>>
          /\ \/ images' = images
             \/ \E i \in WlrImages :
                  images' = [images EXCEPT ![i].out = TRUE, ![i].mem = wlrFrames[current].mem]
      BY <1>12 DEF Wlr!TakeRam, WlrStart!TakeRam, Wlr!Free, WlrStart!Free
    <2>2. ASSUME NEW i \in WlrImages, images' = [images EXCEPT ![i].out = TRUE, ![i].mem = wlrFrames[current].mem]
          PROVE  DescriptorInv'
      <3>1. PICK g : g = [images EXCEPT ![i].out = TRUE]
        OBVIOUS
      <3>2. PICK yes : yes = TRUE
        OBVIOUS
      <3>3. PICK m : m = [images[i] EXCEPT !.out = yes]
        OBVIOUS
      <3>4. DOMAIN m = {"fd", "mem", "out"} /\ m.fd = images[i].fd
        BY <3>3, <1>t DEF WlrTypes
      <3>5. g = [images EXCEPT ![i] = m]
        BY <3>1, <3>2, <3>3
      <3>6. DOMAIN g = WlrImages /\ g[i] = m /\ \A j \in WlrImages : j # i => g[j] = images[j]
        BY <3>5, <1>t DEF WlrTypes
      <3>7. images' = [g EXCEPT ![i].mem = wlrFrames[current].mem]
        BY <2>2, <3>1
      <3>8. PICK n : n = [m EXCEPT !.mem = wlrFrames[current].mem]
        OBVIOUS
      <3>9. DOMAIN n = {"fd", "mem", "out"} /\ n.fd = images[i].fd
        BY <3>4, <3>8
      <3>10. images' = [g EXCEPT ![i] = n]
        BY <3>6, <3>7, <3>8
      <3>11. /\ DOMAIN images' = WlrImages
             /\ \A j \in WlrImages : DOMAIN images'[j] = {"fd", "mem", "out"} /\ images'[j].fd = images[j].fd
        BY <3>6, <3>9, <3>10, <1>t DEF WlrTypes
      <3> QED BY <2>1, <3>11, <1>11
    <2> QED BY <2>1, <2>2, <1>0
  <1>13. CASE Wlr!Release \/ WlrStart!Release
    <2>1. /\ UNCHANGED <<current, exported, wlrFrames, open>>
          /\ \E i \in WlrImages : images' = [images EXCEPT ![i].out = FALSE]
      BY <1>13 DEF Wlr!Release, WlrStart!Release
    <2>2. PICK i \in WlrImages : images' = [images EXCEPT ![i].out = FALSE]
      BY <2>1
    <2>3. PICK no : no = FALSE
      OBVIOUS
    <2>4. PICK m : m = [images[i] EXCEPT !.out = no]
      OBVIOUS
    <2>5. DOMAIN m = {"fd", "mem", "out"} /\ m.fd = images[i].fd
      BY <2>4, <1>t DEF WlrTypes
    <2>6. images' = [images EXCEPT ![i] = m]
      BY <2>2, <2>3, <2>4
    <2>7. /\ DOMAIN images' = WlrImages
          /\ \A j \in WlrImages : DOMAIN images'[j] = {"fd", "mem", "out"} /\ images'[j].fd = images[j].fd
      BY <2>5, <2>6, <1>t DEF WlrTypes
    <2> QED BY <2>1, <2>7, <1>11
  <1>14. CASE Wlr!Destroy \/ WlrStart!Destroy
    <2>1. /\ UNCHANGED <<current, exported, images>>
          /\ wlrFrames' = [k \in {0, 1} |-> [wlrFrames[k] EXCEPT !.fd = 0]]
          /\ open' = open \ {wlrFrames[0].fd, wlrFrames[1].fd}
      BY <1>14 DEF Wlr!Destroy, WlrStart!Destroy
    <2>2. DOMAIN wlrFrames' = {0, 1} /\ \A k \in {0, 1} : DOMAIN wlrFrames'[k] = FrameFields /\ wlrFrames'[k].fd = 0
      BY <2>1, <1>t DEF WlrTypes, FrameFields
    <2>3. \A f : f \in open' <=> f \in open /\ ~\E k \in {0, 1} : f = wlrFrames[k].fd /\ wlrFrames'[k].fd = 0
      BY <2>1, <2>2
    <2> QED BY <2>1, <2>2, <2>3, <1>t, WlrCloses DEF WlrTypes
  <1> QED BY <1>1, <1>2, <1>3, <1>4, <1>5, <1>6, <1>8, <1>9, <1>10, <1>12, <1>13, <1>14
          DEF Wlr!Next, WlrStart!Next

LEMMA DescriptorsOwned == ASSUME DescriptorInv PROVE Wlr!DescriptorsAreOwned
  <1>1. \A f : f \in Wlr!Held <=> WlrHeld(f)
    BY DEF Wlr!Held, WlrHeld
  <1>2. open = Wlr!Held \ {0}
    BY <1>1 DEF DescriptorInv, WlrOwned
  <1> QED BY <1>2 DEF DescriptorInv, WlrTypes, WlrOwned, Wlr!DescriptorsAreOwned

(* While no two requests are under way, the one that is fills the inactive *)
(* descriptor, and what was answered stays in the active one until it is   *)
(* taken.                                                                  *)
Stages == {"none", "asked", "described", "params", "copying"}
RequestTypes ==
    \A r \in DOMAIN requests : DOMAIN requests[r] = {"stage", "mem"} /\ requests[r].stage \in Stages
Copies(r) == requests[r].stage \in {"params", "copying"}
OneRequest ==
    /\ \A r, q \in DOMAIN requests :
        requests[r].stage # "none" /\ requests[q].stage # "none" => r = q
    /\ \A r \in DOMAIN requests : requests[r].stage # "none" => status = "waiting"
    /\ \A r \in DOMAIN requests : Copies(r) =>
        requests[r].mem = wlrFrames[Wlr!Other].mem /\ wlrFrames[Wlr!Other].fd # 0
    /\ (\A r \in DOMAIN requests : ~Copies(r)) => bo = 0 /\ bos = {}
    /\ bos \subseteq {bo}
    /\ at = "wait" /\ status = "ready" =>
        wlrFrames[current].fd # 0 /\ wlrFrames[current].mem \in written
    /\ wlrShown.written /\ wlrShown.fd
WholeInv == DescriptorInv /\ RequestTypes /\ (~overlap => OneRequest)

LEMMA WholeStart == ASSUME Wlr!Init \/ WlrStart!Init PROVE WholeInv
  <1>1. /\ at \in {"globals", "socket"} /\ status = "ready" /\ bo = 0 /\ bos = {}
        /\ wlrShown = [mem |-> 0, written |-> TRUE, fd |-> TRUE]
        /\ \A r \in DOMAIN requests : requests[r] = [stage |-> "none", mem |-> 0]
    BY DEF Wlr!Init, WlrStart!Init
  <1>2. \A r \in DOMAIN requests : DOMAIN requests[r] = {"stage", "mem"} /\ requests[r].stage = "none"
    BY <1>1
  <1>3. wlrShown.written /\ wlrShown.fd
    BY <1>1
  <1>4. OneRequest
    BY <1>1, <1>2, <1>3 DEF OneRequest, Copies
  <1> QED BY <1>2, <1>4, WlrOwnedStart DEF WholeInv, RequestTypes, Stages

(* An event of a request changes that one.                                 *)
LEMMA RequestSet ==
    ASSUME RequestTypes, NEW r \in DOMAIN requests, NEW n, DOMAIN n = {"stage", "mem"}, n.stage \in Stages,
           requests' = [requests EXCEPT ![r] = n]
    PROVE  /\ RequestTypes' /\ DOMAIN requests' = DOMAIN requests /\ requests'[r] = n
           /\ \A q \in DOMAIN requests : q # r => requests'[q] = requests[q]
  BY DEF RequestTypes

(* What the events of a request do, in either way of starting.             *)
LEMMA RequestEvents ==
    ASSUME WholeInv, NEW r \in DOMAIN requests,
           \/ Wlr!Describe(r) \/ Wlr!NoBuffer(r) \/ Wlr!CreateBuffer(r) \/ Wlr!ParamsCreated(r)
           \/ Wlr!Failed(r) \/ Wlr!Ready(r)
           \/ WlrStart!Describe(r) \/ WlrStart!NoBuffer(r) \/ WlrStart!CreateBuffer(r)
           \/ WlrStart!ParamsCreated(r) \/ WlrStart!Failed(r) \/ WlrStart!Ready(r)
    PROVE  RequestTypes' /\ (~overlap' => OneRequest')
  <1> USE DEF Wlr!hostVars, Wlr!bufferVars, WlrStart!hostVars, WlrStart!bufferVars,
              Wlr!Event, WlrStart!Event
  <1>t. WlrTypes /\ RequestTypes
    BY DEF WholeInv, DescriptorInv
  <1>o. PICK o \in {0, 1} : /\ o = Wlr!Other /\ o = WlrStart!Other /\ o # current
                            /\ \A k \in {0, 1} : k = current \/ k = o
    BY <1>t, OtherFrame
  <1>e. /\ at = "wait" /\ at' = at /\ wlrShown' = wlrShown /\ overlap' = overlap
        /\ requests[r].stage # "none"
    BY DEF Wlr!Describe, Wlr!NoBuffer, Wlr!CreateBuffer, Wlr!ParamsCreated, Wlr!Failed, Wlr!Ready,
           WlrStart!Describe, WlrStart!NoBuffer, WlrStart!CreateBuffer, WlrStart!ParamsCreated,
           WlrStart!Failed, WlrStart!Ready
  <1>u. ASSUME ~overlap
        PROVE  /\ OneRequest /\ status = "waiting"
               /\ \A q \in DOMAIN requests : q # r => requests[q].stage = "none"
    BY <1>e, <1>u DEF WholeInv, OneRequest
  <1>n. PICK none : none = [stage |-> "none", mem |-> 0]
    OBVIOUS
  <1>m. DOMAIN none = {"stage", "mem"} /\ none.stage = "none"
    BY <1>n
  <1>1. CASE Wlr!Describe(r) \/ WlrStart!Describe(r)
    <2>1. /\ requests[r].stage = "asked" /\ requests' = [requests EXCEPT ![r].stage = "described"]
          /\ UNCHANGED <<status, wlrFrames, current, bo, bos, written>>
      BY <1>1 DEF Wlr!Describe, WlrStart!Describe
    <2>2. PICK n : n = [requests[r] EXCEPT !.stage = "described"]
      OBVIOUS
    <2>3. DOMAIN n = {"stage", "mem"} /\ n.stage = "described" /\ requests' = [requests EXCEPT ![r] = n]
      BY <2>1, <2>2, <1>t DEF RequestTypes
    <2>4. /\ RequestTypes' /\ DOMAIN requests' = DOMAIN requests /\ requests'[r] = n
          /\ \A q \in DOMAIN requests : q # r => requests'[q] = requests[q]
      BY <2>3, <1>t, RequestSet DEF Stages
    <2>5. ASSUME ~overlap PROVE OneRequest'
      <3>1. Wlr!Other' = Wlr!Other
        BY <2>1 DEF Wlr!Other
      <3>2. \A q \in DOMAIN requests : ~Copies(q) /\ ~Copies(q)'
        BY <2>1, <2>3, <2>4, <2>5, <1>u DEF Copies
      <3> QED BY <2>1, <2>3, <2>4, <2>5, <3>1, <3>2, <1>u, <1>e DEF OneRequest
    <2> QED BY <2>4, <2>5, <1>e
  <1>2. CASE Wlr!NoBuffer(r) \/ WlrStart!NoBuffer(r)
    <2>1. /\ requests[r].stage = "described" /\ requests' = [requests EXCEPT ![r] = none]
          /\ status' = "reinit" /\ bo' \in {bo, 0} /\ UNCHANGED <<current, bos, written>>
      BY <1>2, <1>n DEF Wlr!NoBuffer, WlrStart!NoBuffer, Wlr!Gone, WlrStart!Gone
    <2>4. /\ RequestTypes' /\ DOMAIN requests' = DOMAIN requests /\ requests'[r] = none
          /\ \A q \in DOMAIN requests : q # r => requests'[q] = requests[q]
      BY <2>1, <1>m, <1>t, RequestSet DEF Stages
    <2>5. ASSUME ~overlap PROVE OneRequest'
      <3>1. \A q \in DOMAIN requests : ~Copies(q) /\ requests'[q].stage = "none"
        BY <2>1, <2>4, <2>5, <1>u, <1>m DEF Copies
      <3>2. bo' = 0 /\ bos' = {}
        BY <3>1, <2>1, <2>5, <1>u DEF OneRequest
      <3> QED BY <2>1, <2>4, <2>5, <3>1, <3>2, <1>u, <1>e DEF OneRequest, Copies
    <2> QED BY <2>4, <2>5, <1>e
  <1>3. CASE Wlr!CreateBuffer(r) \/ WlrStart!CreateBuffer(r)
    <2>1. PICK made : 
          /\ requests[r].stage = "described" /\ UNCHANGED <<current, written>>
          /\ bo = 0 => made = exported + 1
          /\ \/ /\ bo' = made /\ bos' = bos \cup {made}
                /\ wlrFrames' = [wlrFrames EXCEPT ![o] = [fd |-> exported + 1, mem |-> made, size |-> info]]
                /\ requests' = [requests EXCEPT ![r] = [stage |-> "params", mem |-> made]]
                /\ status' = status
             \/ /\ bo' = 0 /\ bos' = bos \ {made} /\ status' = "reinit"
                /\ requests' = [requests EXCEPT ![r] = none]
      <3>1. CASE Wlr!CreateBuffer(r)
        BY <3>1, <1>o, <1>n DEF Wlr!CreateBuffer, Wlr!Gone
      <3>2. CASE WlrStart!CreateBuffer(r)
        BY <3>2, <1>o, <1>n DEF WlrStart!CreateBuffer, WlrStart!Gone
      <3> QED BY <1>3, <3>1, <3>2
    <2>2. CASE /\ bo' = made /\ bos' = bos \cup {made}
               /\ wlrFrames' = [wlrFrames EXCEPT ![o] = [fd |-> exported + 1, mem |-> made, size |-> info]]
               /\ requests' = [requests EXCEPT ![r] = [stage |-> "params", mem |-> made]]
               /\ status' = status
      <3>1. PICK n : n = [stage |-> "params", mem |-> made]
        OBVIOUS
      <3>2. DOMAIN n = {"stage", "mem"} /\ n.stage = "params" /\ n.mem = made
        BY <3>1
      <3>3. /\ RequestTypes' /\ DOMAIN requests' = DOMAIN requests /\ requests'[r] = n
            /\ \A q \in DOMAIN requests : q # r => requests'[q] = requests[q]
        BY <2>2, <3>1, <3>2, <1>t, RequestSet DEF Stages
      <3>4. wlrFrames'[o].mem = made /\ wlrFrames'[o].fd = exported + 1 /\ exported + 1 # 0
        BY <2>2, <1>t DEF WlrTypes
      <3>5. ASSUME ~overlap PROVE OneRequest'
        <4>1. Wlr!Other' = o
          BY <2>1, <1>o DEF Wlr!Other
        <4>2. \A q \in DOMAIN requests : ~Copies(q) /\ (q # r => requests'[q].stage = "none")
          BY <2>1, <3>3, <3>5, <1>u DEF Copies
        <4>3. bos' = {bo'}
          BY <4>2, <2>2, <3>5, <1>u DEF OneRequest
        <4> QED BY <2>1, <2>2, <3>2, <3>3, <3>4, <3>5, <4>1, <4>2, <4>3, <1>u, <1>e DEF OneRequest, Copies
      <3> QED BY <3>3, <3>5, <1>e
    <2>3. CASE /\ bo' = 0 /\ bos' = bos \ {made} /\ status' = "reinit"
               /\ requests' = [requests EXCEPT ![r] = none]
      <3>3. /\ RequestTypes' /\ DOMAIN requests' = DOMAIN requests /\ requests'[r] = none
            /\ \A q \in DOMAIN requests : q # r => requests'[q] = requests[q]
        BY <2>3, <1>m, <1>t, RequestSet DEF Stages
      <3>5. ASSUME ~overlap PROVE OneRequest'
        <4>1. \A q \in DOMAIN requests : ~Copies(q) /\ requests'[q].stage = "none"
          BY <2>1, <3>3, <3>5, <1>u, <1>m DEF Copies
        <4>2. bo' = 0 /\ bos' = {}
          BY <4>1, <2>3, <3>5, <1>u DEF OneRequest
        <4> QED BY <2>3, <3>3, <3>5, <4>1, <4>2, <1>u, <1>e DEF OneRequest, Copies
      <3> QED BY <3>3, <3>5, <1>e
    <2> QED BY <2>1, <2>2, <2>3
  <1>4. CASE Wlr!ParamsCreated(r) \/ WlrStart!ParamsCreated(r)
    <2>1. /\ requests[r].stage = "params" /\ requests' = [requests EXCEPT ![r].stage = "copying"]
          /\ UNCHANGED <<status, wlrFrames, current, bo, bos, written>>
      BY <1>4 DEF Wlr!ParamsCreated, WlrStart!ParamsCreated
    <2>2. PICK n : n = [requests[r] EXCEPT !.stage = "copying"]
      OBVIOUS
    <2>3. /\ DOMAIN n = {"stage", "mem"} /\ n.stage = "copying" /\ n.mem = requests[r].mem
          /\ requests' = [requests EXCEPT ![r] = n]
      BY <2>1, <2>2, <1>t DEF RequestTypes
    <2>4. /\ RequestTypes' /\ DOMAIN requests' = DOMAIN requests /\ requests'[r] = n
          /\ \A q \in DOMAIN requests : q # r => requests'[q] = requests[q]
      BY <2>3, <1>t, RequestSet DEF Stages
    <2>5. ASSUME ~overlap PROVE OneRequest'
      <3>1. Wlr!Other' = Wlr!Other
        BY <2>1 DEF Wlr!Other
      <3>2. /\ Copies(r) /\ Copies(r)'
            /\ \A q \in DOMAIN requests : q # r => requests'[q].stage = "none"
        BY <2>1, <2>3, <2>4, <2>5, <1>u DEF Copies
      <3> QED BY <2>1, <2>3, <2>4, <2>5, <3>1, <3>2, <1>u, <1>e DEF OneRequest, Copies
    <2> QED BY <2>4, <2>5, <1>e
  <1>5. CASE Wlr!Failed(r) \/ WlrStart!Failed(r)
    <2>1. /\ requests' = [requests EXCEPT ![r] = none]
          /\ status' = "reinit" /\ bo' = 0 /\ bos' = bos \ {bo} /\ UNCHANGED <<current, written>>
      BY <1>5, <1>n DEF Wlr!Failed, WlrStart!Failed, Wlr!Gone, WlrStart!Gone, Wlr!CleanupGbm, WlrStart!CleanupGbm
    <2>4. /\ RequestTypes' /\ DOMAIN requests' = DOMAIN requests /\ requests'[r] = none
          /\ \A q \in DOMAIN requests : q # r => requests'[q] = requests[q]
      BY <2>1, <1>m, <1>t, RequestSet DEF Stages
    <2>5. ASSUME ~overlap PROVE OneRequest'
      <3>1. \A q \in DOMAIN requests : requests'[q].stage = "none"
        BY <2>1, <2>4, <2>5, <1>u, <1>m
      <3>2. bo' = 0 /\ bos' = {}
        BY <2>1, <2>5, <1>u DEF OneRequest
      <3> QED BY <2>1, <2>4, <2>5, <3>1, <3>2, <1>u, <1>e DEF OneRequest, Copies
    <2> QED BY <2>4, <2>5, <1>e
  <1>6. CASE Wlr!Ready(r) \/ WlrStart!Ready(r)
    <2>1. /\ requests[r].stage = "copying" /\ requests' = [requests EXCEPT ![r] = none]
          /\ written' = written \cup {requests[r].mem} /\ current' = o
          /\ wlrFrames' = [wlrFrames EXCEPT ![current].fd = 0]
          /\ status' = "ready" /\ bo' = 0 /\ bos' = bos \ {bo}
      BY <1>6, <1>n, <1>o DEF Wlr!Ready, WlrStart!Ready, Wlr!Gone, WlrStart!Gone, Wlr!CleanupGbm,
            WlrStart!CleanupGbm, Wlr!Destroyed, WlrStart!Destroyed
    <2>4. /\ RequestTypes' /\ DOMAIN requests' = DOMAIN requests /\ requests'[r] = none
          /\ \A q \in DOMAIN requests : q # r => requests'[q] = requests[q]
      BY <2>1, <1>m, <1>t, RequestSet DEF Stages
    <2>5. ASSUME ~overlap PROVE OneRequest'
      <3>1. \A q \in DOMAIN requests : requests'[q].stage = "none"
        BY <2>1, <2>4, <2>5, <1>u, <1>m
      <3>2. bo' = 0 /\ bos' = {}
        BY <2>1, <2>5, <1>u DEF OneRequest
      <3>3. requests[r].mem = wlrFrames[o].mem /\ wlrFrames[o].fd # 0
        BY <2>1, <2>5, <1>o, <1>u DEF OneRequest, Copies
      <3>4. wlrFrames'[o] = wlrFrames[o]
        BY <2>1, <1>o, <1>t DEF WlrTypes
      <3>5. wlrFrames'[current'].fd # 0 /\ wlrFrames'[current'].mem \in written'
        <4>1. wlrFrames'[current'] = wlrFrames[o]
          BY <2>1, <3>4
        <4>2. wlrFrames[o].mem \in written'
          BY <2>1, <3>3
        <4> QED BY <4>1, <4>2, <3>3
      <3> QED BY <2>1, <2>4, <2>5, <3>1, <3>2, <3>5, <1>u, <1>e DEF OneRequest, Copies
    <2> QED BY <2>4, <2>5, <1>e
  <1> QED BY <1>1, <1>2, <1>3, <1>4, <1>5, <1>6

LEMMA WholeStep ==
    ASSUME WholeInv,
           (focus = "wlr" /\ Wlr!Next) \/ (focus = "wlrStart" /\ WlrStart!Next) \/ UNCHANGED wlrVars
    PROVE  WholeInv'
  <1> USE DEF Wlr!hostVars, Wlr!bufferVars, WlrStart!hostVars, WlrStart!bufferVars
  <1> SUFFICES RequestTypes' /\ (~overlap' => OneRequest')
    BY DescriptorStep DEF WholeInv
  <1>t. WlrTypes /\ RequestTypes
    BY DEF WholeInv, DescriptorInv
  <1>0. ASSUME UNCHANGED <<requests, status, wlrFrames, current, bo, bos, written, wlrShown, overlap>>,
               at' = "wait" => at = "wait"
        PROVE  RequestTypes' /\ (~overlap' => OneRequest')
    <2>1. Wlr!Other' = Wlr!Other
      BY <1>0 DEF Wlr!Other
    <2> QED BY <1>0, <2>1 DEF WholeInv, RequestTypes, OneRequest, Copies
  <1>1. CASE UNCHANGED wlrVars
    BY <1>1, <1>0 DEF wlrVars
  <1>2. CASE \/ Wlr!CaptureSocket \/ Wlr!SocketRequired \/ Wlr!ConnectDesktop \/ Wlr!InitCapture
             \/ Wlr!Timeout \/ Wlr!Reinit \/ Wlr!World \/ Wlr!Release
    BY <1>2, <1>0 DEF Wlr!CaptureSocket, Wlr!SocketRequired, Wlr!ConnectDesktop, Wlr!InitCapture,
          Wlr!Timeout, Wlr!Reinit, Wlr!World, Wlr!Release, Wlr!Ends
  <1>3. CASE \/ WlrStart!CaptureSocket \/ WlrStart!SocketRequired \/ WlrStart!ConnectDesktop
             \/ WlrStart!InitCapture \/ WlrStart!Timeout \/ WlrStart!Reinit \/ WlrStart!World
             \/ WlrStart!Release
    BY <1>3, <1>0 DEF WlrStart!CaptureSocket, WlrStart!SocketRequired, WlrStart!ConnectDesktop,
          WlrStart!InitCapture, WlrStart!Timeout, WlrStart!Reinit, WlrStart!World, WlrStart!Release,
          WlrStart!Ends
  <1>4. CASE Wlr!Listen \/ WlrStart!Listen
    <2>1. \E r : /\ requests' = [requests EXCEPT ![r].stage = "asked"]
                 /\ at' = "wait" /\ status' = "waiting"
                 /\ overlap' = (overlap \/ ~\A q \in DOMAIN requests : requests[q].stage = "none")
                 /\ UNCHANGED <<wlrFrames, current, bo, bos, written, wlrShown>>
      <3>1. CASE Wlr!Listen
        BY <3>1 DEF Wlr!Listen, Wlr!Under
      <3>2. CASE WlrStart!Listen
        BY <3>2 DEF WlrStart!Listen, WlrStart!Under
      <3> QED BY <1>4, <3>1, <3>2
    <2>2. PICK r : /\ requests' = [requests EXCEPT ![r].stage = "asked"]
                   /\ at' = "wait" /\ status' = "waiting"
                   /\ overlap' = (overlap \/ ~\A q \in DOMAIN requests : requests[q].stage = "none")
                   /\ UNCHANGED <<wlrFrames, current, bo, bos, written, wlrShown>>
      BY <2>1
    <2>3. PICK n : n = [requests[r] EXCEPT !.stage = "asked"]
      OBVIOUS
    <2>4. requests' = [requests EXCEPT ![r] = n]
      BY <2>2, <2>3
    <2>5. /\ DOMAIN requests' = DOMAIN requests
          /\ \A q \in DOMAIN requests : q # r => requests'[q] = requests[q]
      BY <2>4
    <2>6. r \in DOMAIN requests => /\ requests'[r] = n /\ DOMAIN n = {"stage", "mem"} /\ n.stage = "asked"
      BY <2>3, <2>4, <1>t DEF RequestTypes
    <2>7. RequestTypes'
      BY <2>5, <2>6, <1>t DEF RequestTypes, Stages
    <2>8. ASSUME ~overlap' PROVE OneRequest'
      <3>1. ~overlap /\ OneRequest /\ \A q \in DOMAIN requests : requests[q].stage = "none"
        BY <2>2, <2>8 DEF WholeInv
      <3>2. \A q \in DOMAIN requests : ~Copies(q) /\ ~Copies(q)' /\ (q # r => requests'[q].stage = "none")
        BY <3>1, <2>5, <2>6 DEF Copies
      <3> QED BY <2>2, <2>5, <3>1, <3>2 DEF OneRequest
    <2> QED BY <2>7, <2>8
  <1>5. ASSUME NEW r \in DOMAIN requests,
               \/ Wlr!Describe(r) \/ Wlr!NoBuffer(r) \/ Wlr!CreateBuffer(r) \/ Wlr!ParamsCreated(r)
               \/ Wlr!Failed(r) \/ Wlr!Ready(r)
               \/ WlrStart!Describe(r) \/ WlrStart!NoBuffer(r) \/ WlrStart!CreateBuffer(r)
               \/ WlrStart!ParamsCreated(r) \/ WlrStart!Failed(r) \/ WlrStart!Ready(r)
        PROVE  RequestTypes' /\ (~overlap' => OneRequest')
    BY <1>5, RequestEvents
  <1>6. ASSUME at = "wait", status = "ready", at' # "wait",
               UNCHANGED <<requests, status, current, bo, bos, written, overlap>>,
               wlrFrames' = wlrFrames \/ wlrFrames' = [wlrFrames EXCEPT ![current].fd = 0],
               \/ wlrShown' = wlrShown
               \/ wlrShown' = [mem |-> wlrFrames[current].mem,
                               written |-> wlrFrames[current].mem \in written,
                               fd |-> wlrFrames[current].fd # 0]
        PROVE  RequestTypes' /\ (~overlap' => OneRequest')
    <2>1. RequestTypes'
      BY <1>6, <1>t DEF RequestTypes
    <2>2. ASSUME ~overlap PROVE OneRequest'
      <3>1. OneRequest
        BY <2>2 DEF WholeInv
      <3>2. \A q \in DOMAIN requests : requests[q].stage = "none"
        BY <3>1, <1>6 DEF OneRequest
      <3>3. wlrShown'.written /\ wlrShown'.fd
        <4>1. wlrFrames[current].mem \in written /\ wlrFrames[current].fd # 0
          BY <3>1, <1>6 DEF OneRequest
        <4>2. CASE wlrShown' = [mem |-> wlrFrames[current].mem,
                               written |-> wlrFrames[current].mem \in written,
                               fd |-> wlrFrames[current].fd # 0]
          BY <4>1, <4>2
        <4>3. CASE wlrShown' = wlrShown
          BY <4>3, <3>1 DEF OneRequest
        <4> QED BY <1>6, <4>2, <4>3
      <3> QED BY <3>1, <3>2, <3>3, <1>6 DEF OneRequest, Copies
    <2> QED BY <2>1, <2>2, <1>6
  <1>7. CASE Wlr!TakeVram \/ WlrStart!TakeVram
    <2>1. /\ at = "wait" /\ status = "ready" /\ at' # "wait"
          /\ UNCHANGED <<requests, status, current, bo, bos, written, overlap>>
          /\ wlrFrames' = wlrFrames \/ wlrFrames' = [wlrFrames EXCEPT ![current].fd = 0]
          /\ \/ wlrShown' = wlrShown
             \/ wlrShown' = [mem |-> wlrFrames[current].mem,
                             written |-> wlrFrames[current].mem \in written,
                             fd |-> wlrFrames[current].fd # 0]
      BY <1>7 DEF Wlr!TakeVram, WlrStart!TakeVram, Wlr!Taken, WlrStart!Taken, Wlr!Ends, WlrStart!Ends,
            Wlr!Deliver, WlrStart!Deliver, Wlr!Destroyed, WlrStart!Destroyed
    <2> QED BY <2>1, <1>6
  <1>8. CASE Wlr!TakeRam \/ WlrStart!TakeRam
    <2>1. /\ at = "wait" /\ status = "ready" /\ at' # "wait"
          /\ UNCHANGED <<requests, status, current, bo, bos, written, overlap, wlrFrames>>
          /\ \/ wlrShown' = wlrShown
             \/ wlrShown' = [mem |-> wlrFrames[current].mem,
                             written |-> wlrFrames[current].mem \in written,
                             fd |-> wlrFrames[current].fd # 0]
      BY <1>8 DEF Wlr!TakeRam, WlrStart!TakeRam, Wlr!Taken, WlrStart!Taken, Wlr!Ends, WlrStart!Ends,
            Wlr!Deliver, WlrStart!Deliver
    <2> QED BY <2>1, <1>6
  <1>9. CASE Wlr!Destroy \/ WlrStart!Destroy
    <2>1. /\ at' = "destroyed" /\ bo' = 0 /\ bos' = bos \ {bo} /\ UNCHANGED <<status, current, written, wlrShown, overlap>>
          /\ requests' = [r \in DOMAIN requests |-> [stage |-> "none", mem |-> 0]]
      BY <1>9 DEF Wlr!Destroy, WlrStart!Destroy, Wlr!CleanupGbm, WlrStart!CleanupGbm
    <2>2. /\ DOMAIN requests' = DOMAIN requests
          /\ \A r \in DOMAIN requests : DOMAIN requests'[r] = {"stage", "mem"} /\ requests'[r].stage = "none"
      BY <2>1
    <2>3. RequestTypes'
      BY <2>2 DEF RequestTypes, Stages
    <2>4. ASSUME ~overlap PROVE OneRequest'
      <3>1. OneRequest
        BY <2>4 DEF WholeInv
      <3> QED BY <2>1, <2>2, <3>1 DEF OneRequest, Copies
    <2> QED BY <2>1, <2>3, <2>4
  <1> QED BY <1>1, <1>2, <1>3, <1>4, <1>5, <1>7, <1>8, <1>9 DEF Wlr!Next, WlrStart!Next

LEMMA AnsweredWhole == ASSUME WholeInv PROVE Wlr!AnsweredIsWhole
  BY DEF WholeInv, OneRequest, Wlr!AnsweredIsWhole

-----------------------------------------------------------------------------
(* EncodeSurface.  A quotient of two lengths, and the picture in a frame.  *)
LEMMA QuotientBound ==
    ASSUME NEW x \in Nat, NEW y \in Nat, NEW z \in Nat \ {0}, x <= y * z
    PROVE  x \div z \in Nat /\ x \div z <= y
  <1> DEFINE q == x \div z
  <1>1. q \in Int /\ z * q <= x /\ x < z * q + z
    OBVIOUS
  <1>2. q \in Nat /\ q <= y
    OBVIOUS
  <1> QED BY <1>2

LEMMA FitInside ==
    ASSUME NEW a \in Nat \ {0}, NEW b \in Nat \ {0}, NEW c \in Nat \ {0}, NEW d \in Nat \ {0}
    PROVE  /\ Convert!Fit(a, b, c, d).w \in Nat /\ Convert!Fit(a, b, c, d).w <= c
           /\ Convert!Fit(a, b, c, d).h \in Nat /\ Convert!Fit(a, b, c, d).h <= d
  <1>1. CASE c * b <= d * a
    <2>1. (b * c) \div a \in Nat /\ (b * c) \div a <= d
      <3>1. b * c \in Nat /\ b * c <= d * a
        BY <1>1
      <3> QED BY <3>1, QuotientBound
    <2>2. Convert!Fit(a, b, c, d) = [w |-> c, h |-> (b * c) \div a]
      BY <1>1 DEF Convert!Fit
    <2> QED BY <2>1, <2>2
  <1>2. CASE ~(c * b <= d * a)
    <2>1. (a * d) \div b \in Nat /\ (a * d) \div b <= c
      <3>1. a * d \in Nat /\ c * b \in Nat /\ d * a \in Nat /\ a * d = d * a
        OBVIOUS
      <3>2. a * d <= c * b
        BY <1>2, <3>1
      <3> QED BY <3>1, <3>2, QuotientBound
    <2>2. Convert!Fit(a, b, c, d) = [w |-> (a * d) \div b, h |-> d]
      BY <1>2 DEF Convert!Fit
    <2> QED BY <2>1, <2>2
  <1> QED BY <1>1, <1>2

(* An even part is even, and no larger.                                    *)
LEMMA EvenPart ==
    ASSUME NEW n \in Nat
    PROVE  /\ Convert!Even(n) \in Nat /\ Convert!Even(n) <= n /\ Convert!Even(n) % 2 = 0
           /\ n \div 2 \in Nat /\ n \div 2 <= n
  BY DEF Convert!Even

(* In one direction: the picture and its offset, for a frame of this size. *)
LEMMA VulkanSide ==
    ASSUME NEW f \in Nat, NEW c \in Nat, f <= c,
           NEW w, w = Convert!Smaller(Convert!Even(f), Convert!Even(c)),
           NEW x, x = Convert!Even((c - w) \div 2),
           NEW s, s = Convert!Smaller(w, Convert!Even(c - x))
    PROVE  /\ x \in Nat /\ s \in Nat /\ x + s <= c
           /\ x % 2 = 0 /\ s % 2 = 0
  <1>1. w \in Nat /\ w <= c /\ w % 2 = 0
    BY EvenPart DEF Convert!Smaller
  <1>2. c - w \in Nat /\ (c - w) \div 2 \in Nat /\ (c - w) \div 2 <= c - w
    BY <1>1
  <1>3. x \in Nat /\ x <= c - w /\ x % 2 = 0
    BY <1>2, EvenPart
  <1>4. c - x \in Nat
    BY <1>1, <1>3
  <1>5. Convert!Even(c - x) \in Nat /\ Convert!Even(c - x) <= c - x /\ Convert!Even(c - x) % 2 = 0
    BY <1>4, EvenPart
  <1> QED BY <1>1, <1>3, <1>5 DEF Convert!Smaller

LEMMA PicturesFit == Convert!PictureFits
  <1> SUFFICES ASSUME NEW a \in Pictures, NEW b \in Pictures, NEW c \in Pictures, NEW d \in Pictures
               PROVE  /\ \A p \in {Convert!FitNv12(a, b, c, d), Convert!FitYuv444(a, b, c, d), Convert!FitVulkan(a, b, c, d)} :
                            p.x >= 0 /\ p.y >= 0 /\ p.x + p.w <= c /\ p.y + p.h <= d
                      /\ LET p == Convert!FitVulkan(a, b, c, d) IN \A n \in {p.x, p.y, p.w, p.h} : n % 2 = 0
    BY DEF Convert!PictureFits
  <1>1. a \in Nat \ {0} /\ b \in Nat \ {0} /\ c \in Nat \ {0} /\ d \in Nat \ {0}
    BY PictureAssumption
  <1>w. PICK w : w = Convert!Fit(a, b, c, d).w
    OBVIOUS
  <1>h. PICK h : h = Convert!Fit(a, b, c, d).h
    OBVIOUS
  <1>2. w \in Nat /\ h \in Nat /\ w <= c /\ h <= d
    BY <1>1, <1>w, <1>h, FitInside
  <1>3. Convert!Fit(a, b, c, d).w = w /\ Convert!Fit(a, b, c, d).h = h
    BY <1>w, <1>h
  <1>4. ASSUME NEW p, p = Convert!FitNv12(a, b, c, d) \/ p = Convert!FitYuv444(a, b, c, d)
        PROVE  p.x >= 0 /\ p.y >= 0 /\ p.x + p.w <= c /\ p.y + p.h <= d
    <2>1. CASE p = Convert!FitNv12(a, b, c, d)
      <3>1. p = [w |-> w, h |-> h, x |-> (c - w) \div 2, y |-> (d - h) \div 2]
        BY <2>1, <1>3 DEF Convert!FitNv12
      <3>2. p.w = w /\ p.h = h /\ p.x = (c - w) \div 2 /\ p.y = (d - h) \div 2
        BY <3>1
      <3> QED BY <3>2, <1>1, <1>2
    <2>2. CASE p = Convert!FitYuv444(a, b, c, d)
      <3>1. p = [w |-> w, h |-> h, x |-> c - w, y |-> d - h]
        BY <2>2, <1>3 DEF Convert!FitYuv444
      <3>2. p.w = w /\ p.h = h /\ p.x = c - w /\ p.y = d - h
        BY <3>1
      <3> QED BY <3>2, <1>1, <1>2
    <2> QED BY <1>4, <2>1, <2>2
  <1>5. PICK p : p = Convert!FitVulkan(a, b, c, d)
    OBVIOUS
  <1>6. PICK w1 : w1 = Convert!Smaller(Convert!Even(w), Convert!Even(c))
    OBVIOUS
  <1>7. PICK h1 : h1 = Convert!Smaller(Convert!Even(h), Convert!Even(d))
    OBVIOUS
  <1>8. PICK x : x = Convert!Even((c - w1) \div 2)
    OBVIOUS
  <1>9. PICK y : y = Convert!Even((d - h1) \div 2)
    OBVIOUS
  <1>10. PICK w2 : w2 = Convert!Smaller(w1, Convert!Even(c - x))
    OBVIOUS
  <1>11. PICK h2 : h2 = Convert!Smaller(h1, Convert!Even(d - y))
    OBVIOUS
  <1>12. p = [w |-> w2, h |-> h2, x |-> x, y |-> y]
    BY <1>3, <1>5, <1>6, <1>7, <1>8, <1>9, <1>10, <1>11 DEF Convert!FitVulkan
  <1>13. p.w = w2 /\ p.h = h2 /\ p.x = x /\ p.y = y
    BY <1>12
  <1>14. x \in Nat /\ w2 \in Nat /\ x + w2 <= c /\ x % 2 = 0 /\ w2 % 2 = 0
    BY <1>1, <1>2, <1>6, <1>8, <1>10, VulkanSide
  <1>15. y \in Nat /\ h2 \in Nat /\ y + h2 <= d /\ y % 2 = 0 /\ h2 % 2 = 0
    BY <1>1, <1>2, <1>7, <1>9, <1>11, VulkanSide
  <1>16. p.x >= 0 /\ p.y >= 0 /\ p.x + p.w <= c /\ p.y + p.h <= d
    BY <1>13, <1>14, <1>15
  <1>17. \A n \in {p.x, p.y, p.w, p.h} : n % 2 = 0
    BY <1>13, <1>14, <1>15
  <1> QED BY <1>4, <1>5, <1>16, <1>17

-----------------------------------------------------------------------------
PicturesInv == KmsInv /\ DxgiInv /\ WholeInv

LEMMA PicturesStart == ASSUME Start PROVE PicturesInv
  <1>1. Kms!Init /\ Dxgi!Init /\ (Wlr!Init \/ WlrStart!Init)
    BY DEF Start
  <1> QED BY <1>1, KmsStart, DxgiStart, WholeStart DEF PicturesInv

LEMMA PicturesStep == ASSUME PicturesInv, [Steps]_allVars PROVE PicturesInv'
  BY ComponentSteps, KmsStep, DxgiStep, WholeStep DEF PicturesInv

(* A frame that is handed on shows the desktop and the pointer as they     *)
(* were captured, in each way of capturing (kmsgrab.cpp, wlgrab.cpp,       *)
(* display_vram.cpp, display_ram.cpp, display_wgc.cpp), and lies inside    *)
(* the frame it is converted into (graphics.cpp, vulkan_encode.cpp).       *)
THEOREM CapturesAreCurrent == SuiteSpec => []PicturesAreCurrent
  <1>1. Start => PicturesInv
    BY PicturesStart
  <1>2. PicturesInv /\ [Steps]_allVars => PicturesInv'
    BY PicturesStep
  <1>3. PicturesInv => PicturesAreCurrent
    BY KmsShowsCursor, KmsDraws, DxgiShows, AnsweredWhole, PicturesFit DEF PicturesInv, PicturesAreCurrent
  <1> QED BY <1>1, <1>2, <1>3, PTL DEF SuiteSpec

-----------------------------------------------------------------------------
(* EncodeSurface, the conversion.  While the device works, what is         *)
(* imported is what was captured up to now, and what the shader reads is   *)
(* what is imported, unless the descriptors are known to be old.           *)
ConvertTypes ==
    /\ captured.sequence \in Nat /\ captured.cursor \in Nat
    /\ DOMAIN source = {"sequence", "image", "bound"} /\ source.sequence \in Nat
    /\ DOMAIN convertPointer = {"serial", "image", "bound"} /\ convertPointer.serial \in Int
    /\ dirty \in BOOLEAN
Imports ==
    /\ captured.sequence = 0 => captured.cursor = 0
    /\ source.sequence <= captured.sequence
    /\ source.sequence # 0 => source.image = source.sequence
    /\ target = Convert!Nothing => source.sequence = 0
    /\ convertPointer.serial # -1 => convertPointer.image = convertPointer.serial
    /\ convertBackend = "gl" /\ source.sequence # 0 => source.bound = source.sequence
    /\ convertBackend = "vulkan" /\ dirty = FALSE =>
        /\ source.sequence # 0 => source.bound = source.sequence
        /\ convertPointer.serial # -1 => convertPointer.bound = convertPointer.image
ConvertInv ==
    /\ ConvertTypes
    /\ device \in {"none", "ready", "failed"}
    /\ focus # "convert" => device = "none"
    /\ captured.sequence = 0 => captured.cursor = 0
    /\ device = "ready" => Imports

LEMMA ConvertStart ==
    ASSUME Convert!Init \/ Fbc!Init \/ Nvenc!Init PROVE ConvertInv
  <1>1. /\ device = "none" /\ captured = [sequence |-> 0, cursor |-> 0]
        /\ source = [sequence |-> 0, image |-> -1, bound |-> -1]
        /\ convertPointer = [serial |-> -1, image |-> 0, bound |-> 0] /\ dirty = FALSE
    <2>1. CASE Convert!Init
      BY <2>1 DEF Convert!Init, Convert!NoImage, Convert!NoSource, Convert!NoPointer
    <2>2. CASE Fbc!Init
      BY <2>2 DEF Fbc!Init, Fbc!NoImage, Fbc!NoSource, Fbc!NoPointer
    <2>3. CASE Nvenc!Init
      BY <2>3 DEF Nvenc!Init, Nvenc!NoImage, Nvenc!NoSource, Nvenc!NoPointer
    <2> QED BY <2>1, <2>2, <2>3
  <1>2. captured.sequence = 0 /\ captured.cursor = 0
    BY <1>1
  <1>3. DOMAIN source = {"sequence", "image", "bound"} /\ source.sequence = 0
    BY <1>1
  <1>4. DOMAIN convertPointer = {"serial", "image", "bound"} /\ convertPointer.serial = -1
    BY <1>1
  <1>6. convertPointer.serial \in Int
    BY <1>4
  <1>7. dirty \in BOOLEAN
    BY <1>1
  <1>5. ConvertTypes
    BY <1>2, <1>3, <1>4, <1>6, <1>7 DEF ConvertTypes
  <1> QED BY <1>1, <1>2, <1>5 DEF ConvertInv

(* The image that is converted, and what a conversion makes of it.         *)
LEMMA Converted ==
    ASSUME ConvertInv, NEW ok \in BOOLEAN,
           Convert!ConvertGl(Convert!Given, ok) \/ Convert!ConvertVulkan(Convert!Given, ok)
    PROVE  /\ device = "ready" /\ device' \in {"ready", "failed"} /\ ConvertTypes'
           /\ UNCHANGED <<captured, convertBackend>>
           /\ device' = "ready" =>
                Imports' /\ target' = [image |-> Convert!Given.sequence, cursor |-> Convert!Given.cursor]
  <1>1. PICK im : im = Convert!Given
    OBVIOUS
  <1>2. device = "ready" /\ Imports /\ ConvertTypes
    BY DEF ConvertInv, Convert!ConvertGl, Convert!ConvertVulkan
  <1>3. /\ im.sequence \in Nat /\ im.cursor \in Nat /\ (im.sequence = 0 => im.cursor = 0)
        /\ source.sequence <= im.sequence /\ im.sequence <= captured.sequence
        /\ im.sequence # 0 => im = captured
    BY <1>1, <1>2 DEF Imports, ConvertTypes, Convert!Given, Convert!NoImage
  <1>4. UNCHANGED <<captured, convertBackend>> /\ device' \in {"ready", "failed"}
    BY <1>2 DEF Convert!ConvertGl, Convert!ConvertVulkan
  <1>5. PICK src : src = [source EXCEPT !.sequence = im.sequence, !.image = im.sequence]
    OBVIOUS
  <1>6. /\ DOMAIN src = {"sequence", "image", "bound"} /\ src.sequence = im.sequence
        /\ src.image = im.sequence /\ src.bound = source.bound
    BY <1>2, <1>5 DEF ConvertTypes
  <1>7. Convert!Imported(im) = src
    BY <1>5 DEF Convert!Imported
  <1>8. PICK up : up = Convert!Uploaded(im)
    OBVIOUS
  <1>9. /\ DOMAIN up = {"serial", "image", "bound"} /\ up.serial \in Int
        /\ up.bound = convertPointer.bound
        /\ up.serial # -1 => up.image = up.serial
        /\ im.cursor # 0 => up.serial = im.cursor
        /\ ~Convert!NewCursor(im) => up = convertPointer
    <2>1. CASE Convert!NewCursor(im)
      <3>1. up = [convertPointer EXCEPT !.serial = im.cursor, !.image = im.cursor]
        BY <1>8, <2>1 DEF Convert!Uploaded
      <3> QED BY <2>1, <3>1, <1>2, <1>3 DEF ConvertTypes, Imports
    <2>2. CASE ~Convert!NewCursor(im)
      <3>1. up = convertPointer
        BY <1>8, <2>2 DEF Convert!Uploaded
      <3> QED BY <2>2, <3>1, <1>2, <1>3 DEF ConvertTypes, Imports, Convert!NewCursor
    <2> QED BY <2>1, <2>2
  <1>10. CASE Convert!ConvertGl(Convert!Given, ok)
    <2>1. /\ convertBackend = "gl" /\ dirty' = dirty
          /\ source' = IF im.sequence = 0 THEN [source EXCEPT !.image = 0, !.bound = 0]
                       ELSE IF im.sequence > source.sequence THEN [src EXCEPT !.bound = im.sequence]
                       ELSE source
          /\ IF ~ok THEN device' = "failed" /\ UNCHANGED <<convertPointer, target>>
             ELSE /\ convertPointer' = [up EXCEPT !.bound = up.image]
                  /\ target' = [image |-> source'.bound,
                                cursor |-> IF im.cursor # 0 THEN convertPointer'.bound ELSE 0]
      BY <1>1, <1>7, <1>8, <1>10 DEF Convert!ConvertGl, Convert!Imports, Convert!Drawn
    <2>2. /\ DOMAIN source' = {"sequence", "image", "bound"} /\ source'.sequence \in Nat
          /\ source'.sequence = im.sequence /\ source'.bound = im.sequence
          /\ source'.sequence # 0 => source'.image = source'.sequence
      <3>1. CASE im.sequence = 0
        BY <2>1, <3>1, <1>2, <1>3 DEF ConvertTypes
      <3>2. CASE im.sequence > source.sequence
        BY <2>1, <3>2, <1>2, <1>3, <1>6 DEF ConvertTypes
      <3>3. CASE im.sequence # 0 /\ ~(im.sequence > source.sequence)
        BY <2>1, <3>3, <1>2, <1>3 DEF ConvertTypes, Imports
      <3> QED BY <3>1, <3>2, <3>3, <1>2, <1>3 DEF ConvertTypes
    <2>3. CASE ~ok
      BY <2>1, <2>2, <2>3, <1>2, <1>4 DEF ConvertTypes
    <2>4. CASE ok
      <3>1. /\ DOMAIN convertPointer' = {"serial", "image", "bound"} /\ convertPointer'.serial = up.serial
            /\ convertPointer'.image = up.image /\ convertPointer'.bound = up.image
        BY <2>1, <2>4, <1>9
      <3>2. convertPointer'.serial # -1 => convertPointer'.image = convertPointer'.serial
        BY <3>1, <1>9
      <3>3. im.cursor # 0 => convertPointer'.bound = im.cursor
        BY <3>1, <1>3, <1>9
      <3>4. target' = [image |-> im.sequence, cursor |-> im.cursor]
        BY <2>1, <2>2, <2>4, <3>3, <1>3
      <3>5. target' = Convert!Nothing => source'.sequence = 0
        BY <3>4, <1>3 DEF Convert!Nothing
      <3>6. ConvertTypes'
        BY <2>1, <2>2, <3>1, <1>2, <1>4, <1>9 DEF ConvertTypes
      <3>7. Imports'
        BY <2>1, <2>2, <3>2, <3>5, <1>2, <1>3, <1>4 DEF Imports
      <3> QED BY <3>4, <3>6, <3>7, <1>1, <1>2, <1>4
    <2> QED BY <2>3, <2>4
  <1>11. CASE Convert!ConvertVulkan(Convert!Given, ok)
    <2>0. convertBackend = "vulkan"
      BY <1>11 DEF Convert!ConvertVulkan
    <2>1. CASE im.sequence = 0
      <3>1. /\ source' = [source EXCEPT !.bound = 0] /\ dirty' = TRUE
            /\ target' = [image |-> 0, cursor |-> 0] /\ UNCHANGED <<device, convertPointer>>
        BY <1>1, <1>11, <2>1 DEF Convert!ConvertVulkan
      <3>2. /\ DOMAIN source' = {"sequence", "image", "bound"} /\ source'.sequence = source.sequence
            /\ source'.image = source.image /\ source.sequence = 0
        BY <3>1, <2>1, <1>2, <1>3 DEF ConvertTypes
      <3>3. ConvertTypes' /\ Imports'
        BY <3>1, <3>2, <2>0, <1>2, <1>4 DEF ConvertTypes, Imports
      <3>4. target' = [image |-> im.sequence, cursor |-> im.cursor]
        BY <3>1, <2>1, <1>3
      <3> QED BY <3>3, <3>4, <1>1, <1>2, <1>4
    <2>2. CASE im.sequence # 0
      <3>1. PICK imp : imp = IF Convert!Imports(im) THEN src ELSE source
        OBVIOUS
      <3>2. /\ DOMAIN imp = {"sequence", "image", "bound"} /\ imp.sequence = im.sequence
            /\ imp.image = im.sequence /\ imp.bound = source.bound
        BY <3>1, <2>2, <1>2, <1>3, <1>6 DEF Convert!Imports, ConvertTypes, Imports
      <3>3. CASE ~ok
        <4>1. device' = "failed" /\ source' = imp /\ UNCHANGED <<convertPointer, dirty>>
          BY <1>1, <1>7, <1>11, <2>2, <3>1, <3>3 DEF Convert!ConvertVulkan
        <4> QED BY <4>1, <3>2, <1>2, <1>3, <1>4 DEF ConvertTypes
      <3>4. CASE ok
        <4>1. /\ source' = IF Convert!Rewrites(im) THEN [imp EXCEPT !.bound = imp.image] ELSE imp
              /\ convertPointer' = IF Convert!Rewrites(im) THEN [up EXCEPT !.bound = up.image] ELSE up
              /\ dirty' = FALSE
              /\ target' = [image |-> source'.bound,
                            cursor |-> IF im.cursor # 0 THEN convertPointer'.bound ELSE 0]
          BY <1>1, <1>7, <1>8, <1>11, <2>2, <3>1, <3>4
             DEF Convert!ConvertVulkan, Convert!Dispatched, Convert!Drawn
        <4>2. /\ DOMAIN source' = {"sequence", "image", "bound"} /\ source'.sequence = im.sequence
              /\ source'.image = im.sequence /\ source'.bound = im.sequence
          <5>1. CASE Convert!Rewrites(im)
            BY <4>1, <5>1, <3>2
          <5>2. CASE ~Convert!Rewrites(im)
            <6>1. dirty = FALSE /\ source.sequence = im.sequence
              BY <5>2, <1>2, <1>3 DEF Convert!Rewrites, Convert!Imports, ConvertTypes
            <6> QED BY <4>1, <5>2, <6>1, <3>2, <2>0, <2>2, <1>2 DEF Imports
          <5> QED BY <5>1, <5>2
        <4>3. /\ DOMAIN convertPointer' = {"serial", "image", "bound"} /\ convertPointer'.serial = up.serial
              /\ convertPointer'.image = up.image
              /\ up.serial # -1 => convertPointer'.bound = up.image
          <5>1. CASE Convert!Rewrites(im)
            BY <4>1, <5>1, <1>9
          <5>2. CASE ~Convert!Rewrites(im)
            <6>1. dirty = FALSE /\ up = convertPointer
              BY <5>2, <1>2, <1>9 DEF Convert!Rewrites, ConvertTypes
            <6> QED BY <4>1, <5>2, <6>1, <2>0, <1>2, <1>9 DEF Imports
          <5> QED BY <5>1, <5>2
        <4>4. im.cursor # 0 => convertPointer'.bound = im.cursor
          BY <4>3, <1>3, <1>9
        <4>5. target' = [image |-> im.sequence, cursor |-> im.cursor]
          BY <4>1, <4>2, <4>4, <1>3
        <4>6. target' # Convert!Nothing
          BY <4>5, <1>3 DEF Convert!Nothing
        <4>7. ConvertTypes'
          BY <4>1, <4>2, <4>3, <1>2, <1>3, <1>4, <1>9 DEF ConvertTypes
        <4>8. Imports'
          BY <4>1, <4>2, <4>3, <4>6, <2>0, <1>2, <1>3, <1>4, <1>9 DEF Imports
        <4> QED BY <4>5, <4>7, <4>8, <1>1, <1>2, <1>4
      <3> QED BY <3>3, <3>4
    <2> QED BY <2>1, <2>2, <1>3
  <1> QED BY <1>10, <1>11

LEMMA ConvertStep ==
    ASSUME ConvertInv, focus' = focus,
           \/ focus = "convert" /\ Convert!Next
           \/ focus = "fbc" /\ Fbc!Next
           \/ focus = "nvenc" /\ Nvenc!Next
           \/ UNCHANGED convertVars
    PROVE  ConvertInv'
  <1>0. ASSUME UNCHANGED <<convertBackend, device, captured, source, convertPointer, dirty, target>>
        PROVE  ConvertInv'
    BY <1>0 DEF ConvertInv, ConvertTypes, Imports
  <1>1. CASE UNCHANGED convertVars
    BY <1>1, <1>0 DEF convertVars
  <1>2. CASE focus = "convert" /\ Convert!Next
    <2>1. ASSUME NEW ok \in BOOLEAN, Convert!MakeDevice(ok) PROVE ConvertInv'
      <3>1. /\ device' \in {"ready", "failed"} /\ UNCHANGED <<convertBackend, captured>>
            /\ source' = Convert!NoSource /\ convertPointer' = Convert!NoPointer
            /\ dirty' = FALSE /\ target' = Convert!Nothing
        BY <2>1 DEF Convert!MakeDevice
      <3>4. captured'.sequence \in Nat /\ captured'.cursor \in Nat
        BY <3>1 DEF ConvertInv, ConvertTypes
      <3>5. DOMAIN source' = {"sequence", "image", "bound"} /\ source'.sequence = 0
        BY <3>1 DEF Convert!NoSource
      <3>6. DOMAIN convertPointer' = {"serial", "image", "bound"} /\ convertPointer'.serial = -1
        BY <3>1 DEF Convert!NoPointer
      <3>7. convertPointer'.serial \in Int
        BY <3>6
      <3>8. dirty' \in BOOLEAN
        BY <3>1
      <3>2. ConvertTypes'
        BY <3>4, <3>5, <3>6, <3>7, <3>8 DEF ConvertTypes
      <3>3. Imports'
        BY <3>1, <3>5, <3>6 DEF ConvertInv, ConvertTypes, Imports
      <3> QED BY <1>2, <3>1, <3>2, <3>3 DEF ConvertInv
    <2>2. ASSUME NEW ok \in BOOLEAN,
                 Convert!ConvertGl(Convert!Given, ok) \/ Convert!ConvertVulkan(Convert!Given, ok)
          PROVE  ConvertInv'
      BY <1>2, <2>2, Converted DEF ConvertInv
    <2>3. CASE Convert!DropDevice
      BY <1>2, <2>3 DEF Convert!DropDevice, ConvertInv, ConvertTypes
    <2>4. ASSUME NEW c \in 0 .. ConvertImages, Convert!NextImage(c) PROVE ConvertInv'
      <3>1. /\ captured'.sequence = captured.sequence + 1
            /\ captured'.cursor \in {0, captured.cursor, captured.sequence + 1}
            /\ UNCHANGED <<convertBackend, device, source, convertPointer, dirty, target>>
        BY <2>4 DEF Convert!NextImage
      <3> QED BY <1>2, <3>1 DEF ConvertInv, ConvertTypes, Imports
    <2>5. CASE \/ Convert!FbcStarts \/ Convert!Snapshot \/ Convert!FbcEnds \/ Convert!Toggle
               \/ (\E n \in {0}, several \in BOOLEAN : Convert!CreateEncoder(n, several))
               \/ Convert!DestroyEncoder \/ Convert!EncodeFrame \/ Convert!Invalidate
               \/ (\E f \in 1 .. 0 : Convert!Receive(f))
      BY <2>5, <1>0 DEF Convert!FbcStarts, Convert!Snapshot, Convert!FbcEnds, Convert!Toggle,
            Convert!CreateEncoder, Convert!DestroyEncoder, Convert!EncodeFrame, Convert!Invalidate,
            Convert!Receive, Convert!ConversionSame
    <2> QED BY <1>2, <2>1, <2>2, <2>3, <2>4, <2>5 DEF Convert!Next
  <1>3. CASE focus = "fbc" /\ Fbc!Next
    <2>1. device = "none" /\ captured.sequence \in Nat
      BY <1>3 DEF ConvertInv, ConvertTypes
    <2>2. ASSUME NEW ok \in BOOLEAN,
                 Fbc!MakeDevice(ok) \/ Fbc!ConvertGl(Fbc!Given, ok) \/ Fbc!ConvertVulkan(Fbc!Given, ok)
          PROVE  FALSE
      BY <2>1, <2>2 DEF Fbc!MakeDevice, Fbc!ConvertGl, Fbc!ConvertVulkan
    <2>3. ASSUME NEW c, Fbc!NextImage(c) PROVE FALSE
      BY <2>1, <2>3 DEF Fbc!NextImage
    <2>4. ~Fbc!DropDevice
      BY <2>1 DEF Fbc!DropDevice
    <2>5. CASE Fbc!FbcStarts \/ Fbc!Snapshot \/ Fbc!FbcEnds \/ Fbc!Toggle
      BY <2>5, <1>0 DEF Fbc!FbcStarts, Fbc!Snapshot, Fbc!FbcEnds, Fbc!Toggle, Fbc!ConversionSame
    <2>6. ASSUME NEW n, NEW several, Fbc!CreateEncoder(n, several) PROVE ConvertInv'
      BY <2>6, <1>0 DEF Fbc!CreateEncoder, Fbc!ConversionSame
    <2>7. ASSUME NEW f, Fbc!Receive(f) PROVE ConvertInv'
      BY <2>7, <1>0 DEF Fbc!Receive, Fbc!ConversionSame
    <2>8. CASE Fbc!DestroyEncoder \/ Fbc!EncodeFrame \/ Fbc!Invalidate
      BY <2>8, <1>0 DEF Fbc!DestroyEncoder, Fbc!EncodeFrame, Fbc!Invalidate, Fbc!ConversionSame
    <2> QED BY <1>3, <2>2, <2>3, <2>4, <2>5, <2>6, <2>7, <2>8 DEF Fbc!Next
  <1>4. CASE focus = "nvenc" /\ Nvenc!Next
    <2>1. device = "none" /\ captured.sequence \in Nat
      BY <1>4 DEF ConvertInv, ConvertTypes
    <2>2. ASSUME NEW ok \in BOOLEAN,
                 Nvenc!MakeDevice(ok) \/ Nvenc!ConvertGl(Nvenc!Given, ok) \/ Nvenc!ConvertVulkan(Nvenc!Given, ok)
          PROVE  FALSE
      BY <2>1, <2>2 DEF Nvenc!MakeDevice, Nvenc!ConvertGl, Nvenc!ConvertVulkan
    <2>3. ASSUME NEW c, Nvenc!NextImage(c) PROVE FALSE
      BY <2>1, <2>3 DEF Nvenc!NextImage
    <2>4. ~Nvenc!DropDevice
      BY <2>1 DEF Nvenc!DropDevice
    <2>5. CASE Nvenc!FbcStarts \/ Nvenc!Snapshot \/ Nvenc!FbcEnds \/ Nvenc!Toggle
      BY <2>5, <1>0 DEF Nvenc!FbcStarts, Nvenc!Snapshot, Nvenc!FbcEnds, Nvenc!Toggle, Nvenc!ConversionSame
    <2>6. ASSUME NEW n, NEW several, Nvenc!CreateEncoder(n, several) PROVE ConvertInv'
      BY <2>6, <1>0 DEF Nvenc!CreateEncoder, Nvenc!ConversionSame
    <2>7. ASSUME NEW f, Nvenc!Receive(f) PROVE ConvertInv'
      BY <2>7, <1>0 DEF Nvenc!Receive, Nvenc!ConversionSame
    <2>8. CASE Nvenc!DestroyEncoder \/ Nvenc!EncodeFrame \/ Nvenc!Invalidate
      BY <2>8, <1>0 DEF Nvenc!DestroyEncoder, Nvenc!EncodeFrame, Nvenc!Invalidate, Nvenc!ConversionSame
    <2> QED BY <1>4, <2>2, <2>3, <2>4, <2>5, <2>6, <2>7, <2>8 DEF Nvenc!Next
  <1> QED BY <1>1, <1>2, <1>3, <1>4


(* What a conversion draws is the image that was captured, cursor and all. *)
LEMMA ConvertShows ==
    ASSUME ConvertInv
    PROVE  [\A ok \in BOOLEAN : (Convert!ConvertGl(Convert!Given, ok) \/ Convert!ConvertVulkan(Convert!Given, ok))
                                 /\ device' = "ready"
               => target' = [image |-> Convert!Given.sequence, cursor |-> Convert!Given.cursor]]_(Convert!encodeVars)
  BY Converted

-----------------------------------------------------------------------------
(* EncodeSurface, NvFBC.  A session was made for the cursor as it was seen *)
(* then, and the frame grabbed last for the cursor as it was asked for.    *)
FbcInv ==
    /\ DOMAIN fbc = {"cursor", "visible", "session", "live", "frame"}
    /\ fbc.cursor \in BOOLEAN
    /\ fbc.session # "none" => (fbc.session = "cursor") = fbc.visible
    /\ Fbc!GrabsAsAsked

LEMMA FbcStart ==
    ASSUME Convert!Init \/ Fbc!Init \/ Nvenc!Init PROVE FbcInv
  <1>1. fbc = [cursor |-> TRUE, visible |-> TRUE, session |-> "none", live |-> FALSE,
               frame |-> [asked |-> TRUE, session |-> "none"]]
    BY DEF Convert!Init, Fbc!Init, Nvenc!Init
  <1>2. DOMAIN fbc = {"cursor", "visible", "session", "live", "frame"}
    BY <1>1
  <1> QED BY <1>1, <1>2 DEF FbcInv, Fbc!GrabsAsAsked

LEMMA FbcStep ==
    ASSUME FbcInv,
           \/ focus = "convert" /\ Convert!Next
           \/ focus = "fbc" /\ Fbc!Next
           \/ focus = "nvenc" /\ Nvenc!Next
           \/ UNCHANGED convertVars
    PROVE  FbcInv'
  <1>0. ASSUME UNCHANGED fbc PROVE FbcInv'
    BY <1>0 DEF FbcInv, Fbc!GrabsAsAsked
  <1>1. ASSUME fbc' = [fbc EXCEPT !.live = TRUE, !.visible = ~fbc.cursor, !.session = "none"] PROVE FbcInv'
    <2>1. DOMAIN fbc' = DOMAIN fbc /\ fbc'.cursor = fbc.cursor /\ fbc'.session = "none" /\ fbc'.frame = fbc.frame
      BY <1>1 DEF FbcInv
    <2> QED BY <2>1 DEF FbcInv, Fbc!GrabsAsAsked
  <1>2. ASSUME fbc' = [fbc EXCEPT !.live = FALSE, !.session = "none"] PROVE FbcInv'
    <2>1. DOMAIN fbc' = DOMAIN fbc /\ fbc'.cursor = fbc.cursor /\ fbc'.session = "none" /\ fbc'.frame = fbc.frame
      BY <1>2 DEF FbcInv
    <2> QED BY <2>1 DEF FbcInv, Fbc!GrabsAsAsked
  <1>3. ASSUME fbc' = [fbc EXCEPT !.cursor = ~@] PROVE FbcInv'
    <2>1. /\ DOMAIN fbc' = DOMAIN fbc /\ fbc'.cursor = ~fbc.cursor /\ fbc'.session = fbc.session
          /\ fbc'.visible = fbc.visible /\ fbc'.frame = fbc.frame
      BY <1>3 DEF FbcInv
    <2> QED BY <2>1 DEF FbcInv, Fbc!GrabsAsAsked
  <1>4. ASSUME NEW s, fbc' = [fbc EXCEPT !.visible = fbc.cursor, !.session = s,
                                         !.frame = [asked |-> fbc.cursor, session |-> s]],
               s # "none" => (s = "cursor") = fbc.cursor
        PROVE  FbcInv'
    <2>1. /\ DOMAIN fbc' = DOMAIN fbc /\ fbc'.cursor = fbc.cursor /\ fbc'.session = s
          /\ fbc'.visible = fbc.cursor /\ fbc'.frame = [asked |-> fbc.cursor, session |-> s]
      BY <1>4 DEF FbcInv
    <2>2. fbc'.frame.asked = fbc.cursor /\ fbc'.frame.session = s
      BY <2>1
    <2> QED BY <1>4, <2>1, <2>2 DEF FbcInv, Fbc!GrabsAsAsked
  <1>5. ASSUME fbc' = [fbc EXCEPT !.live = FALSE] PROVE FbcInv'
    <2>1. /\ DOMAIN fbc' = DOMAIN fbc /\ fbc'.cursor = fbc.cursor /\ fbc'.session = fbc.session
          /\ fbc'.visible = fbc.visible /\ fbc'.frame = fbc.frame
      BY <1>5 DEF FbcInv
    <2> QED BY <2>1 DEF FbcInv, Fbc!GrabsAsAsked
  <1>6. ASSUME Convert!Snapshot \/ Fbc!Snapshot \/ Nvenc!Snapshot PROVE FbcInv'
    <2>1. PICK s \in IF fbc.cursor # fbc.visible THEN Fbc!Sessions(fbc.cursor) ELSE {fbc.session} :
            fbc' = IF s = "none" THEN [fbc EXCEPT !.live = FALSE]
                   ELSE [fbc EXCEPT !.visible = fbc.cursor, !.session = s,
                                    !.frame = [asked |-> fbc.cursor, session |-> s]]
      BY <1>6 DEF Convert!Snapshot, Fbc!Snapshot, Nvenc!Snapshot, Convert!Sessions, Fbc!Sessions, Nvenc!Sessions
    <2>2. CASE s = "none"
      BY <2>1, <2>2, <1>5
    <2>3. CASE s # "none"
      <3>1. (s = "cursor") = fbc.cursor
        <4>1. CASE fbc.cursor # fbc.visible
          BY <2>1, <4>1 DEF Fbc!Sessions, FbcInv
        <4>2. CASE fbc.cursor = fbc.visible
          BY <2>1, <2>3, <4>2 DEF FbcInv
        <4> QED BY <4>1, <4>2
      <3> QED BY <2>1, <2>3, <3>1, <1>4
    <2> QED BY <2>2, <2>3
  <1>7. CASE Convert!Next
    <2>1. ASSUME NEW ok,
                 Convert!MakeDevice(ok) \/ Convert!ConvertGl(Convert!Given, ok) \/ Convert!ConvertVulkan(Convert!Given, ok)
          PROVE  FbcInv'
      BY <2>1, <1>0 DEF Convert!MakeDevice, Convert!ConvertGl, Convert!ConvertVulkan, Convert!FbcSame
    <2>2. ASSUME NEW c, Convert!NextImage(c) PROVE FbcInv'
      BY <2>2, <1>0 DEF Convert!NextImage, Convert!FbcSame
    <2>3. ASSUME NEW n, NEW several, Convert!CreateEncoder(n, several) PROVE FbcInv'
      BY <2>3, <1>0 DEF Convert!CreateEncoder, Convert!FbcSame
    <2>4. ASSUME NEW f, Convert!Receive(f) PROVE FbcInv'
      BY <2>4, <1>0 DEF Convert!Receive, Convert!FbcSame
    <2>5. CASE Convert!DropDevice \/ Convert!DestroyEncoder \/ Convert!EncodeFrame \/ Convert!Invalidate
      BY <2>5, <1>0 DEF Convert!DropDevice, Convert!DestroyEncoder, Convert!EncodeFrame, Convert!Invalidate, Convert!FbcSame
    <2>6. CASE Convert!FbcStarts
      BY <2>6, <1>1 DEF Convert!FbcStarts
    <2>7. CASE Convert!FbcEnds
      BY <2>7, <1>2 DEF Convert!FbcEnds
    <2>8. CASE Convert!Toggle
      BY <2>8, <1>3 DEF Convert!Toggle
    <2> QED BY <1>6, <1>7, <2>1, <2>2, <2>3, <2>4, <2>5, <2>6, <2>7, <2>8 DEF Convert!Next
  <1>8. CASE Fbc!Next
    <2>1. ASSUME NEW ok,
                 Fbc!MakeDevice(ok) \/ Fbc!ConvertGl(Fbc!Given, ok) \/ Fbc!ConvertVulkan(Fbc!Given, ok)
          PROVE  FbcInv'
      BY <2>1, <1>0 DEF Fbc!MakeDevice, Fbc!ConvertGl, Fbc!ConvertVulkan, Fbc!FbcSame
    <2>2. ASSUME NEW c, Fbc!NextImage(c) PROVE FbcInv'
      BY <2>2, <1>0 DEF Fbc!NextImage, Fbc!FbcSame
    <2>3. ASSUME NEW n, NEW several, Fbc!CreateEncoder(n, several) PROVE FbcInv'
      BY <2>3, <1>0 DEF Fbc!CreateEncoder, Fbc!FbcSame
    <2>4. ASSUME NEW f, Fbc!Receive(f) PROVE FbcInv'
      BY <2>4, <1>0 DEF Fbc!Receive, Fbc!FbcSame
    <2>5. CASE Fbc!DropDevice \/ Fbc!DestroyEncoder \/ Fbc!EncodeFrame \/ Fbc!Invalidate
      BY <2>5, <1>0 DEF Fbc!DropDevice, Fbc!DestroyEncoder, Fbc!EncodeFrame, Fbc!Invalidate, Fbc!FbcSame
    <2>6. CASE Fbc!FbcStarts
      BY <2>6, <1>1 DEF Fbc!FbcStarts
    <2>7. CASE Fbc!FbcEnds
      BY <2>7, <1>2 DEF Fbc!FbcEnds
    <2>8. CASE Fbc!Toggle
      BY <2>8, <1>3 DEF Fbc!Toggle
    <2> QED BY <1>6, <1>8, <2>1, <2>2, <2>3, <2>4, <2>5, <2>6, <2>7, <2>8 DEF Fbc!Next
  <1>9. CASE Nvenc!Next
    <2>1. ASSUME NEW ok,
                 Nvenc!MakeDevice(ok) \/ Nvenc!ConvertGl(Nvenc!Given, ok) \/ Nvenc!ConvertVulkan(Nvenc!Given, ok)
          PROVE  FbcInv'
      BY <2>1, <1>0 DEF Nvenc!MakeDevice, Nvenc!ConvertGl, Nvenc!ConvertVulkan, Nvenc!FbcSame
    <2>2. ASSUME NEW c, Nvenc!NextImage(c) PROVE FbcInv'
      BY <2>2, <1>0 DEF Nvenc!NextImage, Nvenc!FbcSame
    <2>3. ASSUME NEW n, NEW several, Nvenc!CreateEncoder(n, several) PROVE FbcInv'
      BY <2>3, <1>0 DEF Nvenc!CreateEncoder, Nvenc!FbcSame
    <2>4. ASSUME NEW f, Nvenc!Receive(f) PROVE FbcInv'
      BY <2>4, <1>0 DEF Nvenc!Receive, Nvenc!FbcSame
    <2>5. CASE Nvenc!DropDevice \/ Nvenc!DestroyEncoder \/ Nvenc!EncodeFrame \/ Nvenc!Invalidate
      BY <2>5, <1>0 DEF Nvenc!DropDevice, Nvenc!DestroyEncoder, Nvenc!EncodeFrame, Nvenc!Invalidate, Nvenc!FbcSame
    <2>6. CASE Nvenc!FbcStarts
      BY <2>6, <1>1 DEF Nvenc!FbcStarts
    <2>7. CASE Nvenc!FbcEnds
      BY <2>7, <1>2 DEF Nvenc!FbcEnds
    <2>8. CASE Nvenc!Toggle
      BY <2>8, <1>3 DEF Nvenc!Toggle
    <2> QED BY <1>6, <1>9, <2>1, <2>2, <2>3, <2>4, <2>5, <2>6, <2>7, <2>8 DEF Nvenc!Next
  <1>10. CASE UNCHANGED convertVars
    BY <1>0, <1>10 DEF convertVars
  <1> QED BY <1>7, <1>8, <1>9, <1>10

-----------------------------------------------------------------------------
(* Natural numbers are well-founded: every set of them has a least one.    *)
LEMMA LeastNatural ==
    ASSUME NEW T, T \subseteq Nat, T # {}
    PROVE  \E x \in T : \A y \in T : x <= y
  <1> DEFINE R == {ss \in Nat \X Nat : ss[1] < ss[2]}
  <1>1. IsWellFoundedOn(R, Nat)
    BY NatLessThanWellFounded DEF OpToRel
  <1> HIDE DEF R
  <1>2. PICK x \in T : \A y \in T : ~(<<y, x>> \in R)
    BY <1>1, WFMin
  <1>3. \A y \in T : ~(y < x)
    BY <1>2 DEF R
  <1> QED BY <1>3

(* EncodeSurface: the newest of some frames is one of them.                *)
LEMMA NewestFrame ==
    ASSUME NEW T, NEW n \in Nat, T \subseteq 0 .. n, T # {}
    PROVE  Nvenc!Newest(T) \in T /\ \A y \in T : y <= Nvenc!Newest(T)
  <1> DEFINE D == {k \in Nat : n - k \in T}
  <1>1. D \subseteq Nat /\ D # {}
    <2>1. PICK t \in T : TRUE
      OBVIOUS
    <2>2. n - t \in Nat /\ n - (n - t) = t
      OBVIOUS
    <2> QED BY <2>2
  <1>2. PICK d \in D : \A e \in D : d <= e
    <2> HIDE DEF D
    <2> QED BY <1>1, LeastNatural
  <1>3. n - d \in T
    OBVIOUS
  <1>4. ASSUME NEW y \in T PROVE y <= n - d
    <2>1. y \in 0 .. n
      OBVIOUS
    <2>2. n - y \in Nat /\ n - (n - y) = y
      BY <2>1
    <2>3. n - y \in D
      BY <2>2
    <2> QED BY <1>2, <2>1, <2>3
  <1> QED BY <1>3, <1>4 DEF Nvenc!Newest

-----------------------------------------------------------------------------
(* EncodeSurface, NVENC.  A frame of the encoder refers to the newest one  *)
(* it may use, so that a client that could decode a frame could decode     *)
(* every usable one before it; what is used after an invalidation is       *)
(* what the client said it has.                                            *)
NvencTypes ==
    /\ DOMAIN convertEnc = {"live", "made", "dpb", "rfi", "last", "known", "valid", "ref", "kind"}
    /\ convertEnc.made \in Nat /\ convertEnc.dpb \in Nat \ {0}
    /\ convertEnc.last \in Nat /\ convertEnc.known \in 0 .. convertEnc.last
    /\ convertEnc.valid \subseteq 1 .. convertEnc.known
    /\ DOMAIN convertEnc.kind = DOMAIN convertEnc.ref
    /\ \A y \in 1 .. convertEnc.last : y \in DOMAIN convertEnc.ref
    /\ \A y \in DOMAIN convertEnc.ref : convertEnc.ref[y] \in Nat
    /\ DOMAIN rfi = {"first", "last", "confirm", "idr"} /\ rfi.confirm \in BOOLEAN /\ rfi.idr \in BOOLEAN
    /\ viewer.seen \in 0 .. convertEnc.last /\ viewer.decoded \subseteq 1 .. viewer.seen
    /\ asked # <<>> => asked[1] \in Nat
RefsKept ==
    /\ \A v \in Nvenc!Usable, y \in viewer.decoded : v <= y => v \in viewer.decoded
    /\ \A v \in Nvenc!Usable, y \in 1 .. convertEnc.last : v < y => convertEnc.ref[y] >= v
    /\ rfi.confirm /\ ~rfi.idr => Nvenc!Usable \subseteq viewer.decoded
    /\ asked # <<>> => asked[1] = 1 \/ asked[1] - 1 \in viewer.decoded
    /\ \A y \in DOMAIN convertEnc.ref : convertEnc.kind[y] = "rfi"
            => convertEnc.ref[y] = 0 \/ convertEnc.ref[y] \in viewer.decoded
NvencInv ==
    /\ NvencTypes /\ RefsKept
    /\ focus # "nvenc" => ~convertEnc.live
    /\ focus = "nvenc" => DOMAIN convertEnc.ref = 1 .. NvencFrames

LEMMA NvencStart ==
    ASSUME IF focus = "fbc" THEN Fbc!Init ELSE IF focus = "nvenc" THEN Nvenc!Init ELSE Convert!Init
    PROVE  NvencInv
  <1>1. PICK none, plain : /\ \A y \in DOMAIN none : none[y] = 0 /\ plain[y] = "none"
                           /\ DOMAIN plain = DOMAIN none
                           /\ focus = "nvenc" => DOMAIN none = 1 .. NvencFrames
                           /\ convertEnc = [live |-> FALSE, made |-> 0, dpb |-> 1, rfi |-> FALSE, last |-> 0,
                                            known |-> 0, valid |-> {}, ref |-> none, kind |-> plain]
    <2>1. CASE Convert!Init /\ focus # "nvenc"
      BY <2>1 DEF Convert!Init
    <2>2. CASE Fbc!Init /\ focus # "nvenc"
      BY <2>2 DEF Fbc!Init
    <2>3. CASE Nvenc!Init
      BY <2>3 DEF Nvenc!Init
    <2> QED BY <2>1, <2>2, <2>3
  <1>2. /\ rfi = [first |-> 0, last |-> 0, confirm |-> FALSE, idr |-> TRUE] /\ asked = <<>>
        /\ viewer = [decoded |-> {}, seen |-> 0]
    BY DEF Convert!Init, Fbc!Init, Nvenc!Init
  <1>3. /\ DOMAIN convertEnc = {"live", "made", "dpb", "rfi", "last", "known", "valid", "ref", "kind"}
        /\ convertEnc.live = FALSE /\ convertEnc.made = 0 /\ convertEnc.dpb = 1 /\ convertEnc.last = 0
        /\ convertEnc.known = 0 /\ convertEnc.valid = {} /\ convertEnc.ref = none /\ convertEnc.kind = plain
    BY <1>1
  <1>4. /\ DOMAIN rfi = {"first", "last", "confirm", "idr"} /\ rfi.confirm = FALSE /\ rfi.idr = TRUE
        /\ viewer.decoded = {} /\ viewer.seen = 0
    BY <1>2
  <1>5. Nvenc!Usable = {}
    BY <1>3 DEF Nvenc!Usable
  <1>6. NvencTypes
    BY <1>1, <1>2, <1>3, <1>4 DEF NvencTypes
  <1>7. RefsKept
    BY <1>1, <1>2, <1>3, <1>4, <1>5 DEF RefsKept
  <1> QED BY <1>1, <1>3, <1>6, <1>7 DEF NvencInv

(* The newest usable frame is usable, and no other one is newer.           *)
LEMMA NewestUsable ==
    ASSUME NvencTypes, Nvenc!Usable # {}
    PROVE  /\ Nvenc!Newest(Nvenc!Usable) \in Nvenc!Usable
           /\ \A v \in Nvenc!Usable : v <= Nvenc!Newest(Nvenc!Usable)
  <1>1. PICK s, n : s = Nvenc!Usable /\ n = convertEnc.last
    OBVIOUS
  <1>2. n \in Nat /\ s \subseteq 0 .. n /\ s # {}
    BY <1>1 DEF NvencTypes, Nvenc!Usable
  <1>3. Nvenc!Newest(s) \in s /\ \A y \in s : y <= Nvenc!Newest(s)
    BY <1>2, NewestFrame
  <1> QED BY <1>1, <1>3

LEMMA NewEncoderKept ==
    ASSUME NvencInv, focus = "nvenc", focus' = focus, NEW requested \in {0, 2}, NEW several \in BOOLEAN,
           Nvenc!CreateEncoder(requested, several)
    PROVE  NvencInv'
  <1>1. PICK d, c : d \in Nat \ {0} /\ d = Nvenc!References(requested, several).dpb
                    /\ c = Nvenc!References(requested, several).rfi
    <2>1. PICK n : n = IF requested > 0 THEN requested ELSE 4
      OBVIOUS
    <2>2. n \in Nat \ {0}
      BY <2>1
    <2>3. Nvenc!References(requested, several)
            = IF several THEN [dpb |-> n, rfi |-> TRUE] ELSE [dpb |-> 1, rfi |-> FALSE]
      BY <2>1 DEF Nvenc!References
    <2>4. Nvenc!References(requested, several).dpb \in Nat \ {0}
      BY <2>2, <2>3
    <2> QED BY <2>4
  <1>2. convertEnc' = [convertEnc EXCEPT !.live = TRUE, !.made = @ + 1, !.known = 0, !.valid = {},
                                         !.dpb = d, !.rfi = c]
    BY <1>1 DEF Nvenc!CreateEncoder
  <1>3. /\ DOMAIN convertEnc' = DOMAIN convertEnc /\ convertEnc'.made = convertEnc.made + 1
        /\ convertEnc'.dpb = d /\ convertEnc'.known = 0 /\ convertEnc'.valid = {}
        /\ convertEnc'.last = convertEnc.last /\ convertEnc'.ref = convertEnc.ref
        /\ convertEnc'.kind = convertEnc.kind
    BY <1>2 DEF NvencInv, NvencTypes
  <1>4. /\ DOMAIN rfi' = {"first", "last", "confirm", "idr"} /\ rfi'.confirm = FALSE /\ rfi'.idr = TRUE
        /\ UNCHANGED <<asked, viewer>>
    BY DEF Nvenc!CreateEncoder
  <1>5. Nvenc!Usable' = {}
    BY <1>3 DEF Nvenc!Usable
  <1>6. NvencTypes'
    <2>1. NvencTypes
      BY DEF NvencInv
    <2>2. convertEnc'.known \in 0 .. convertEnc'.last /\ convertEnc'.valid \subseteq 1 .. convertEnc'.known
      BY <2>1, <1>3 DEF NvencTypes
    <2>3. convertEnc'.made \in Nat /\ convertEnc'.last \in Nat /\ convertEnc'.dpb \in Nat \ {0}
      BY <2>1, <1>1, <1>3 DEF NvencTypes
    <2>4. rfi'.confirm \in BOOLEAN /\ rfi'.idr \in BOOLEAN
      BY <1>4
    <2>5. viewer'.seen \in 0 .. convertEnc'.last /\ viewer'.decoded \subseteq 1 .. viewer'.seen
      BY <2>1, <1>3, <1>4 DEF NvencTypes
    <2> QED BY <2>1, <2>2, <2>3, <2>4, <2>5, <1>3, <1>4 DEF NvencTypes
  <1>7. RefsKept'
    BY <1>3, <1>4, <1>5 DEF NvencInv, NvencTypes, RefsKept
  <1> QED BY <1>3, <1>6, <1>7 DEF NvencInv

LEMMA LastEncoderKept ==
    ASSUME NvencInv, focus' = focus, Nvenc!DestroyEncoder
    PROVE  NvencInv'
  <1>1. convertEnc' = [convertEnc EXCEPT !.live = FALSE, !.valid = {}] /\ UNCHANGED <<rfi, asked, viewer>>
    BY DEF Nvenc!DestroyEncoder
  <1>2. /\ DOMAIN convertEnc' = DOMAIN convertEnc /\ convertEnc'.made = convertEnc.made
        /\ convertEnc'.dpb = convertEnc.dpb /\ convertEnc'.known = convertEnc.known
        /\ convertEnc'.valid = {} /\ convertEnc'.live = FALSE
        /\ convertEnc'.last = convertEnc.last /\ convertEnc'.ref = convertEnc.ref
        /\ convertEnc'.kind = convertEnc.kind
    BY <1>1 DEF NvencInv, NvencTypes
  <1>3. Nvenc!Usable' = {}
    BY <1>2 DEF Nvenc!Usable
  <1>4. NvencTypes'
    BY <1>1, <1>2 DEF NvencInv, NvencTypes
  <1>5. RefsKept'
    BY <1>1, <1>2, <1>3 DEF NvencInv, NvencTypes, RefsKept
  <1> QED BY <1>2, <1>4, <1>5 DEF NvencInv

LEMMA EncodedKept ==
    ASSUME NvencInv, focus = "nvenc", focus' = focus, Nvenc!EncodeFrame
    PROVE  NvencInv'
  <1>1. NvencTypes /\ RefsKept
    BY DEF NvencInv
  <1>2. PICK f, r, k, held, allowed :
            /\ f = convertEnc.last + 1 /\ allowed = Nvenc!Usable
            /\ r = (IF rfi.idr \/ Nvenc!Usable = {} THEN 0 ELSE Nvenc!Newest(Nvenc!Usable))
            /\ k = (IF rfi.idr THEN "idr" ELSE IF rfi.confirm THEN "rfi" ELSE "plain")
            /\ held = ((IF rfi.idr THEN {} ELSE convertEnc.valid) \cup {f})
    OBVIOUS
  <1>3. PICK refs, kinds : refs = [convertEnc.ref EXCEPT ![f] = r] /\ kinds = [convertEnc.kind EXCEPT ![f] = k]
    OBVIOUS
  <1>4. convertEnc' = [convertEnc EXCEPT !.last = f, !.known = f, !.valid = held, !.ref = refs, !.kind = kinds]
    BY <1>1, <1>2, <1>3 DEF Nvenc!EncodeFrame, NvencTypes
  <1>5. /\ DOMAIN convertEnc' = DOMAIN convertEnc /\ convertEnc'.made = convertEnc.made
        /\ convertEnc'.dpb = convertEnc.dpb /\ convertEnc'.known = f
        /\ convertEnc'.valid = held /\ convertEnc'.live = convertEnc.live
        /\ convertEnc'.last = f /\ convertEnc'.ref = refs /\ convertEnc'.kind = kinds
    BY <1>1, <1>4 DEF NvencTypes
  <1>6. /\ DOMAIN rfi' = DOMAIN rfi /\ rfi'.confirm = FALSE /\ rfi'.idr = FALSE
        /\ UNCHANGED <<asked, viewer>>
    BY <1>1 DEF Nvenc!EncodeFrame, NvencTypes
  <1>7. f \in DOMAIN convertEnc.ref /\ f \in Nat \ {0}
    <2>1. convertEnc.last \in Nat /\ f = convertEnc.last + 1 /\ convertEnc.last < NvencFrames
      BY <1>1, <1>2 DEF Nvenc!EncodeFrame, NvencTypes
    <2>2. f \in 1 .. NvencFrames
      BY <2>1, FramesAssumption
    <2>3. DOMAIN convertEnc.ref = 1 .. NvencFrames
      BY DEF NvencInv
    <2>4. f \in Nat \ {0}
      BY <2>1
    <2> QED BY <2>2, <2>3, <2>4
  <1>8. /\ DOMAIN refs = DOMAIN convertEnc.ref /\ DOMAIN kinds = DOMAIN convertEnc.ref
        /\ refs[f] = r /\ kinds[f] = k
        /\ \A y \in DOMAIN convertEnc.ref : y # f => refs[y] = convertEnc.ref[y] /\ kinds[y] = convertEnc.kind[y]
    BY <1>1, <1>3, <1>7 DEF NvencTypes
  <1>9. r \in Nat /\ \A v \in allowed : ~rfi.idr => v <= r /\ r \in allowed
    <2>1. allowed \subseteq Nat
      BY <1>1, <1>2 DEF NvencTypes, Nvenc!Usable
    <2>2. CASE rfi.idr \/ allowed = {}
      BY <1>2, <2>2
    <2>3. CASE ~rfi.idr /\ allowed # {}
      <3>1. r = Nvenc!Newest(Nvenc!Usable)
        BY <1>2, <2>3
      <3>2. r \in allowed /\ \A v \in allowed : v <= r
        BY <1>1, <1>2, <2>3, <3>1, NewestUsable
      <3> QED BY <2>1, <3>2
    <2> QED BY <2>2, <2>3
  <1>10. \A v \in Nvenc!Usable' : v = f \/ (v \in allowed /\ ~rfi.idr)
    BY <1>1, <1>2, <1>5, <1>7 DEF NvencTypes, Nvenc!Usable
  <1>11. NvencTypes'
    <2>1. convertEnc'.made \in Nat /\ convertEnc'.dpb \in Nat \ {0} /\ convertEnc'.last \in Nat
      BY <1>1, <1>5, <1>7 DEF NvencTypes
    <2>2. convertEnc'.known \in 0 .. convertEnc'.last /\ convertEnc'.valid \subseteq 1 .. convertEnc'.known
      BY <1>1, <1>2, <1>5, <1>7 DEF NvencTypes
    <2>3. \A y \in 1 .. convertEnc'.last : y \in DOMAIN convertEnc'.ref
      BY <1>1, <1>2, <1>5, <1>7, <1>8 DEF NvencTypes
    <2>4. \A y \in DOMAIN convertEnc'.ref : convertEnc'.ref[y] \in Nat
      BY <1>1, <1>5, <1>8, <1>9 DEF NvencTypes
    <2>5. rfi'.confirm \in BOOLEAN /\ rfi'.idr \in BOOLEAN
      BY <1>6
    <2>6. viewer'.seen \in 0 .. convertEnc'.last /\ viewer'.decoded \subseteq 1 .. viewer'.seen
      BY <1>1, <1>2, <1>5, <1>6 DEF NvencTypes
    <2>7. asked' # <<>> => asked'[1] \in Nat
      BY <1>1, <1>6 DEF NvencTypes
    <2> QED BY <1>1, <1>5, <1>6, <1>8, <2>1, <2>2, <2>3, <2>4, <2>5, <2>6, <2>7 DEF NvencTypes
  <1>12. \A v \in Nvenc!Usable', y \in viewer'.decoded : v <= y => v \in viewer'.decoded
    BY <1>1, <1>2, <1>6, <1>10 DEF NvencTypes, RefsKept
  <1>13. \A v \in Nvenc!Usable', y \in 1 .. convertEnc'.last : v < y => convertEnc'.ref[y] >= v
    <2> SUFFICES ASSUME NEW v \in Nvenc!Usable', NEW y \in 1 .. f, v < y PROVE refs[y] >= v
      BY <1>5
    <2>1. v # f /\ v \in allowed /\ ~rfi.idr
      BY <1>7, <1>10
    <2>2. CASE y = f
      BY <1>1, <1>2, <1>8, <1>9, <2>1, <2>2 DEF NvencTypes, Nvenc!Usable
    <2>3. CASE y # f
      <3>1. y \in 1 .. convertEnc.last /\ y \in DOMAIN convertEnc.ref
        BY <1>1, <1>2, <2>3 DEF NvencTypes
      <3> QED BY <1>1, <1>2, <1>8, <2>1, <2>3, <3>1 DEF RefsKept
    <2> QED BY <2>2, <2>3
  <1>14. \A y \in DOMAIN convertEnc'.ref : convertEnc'.kind[y] = "rfi"
            => convertEnc'.ref[y] = 0 \/ convertEnc'.ref[y] \in viewer'.decoded
    <2> SUFFICES ASSUME NEW y \in DOMAIN convertEnc.ref, kinds[y] = "rfi"
                 PROVE  refs[y] = 0 \/ refs[y] \in viewer.decoded
      BY <1>5, <1>6, <1>8
    <2>1. CASE y = f
      <3>1. ~rfi.idr /\ rfi.confirm
        BY <1>2, <1>8, <2>1
      <3>2. CASE allowed = {}
        BY <1>2, <1>8, <2>1, <3>2
      <3>3. CASE allowed # {}
        BY <1>1, <1>2, <1>8, <1>9, <2>1, <3>1, <3>3 DEF RefsKept
      <3> QED BY <3>2, <3>3
    <2>2. CASE y # f
      BY <1>1, <1>8, <2>2 DEF RefsKept
    <2> QED BY <2>1, <2>2
  <1>15. RefsKept'
    BY <1>1, <1>6, <1>12, <1>13, <1>14 DEF RefsKept
  <1>16. DOMAIN convertEnc'.ref = 1 .. NvencFrames
    BY <1>5, <1>8 DEF NvencInv
  <1> QED BY <1>11, <1>15, <1>16 DEF NvencInv

(* What is invalidated begins after a frame the client has, or with the   *)
(* first one.                                                              *)
LEMMA InvalidatedKept ==
    ASSUME NvencInv, focus = "nvenc", focus' = focus, Nvenc!Invalidate
    PROVE  NvencInv'
  <1>1. NvencTypes /\ RefsKept
    BY DEF NvencInv
  <1>2. asked # <<>> /\ asked' = <<>> /\ viewer' = viewer
    BY DEF Nvenc!Invalidate
  <1> DEFINE Same == /\ DOMAIN convertEnc' = DOMAIN convertEnc /\ convertEnc'.made = convertEnc.made
                     /\ convertEnc'.dpb = convertEnc.dpb /\ convertEnc'.known = convertEnc.known
                     /\ convertEnc'.valid = convertEnc.valid /\ convertEnc'.live = convertEnc.live
                     /\ convertEnc'.last = convertEnc.last /\ convertEnc'.ref = convertEnc.ref
                     /\ convertEnc'.kind = convertEnc.kind
  <1>3. ASSUME Same, DOMAIN rfi' = DOMAIN rfi, rfi'.confirm \in BOOLEAN, rfi'.idr = TRUE
        PROVE  NvencInv'
    <2>1. NvencTypes'
      BY <1>1, <1>2, <1>3 DEF NvencTypes
    <2>2. Nvenc!Usable' = Nvenc!Usable
      BY <1>3 DEF Nvenc!Usable
    <2>3. RefsKept'
      BY <1>1, <1>2, <1>3, <2>2 DEF RefsKept
    <2> QED BY <1>3, <2>1, <2>3 DEF NvencInv
  <1>4. CASE ~convertEnc.rfi
    <2>1. rfi' = [rfi EXCEPT !.idr = TRUE] /\ UNCHANGED convertEnc
      BY <1>4 DEF Nvenc!Invalidate
    <2> QED BY <1>1, <1>3, <2>1 DEF NvencTypes
  <1>5. CASE convertEnc.rfi /\ Nvenc!Covered(asked)
    <2>1. UNCHANGED <<convertEnc, rfi>>
      BY <1>5 DEF Nvenc!Invalidate
    <2>2. NvencTypes'
      BY <1>1, <1>2, <2>1 DEF NvencTypes
    <2>3. Nvenc!Usable' = Nvenc!Usable
      BY <2>1 DEF Nvenc!Usable
    <2>4. RefsKept'
      BY <1>1, <1>2, <2>1, <2>3 DEF RefsKept
    <2> QED BY <2>1, <2>2, <2>4 DEF NvencInv
  <1>6. CASE convertEnc.rfi /\ ~Nvenc!Covered(asked) /\ asked[2] < asked[1]
    <2>1. rfi' = [rfi EXCEPT !.confirm = TRUE, !.idr = TRUE] /\ UNCHANGED convertEnc
      BY <1>6 DEF Nvenc!Invalidate
    <2> QED BY <1>1, <1>3, <2>1 DEF NvencTypes
  <1>7. CASE convertEnc.rfi /\ ~Nvenc!Covered(asked) /\ ~(asked[2] < asked[1])
    <2>1. PICK a, n, still : /\ a = asked[1] /\ n = convertEnc.known
                             /\ still = (n >= a - 1 /\ n - a + 1 < convertEnc.dpb)
      OBVIOUS
    <2>2. PICK left, forced : left = convertEnc.valid \ (a .. n) /\ forced = (rfi.idr \/ ~still)
      OBVIOUS
    <2>3. /\ rfi' = [first |-> a, last |-> n, confirm |-> TRUE, idr |-> forced]
          /\ convertEnc' = [convertEnc EXCEPT !.valid = IF still THEN left ELSE @]
      BY <1>7, <2>1, <2>2 DEF Nvenc!Invalidate, Nvenc!LastInvalid
    <2>4. /\ DOMAIN rfi' = DOMAIN rfi /\ rfi'.confirm = TRUE /\ rfi'.idr = forced
      BY <1>1, <2>3 DEF NvencTypes
    <2>5. CASE ~still
      <3>1. Same
        BY <1>1, <2>3, <2>5 DEF NvencTypes
      <3>2. forced = TRUE
        BY <2>2, <2>5
      <3> QED BY <1>3, <2>4, <3>1, <3>2
    <2>6. CASE still
      <3>1. /\ DOMAIN convertEnc' = DOMAIN convertEnc /\ convertEnc'.made = convertEnc.made
            /\ convertEnc'.dpb = convertEnc.dpb /\ convertEnc'.known = n
            /\ convertEnc'.valid = left /\ convertEnc'.live = convertEnc.live
            /\ convertEnc'.last = convertEnc.last /\ convertEnc'.ref = convertEnc.ref
            /\ convertEnc'.kind = convertEnc.kind
        BY <1>1, <2>1, <2>3, <2>6 DEF NvencTypes
      <3>2. NvencTypes'
        BY <1>1, <1>2, <2>1, <2>2, <2>4, <3>1 DEF NvencTypes
      <3>3. Nvenc!Usable' \subseteq Nvenc!Usable
        BY <2>2, <3>1 DEF Nvenc!Usable
      <3>4. Nvenc!Usable' \subseteq viewer.decoded
        <4> SUFFICES ASSUME NEW v \in Nvenc!Usable' PROVE v \in viewer.decoded
          OBVIOUS
        <4>1. v \in Nvenc!Usable /\ v \in left /\ v \in 1 .. n /\ a \in Nat
          BY <1>1, <1>2, <2>1, <2>2, <3>1, <3>3 DEF Nvenc!Usable, NvencTypes
        <4>2. v < a /\ v >= 1
          BY <4>1, <2>1, <2>2, <1>1 DEF NvencTypes
        <4>3. a - 1 \in viewer.decoded /\ v <= a - 1
          BY <1>1, <1>2, <2>1, <4>1, <4>2 DEF RefsKept
        <4> QED BY <1>1, <4>1, <4>3 DEF RefsKept
      <3>5. RefsKept'
        BY <1>1, <1>2, <2>4, <3>1, <3>3, <3>4 DEF RefsKept
      <3> QED BY <3>1, <3>2, <3>5 DEF NvencInv
    <2> QED BY <2>1, <2>5, <2>6
  <1> QED BY <1>4, <1>5, <1>6, <1>7

LEMMA ReceivedKept ==
    ASSUME NvencInv, focus' = focus, NEW f, Nvenc!Receive(f)
    PROVE  NvencInv'
  <1>1. NvencTypes /\ RefsKept
    BY DEF NvencInv
  <1>2. /\ UNCHANGED <<convertEnc, rfi>> /\ f \in 1 .. convertEnc.last /\ f > viewer.seen
        /\ f \in DOMAIN convertEnc.ref
    BY <1>1 DEF Nvenc!Receive, NvencTypes
  <1>3. viewer'.seen = f
    BY DEF Nvenc!Receive
  <1>4. Nvenc!Usable' = Nvenc!Usable
    BY <1>2 DEF Nvenc!Usable
  <1>5. CASE Nvenc!Decodes(f)
    <2>1. viewer'.decoded = viewer.decoded \cup {f} /\ asked' = asked
      BY <1>5 DEF Nvenc!Receive
    <2>2. NvencTypes'
      BY <1>1, <1>2, <1>3, <2>1 DEF NvencTypes
    <2>3. \A v \in Nvenc!Usable, y \in viewer'.decoded : v <= y => v \in viewer'.decoded
      <3> SUFFICES ASSUME NEW v \in Nvenc!Usable, v < f PROVE v \in viewer.decoded
        BY <1>1, <1>2, <2>1 DEF RefsKept, NvencTypes, Nvenc!Usable
      <3>1. convertEnc.ref[f] >= v /\ v \in Nat \ {0}
        BY <1>1, <1>2 DEF RefsKept, NvencTypes, Nvenc!Usable
      <3>2. convertEnc.ref[f] \in viewer.decoded
        BY <1>1, <1>2, <1>5, <3>1 DEF Nvenc!Decodes, NvencTypes
      <3> QED BY <1>1, <3>1, <3>2 DEF RefsKept, NvencTypes
    <2>4. RefsKept'
      BY <1>1, <1>2, <1>4, <2>1, <2>3 DEF RefsKept
    <2> QED BY <1>2, <2>2, <2>4 DEF NvencInv
  <1>6. CASE ~Nvenc!Decodes(f)
    <2>1. viewer'.decoded = viewer.decoded
      BY <1>6 DEF Nvenc!Receive
    <2>2. PICK s : s = viewer.decoded
      OBVIOUS
    <2>3. asked' = <<(IF s = {} THEN 0 ELSE Nvenc!Newest(s)) + 1, f>>
      BY <1>6, <2>2 DEF Nvenc!Receive
    <2>4. asked'[1] = 1 \/ (asked'[1] \in Nat /\ asked'[1] - 1 \in viewer.decoded)
      <3>1. CASE s = {}
        BY <2>3, <3>1
      <3>2. CASE s # {}
        <4>1. PICK n : n = viewer.seen
          OBVIOUS
        <4>2. n \in Nat /\ s \subseteq 0 .. n
          BY <1>1, <2>2, <4>1 DEF NvencTypes
        <4>3. Nvenc!Newest(s) \in s
          BY <3>2, <4>2, NewestFrame
        <4> QED BY <2>2, <2>3, <3>2, <4>2, <4>3
      <3> QED BY <3>1, <3>2
    <2>5. NvencTypes'
      BY <1>1, <1>2, <1>3, <2>1, <2>4 DEF NvencTypes
    <2>6. RefsKept'
      BY <1>1, <1>2, <1>4, <2>1, <2>4 DEF RefsKept
    <2> QED BY <1>2, <2>5, <2>6 DEF NvencInv
  <1> QED BY <1>5, <1>6

(* What a frame that confirms refers to is decoded, so that it is itself.  *)
LEMMA ConfirmedDecodes ==
    ASSUME NvencInv
    PROVE  [\A f \in 1 .. NvencFrames : Nvenc!Receive(f) /\ convertEnc.kind[f] = "rfi"
               => f \in viewer'.decoded]_(Nvenc!encodeVars)
  <1> SUFFICES ASSUME NEW f, Nvenc!Receive(f), convertEnc.kind[f] = "rfi" PROVE f \in viewer'.decoded
    OBVIOUS
  <1>1. NvencTypes /\ RefsKept
    BY DEF NvencInv
  <1>2. f \in 1 .. convertEnc.last /\ f \in DOMAIN convertEnc.ref
    BY <1>1 DEF Nvenc!Receive, NvencTypes
  <1>3. Nvenc!Decodes(f)
    BY <1>1, <1>2 DEF RefsKept, Nvenc!Decodes
  <1> QED BY <1>3 DEF Nvenc!Receive

LEMMA NvencStep ==
    ASSUME NvencInv, focus' = focus,
           \/ focus = "convert" /\ Convert!Next
           \/ focus = "fbc" /\ Fbc!Next
           \/ focus = "nvenc" /\ Nvenc!Next
           \/ UNCHANGED convertVars
    PROVE  NvencInv'
  <1>0. ASSUME UNCHANGED <<convertEnc, rfi, asked, viewer>> PROVE NvencInv'
    BY <1>0 DEF NvencInv, NvencTypes, RefsKept, Nvenc!Usable
  <1>1. CASE focus = "convert" /\ Convert!Next
    <2>1. ~convertEnc.live /\ convertEnc.made \in Nat /\ convertEnc.last \in Nat
      BY <1>1 DEF NvencInv, NvencTypes
    <2>2. ASSUME NEW ok,
                 Convert!MakeDevice(ok) \/ Convert!ConvertGl(Convert!Given, ok) \/ Convert!ConvertVulkan(Convert!Given, ok)
          PROVE  NvencInv'
      BY <2>2, <1>0 DEF Convert!MakeDevice, Convert!ConvertGl, Convert!ConvertVulkan, Convert!NvencSame
    <2>3. ASSUME NEW c, Convert!NextImage(c) PROVE NvencInv'
      BY <2>3, <1>0 DEF Convert!NextImage, Convert!NvencSame
    <2>4. ASSUME NEW n, NEW several, Convert!CreateEncoder(n, several) PROVE FALSE
      BY <2>1, <2>4 DEF Convert!CreateEncoder
    <2>5. ~(Convert!DestroyEncoder \/ Convert!EncodeFrame \/ Convert!Invalidate)
      BY <2>1 DEF Convert!DestroyEncoder, Convert!EncodeFrame, Convert!Invalidate
    <2>6. CASE Convert!DropDevice \/ Convert!FbcStarts \/ Convert!Snapshot \/ Convert!FbcEnds \/ Convert!Toggle
      BY <2>6, <1>0 DEF Convert!DropDevice, Convert!FbcStarts, Convert!Snapshot, Convert!FbcEnds, Convert!Toggle, Convert!NvencSame
    <2> QED BY <1>1, <2>2, <2>3, <2>4, <2>5, <2>6 DEF Convert!Next
  <1>2. CASE focus = "fbc" /\ Fbc!Next
    <2>1. ~convertEnc.live /\ convertEnc.made \in Nat /\ convertEnc.last \in Nat
      BY <1>2 DEF NvencInv, NvencTypes
    <2>2. ASSUME NEW ok,
                 Fbc!MakeDevice(ok) \/ Fbc!ConvertGl(Fbc!Given, ok) \/ Fbc!ConvertVulkan(Fbc!Given, ok)
          PROVE  NvencInv'
      BY <2>2, <1>0 DEF Fbc!MakeDevice, Fbc!ConvertGl, Fbc!ConvertVulkan, Fbc!NvencSame
    <2>3. ASSUME NEW c, Fbc!NextImage(c) PROVE NvencInv'
      BY <2>3, <1>0 DEF Fbc!NextImage, Fbc!NvencSame
    <2>4. ASSUME NEW n, NEW several, Fbc!CreateEncoder(n, several) PROVE FALSE
      BY <2>1, <2>4 DEF Fbc!CreateEncoder
    <2>5. ~(Fbc!DestroyEncoder \/ Fbc!EncodeFrame \/ Fbc!Invalidate)
      BY <2>1 DEF Fbc!DestroyEncoder, Fbc!EncodeFrame, Fbc!Invalidate
    <2>6. CASE Fbc!DropDevice \/ Fbc!FbcStarts \/ Fbc!Snapshot \/ Fbc!FbcEnds \/ Fbc!Toggle
      BY <2>6, <1>0 DEF Fbc!DropDevice, Fbc!FbcStarts, Fbc!Snapshot, Fbc!FbcEnds, Fbc!Toggle, Fbc!NvencSame
    <2> QED BY <1>2, <2>2, <2>3, <2>4, <2>5, <2>6 DEF Fbc!Next
  <1>3. CASE focus = "nvenc" /\ Nvenc!Next
    <2>1. ASSUME NEW ok,
                 Nvenc!MakeDevice(ok) \/ Nvenc!ConvertGl(Nvenc!Given, ok) \/ Nvenc!ConvertVulkan(Nvenc!Given, ok)
          PROVE  NvencInv'
      BY <2>1, <1>0 DEF Nvenc!MakeDevice, Nvenc!ConvertGl, Nvenc!ConvertVulkan, Nvenc!NvencSame
    <2>2. ASSUME NEW c, Nvenc!NextImage(c) PROVE NvencInv'
      BY <2>2, <1>0 DEF Nvenc!NextImage, Nvenc!NvencSame
    <2>3. CASE Nvenc!DropDevice \/ Nvenc!FbcStarts \/ Nvenc!Snapshot \/ Nvenc!FbcEnds \/ Nvenc!Toggle
      BY <2>3, <1>0 DEF Nvenc!DropDevice, Nvenc!FbcStarts, Nvenc!Snapshot, Nvenc!FbcEnds, Nvenc!Toggle, Nvenc!NvencSame
    <2>4. ASSUME NEW n \in {0, 2}, NEW several \in BOOLEAN, Nvenc!CreateEncoder(n, several) PROVE NvencInv'
      <3>1. PICK m, s : m = n /\ s = several
        OBVIOUS
      <3> QED BY <1>3, <2>4, <3>1, NewEncoderKept
    <2>5. ASSUME NEW f, Nvenc!Receive(f) PROVE NvencInv'
      BY <2>5, ReceivedKept
    <2>6. CASE Nvenc!DestroyEncoder \/ Nvenc!EncodeFrame \/ Nvenc!Invalidate
      BY <1>3, <2>6, LastEncoderKept, EncodedKept, InvalidatedKept
    <2> QED BY <1>3, <2>1, <2>2, <2>3, <2>4, <2>5, <2>6 DEF Nvenc!Next
  <1>4. CASE UNCHANGED convertVars
    BY <1>0, <1>4 DEF convertVars
  <1> QED BY <1>1, <1>2, <1>3, <1>4

-----------------------------------------------------------------------------
FramesInv == DescriptorInv /\ DxgiInv /\ ConvertInv /\ FbcInv /\ NvencInv

LEMMA FramesStart == ASSUME Start PROVE FramesInv
  <1>1. /\ Wlr!Init \/ WlrStart!Init
        /\ Dxgi!Init
        /\ IF focus = "fbc" THEN Fbc!Init ELSE IF focus = "nvenc" THEN Nvenc!Init ELSE Convert!Init
    BY DEF Start
  <1>2. Convert!Init \/ Fbc!Init \/ Nvenc!Init
    BY <1>1
  <1> QED BY <1>1, <1>2, WlrOwnedStart, DxgiStart, ConvertStart, FbcStart, NvencStart DEF FramesInv

LEMMA FramesStepped == ASSUME FramesInv, [Steps]_allVars PROVE FramesInv'
  BY ComponentSteps, DescriptorStep, DxgiStep, ConvertStep, FbcStep, NvencStep DEF FramesInv

(* From the capture to the client nothing is written over or left behind:  *)
(* a descriptor has one owner (wayland.cpp, wlgrab.cpp), a texture that    *)
(* waits for the encoder is not touched (display_wgc.cpp), a converted     *)
(* surface shows the image it was converted from (graphics.cpp, vaapi.cpp, *)
(* vulkan_encode.cpp), NvFBC grabs with the cursor as it was asked         *)
(* (cuda.cpp), and a frame that confirms an invalidated reference can be   *)
(* decoded (nvenc_base.cpp).                                               *)
THEOREM FramesAreWhole == SuiteSpec => FramesStayWhole
  <1>1. Start => FramesInv
    BY FramesStart
  <1>2. FramesInv /\ [Steps]_allVars => FramesInv'
    BY FramesStepped
  <1>3. FramesInv => Wlr!DescriptorsAreOwned /\ Fbc!GrabsAsAsked
    BY DescriptorsOwned DEF FramesInv, FbcInv
  <1>4. FramesInv /\ [Steps]_allVars =>
          [\A i \in DxgiImages :
              i \in {slot, dxgiEnc} /\ i \in {slot', dxgiEnc'} => img'[i] = img[i]]_(Dxgi!dxgiVars)
    BY ComponentSteps, DxgiHolds DEF FramesInv
  <1>5. FramesInv =>
          [\A ok \in BOOLEAN : (Convert!ConvertGl(Convert!Given, ok) \/ Convert!ConvertVulkan(Convert!Given, ok))
                                 /\ device' = "ready"
             => target' = [image |-> Convert!Given.sequence, cursor |-> Convert!Given.cursor]]_(Convert!encodeVars)
    BY ConvertShows DEF FramesInv
  <1>6. FramesInv =>
          [\A f \in 1 .. NvencFrames : Nvenc!Receive(f) /\ convertEnc.kind[f] = "rfi"
             => f \in viewer'.decoded]_(Nvenc!encodeVars)
    BY ConfirmedDecodes DEF FramesInv
  <1> QED BY <1>1, <1>2, <1>3, <1>4, <1>5, <1>6, PTL
     DEF SuiteSpec, FramesStayWhole, Dxgi!HeldImageIsStable, Convert!ShowsTheImage, Nvenc!ConfirmedIsDecodable
-----------------------------------------------------------------------------
(* Touch and pen. *)

HoldTypes ==
    /\ touchHeld \in BOOLEAN /\ penHeld \in BOOLEAN /\ offered \in BOOLEAN
    /\ steady \in BOOLEAN

(* HoldIsShared holds between the route of an event and its button, too;   *)
(* and the devices that hold the button, or that an event was routed to,   *)
(* are still offered.                                                      *)
HoldInv ==
    /\ HoldTypes
    /\ conn # 0 /\ steady => (("left" \in pressed) <=> (touchHeld \/ penHeld))
    /\ conn # 0 /\ ("left" \in pressed \/ event # Pointer!NoEvent) => offered

IsConnection(eis) ==
    /\ DOMAIN eis = {"conn", "offered", "active", "backoff", "pressed", "steady"}
    /\ eis.offered \in BOOLEAN /\ eis.steady \in BOOLEAN

(* What a refreshed route leaves of the connection: nothing, another one,  *)
(* or the same with its devices still offered.                             *)
Gone(r) == r.eis.conn = 0
Renewed(r, wait) ==
    /\ r.eis.pressed = {} /\ r.eis.offered = wait
    /\ r.eis.steady => ~touchHeld /\ ~penHeld /\ event = Pointer!NoEvent
    /\ r.route = IF wait THEN "delivered" ELSE "blocked"
Kept(r, wait) ==
    /\ r.eis.pressed = pressed /\ r.eis.steady = steady /\ r.eis.conn = conn
    /\ offered \/ wait => r.eis.offered
    /\ r.route = IF r.eis.offered THEN "delivered" ELSE "blocked"

LEMMA RefreshLeaves ==
    ASSUME HoldTypes, NEW wait \in BOOLEAN, NEW r \in Pointer!Refresh(wait)
    PROVE  IsConnection(r.eis) /\ (Gone(r) \/ Renewed(r, wait) \/ Kept(r, wait))
<1> USE DEF IsConnection, Gone, Renewed, Kept, Pointer!Outcome, HoldTypes
<1>1. CASE r \in Pointer!Desktop
  <2>1. r = Pointer!Outcome("desktop", Pointer!Closed(FALSE))
    BY <1>1 DEF Pointer!Desktop
  <2> QED
    BY <2>1 DEF Pointer!Closed
<1>2. CASE r = Pointer!Outcome("blocked", Pointer!Same) /\ conn = 0
  BY <1>2 DEF Pointer!Same
<1>3. CASE r = Pointer!Outcome("blocked", Pointer!Closed(TRUE))
  BY <1>3 DEF Pointer!Closed
<1>4. CASE r \in Pointer!WithContext(wait)
  <2>1. CASE r = Pointer!Outcome("delivered", Pointer!Pumped) /\ offered
    BY <2>1 DEF Pointer!Pumped, Pointer!Same
  <2>2. CASE r = Pointer!Outcome("blocked", Pointer!Pumped) /\ ~offered /\ ~wait
    BY <2>2 DEF Pointer!Pumped, Pointer!Same
  <2>3. CASE /\ wait
             /\ r = Pointer!Outcome("delivered",
                      [Pointer!Pumped EXCEPT !.active = TRUE, !.offered = TRUE, !.backoff = FALSE])
    BY <2>3 DEF Pointer!Pumped, Pointer!Same
  <2> QED
    BY <1>3, <1>4, <2>1, <2>2, <2>3 DEF Pointer!WithContext
<1>5. CASE r \in Pointer!WithoutContext(wait)
  <2>1. CASE wait /\ r = Pointer!Outcome("delivered", Pointer!Opened(TRUE))
    BY <2>1 DEF Pointer!Opened
  <2>2. CASE ~wait /\ r = Pointer!Outcome("blocked", Pointer!Opened(FALSE))
    BY <2>2 DEF Pointer!Opened
  <2> QED
    BY <1>3, <1>5, <2>1, <2>2 DEF Pointer!WithoutContext
<1> QED
  BY <1>1, <1>2, <1>4, <1>5 DEF Pointer!Refresh

(* A transition that is sent changes what a delivered connection holds.    *)
LEMMA SentLeaves ==
    ASSUME NEW r, IsConnection(r.eis), NEW what, NEW down \in BOOLEAN,
           Pointer!Becomes(Pointer!Sent(r, what, down))
    PROVE  /\ conn' = r.eis.conn /\ offered' = r.eis.offered /\ steady' = r.eis.steady
           /\ pressed' = IF r.route = "delivered"
                         THEN Pointer!Change(r.eis.pressed, what, down) ELSE r.eis.pressed
  BY DEF IsConnection, Pointer!Becomes, Pointer!Sent

(* Nothing is held at first. *)
LEMMA HoldStarts == Pointer!Init => HoldInv
  BY DEF Pointer!Init, HoldInv, HoldTypes

(* A transition of another key or button leaves the primary one alone.     *)
LEMMA KeyKeepsHold ==
    ASSUME HoldInv, NEW k \in Pointer!Keys, NEW down \in BOOLEAN, Pointer!Key(k, down)
    PROVE  HoldInv'
<1>1. PICK r \in Pointer!Refresh(FALSE) : Pointer!Becomes(Pointer!Sent(r, k, down))
  BY DEF Pointer!Key
<1>2. IsConnection(r.eis) /\ (Gone(r) \/ Renewed(r, FALSE) \/ Kept(r, FALSE))
  BY RefreshLeaves DEF HoldInv
<1>3. UNCHANGED <<touchHeld, penHeld, event>> /\ event = Pointer!NoEvent
  BY DEF Pointer!Key, Pointer!holdVars
<1>4. /\ conn' = r.eis.conn /\ offered' = r.eis.offered /\ steady' = r.eis.steady
      /\ pressed' = IF r.route = "delivered"
                    THEN Pointer!Change(r.eis.pressed, k, down) ELSE r.eis.pressed
  BY <1>1, <1>2, SentLeaves
<1>5. "left" \in pressed' <=> "left" \in r.eis.pressed
  BY <1>4 DEF Pointer!Change, Pointer!Keys
<1> QED
  BY <1>2, <1>3, <1>4, <1>5 DEF HoldInv, HoldTypes, IsConnection, Gone, Renewed, Kept

(* A refreshed route alone changes nothing that is held.                   *)
LEMMA RefreshKeepsHold ==
    ASSUME HoldInv, NEW wait \in BOOLEAN, NEW r \in Pointer!Refresh(wait),
           Pointer!Becomes(r.eis), event = Pointer!NoEvent, event' = event,
           touchHeld' = touchHeld, penHeld' = penHeld
    PROVE  HoldInv'
<1>1. IsConnection(r.eis) /\ (Gone(r) \/ Renewed(r, wait) \/ Kept(r, wait))
  BY RefreshLeaves DEF HoldInv
<1> QED
  BY <1>1 DEF HoldInv, HoldTypes, IsConnection, Gone, Renewed, Kept, Pointer!Becomes

(* An event is kept only for a connection that is there and offers its     *)
(* devices.                                                                *)
LEMMA RouteKeepsHold ==
    ASSUME HoldInv, NEW p \in Pointer!Pointers, NEW down \in BOOLEAN, Pointer!Route(p, down)
    PROVE  HoldInv'
<1>1. PICK r \in Pointer!Refresh(TRUE) :
          /\ Pointer!Becomes(r.eis)
          /\ event' = IF r.route = "delivered"
                      THEN <<p, IF down THEN "down" ELSE "up">> ELSE Pointer!NoEvent
          /\ IF r.route = "blocked" THEN touchHeld' = FALSE /\ penHeld' = FALSE
             ELSE UNCHANGED <<touchHeld, penHeld>>
  BY DEF Pointer!Route, Pointer!holdVars
<1>2. IsConnection(r.eis) /\ (Gone(r) \/ Renewed(r, TRUE) \/ Kept(r, TRUE))
  BY RefreshLeaves DEF HoldInv
<1> QED
  BY <1>1, <1>2 DEF HoldInv, HoldTypes, IsConnection, Gone, Renewed, Kept, Pointer!Becomes

(* The combined hold changes when a button is sent, and then to what is    *)
(* sent.                                                                   *)
LEMMA ButtonKeepsHold ==
    ASSUME HoldInv, Pointer!Button
    PROVE  HoldInv'
<1>1. PICK p : p = event[1]
  OBVIOUS
<1>2. PICK down \in BOOLEAN : down = (event[2] = "down")
  OBVIOUS
<1>3. /\ event # Pointer!NoEvent /\ event' = Pointer!NoEvent
      /\ touchHeld' = (IF p = "touch" THEN down ELSE touchHeld)
      /\ penHeld' = (IF p = "pen" THEN down ELSE penHeld)
      /\ \E r \in Pointer!Refresh(FALSE) :
            IF Pointer!Transition(p, down)
            THEN Pointer!Becomes(Pointer!Sent(r, "left", down)) ELSE Pointer!Becomes(r.eis)
  BY <1>1, <1>2 DEF Pointer!Button
<1>4. PICK r \in Pointer!Refresh(FALSE) :
          IF Pointer!Transition(p, down)
          THEN Pointer!Becomes(Pointer!Sent(r, "left", down)) ELSE Pointer!Becomes(r.eis)
  BY <1>3
<1>5. IsConnection(r.eis) /\ (Gone(r) \/ Renewed(r, FALSE) \/ Kept(r, FALSE))
  BY RefreshLeaves DEF HoldInv
<1>6. /\ Pointer!Transition(p, down) =>
            (down <=> touchHeld' \/ penHeld') /\ (down <=> ~(touchHeld \/ penHeld))
      /\ ~Pointer!Transition(p, down) => (touchHeld' \/ penHeld' <=> touchHeld \/ penHeld)
  BY <1>3 DEF Pointer!Transition, Pointer!Combined, HoldInv, HoldTypes
<1>7. CASE Pointer!Transition(p, down)
  <2>1. /\ conn' = r.eis.conn /\ offered' = r.eis.offered /\ steady' = r.eis.steady
        /\ pressed' = IF r.route = "delivered"
                      THEN Pointer!Change(r.eis.pressed, "left", down) ELSE r.eis.pressed
    BY <1>4, <1>5, <1>7, SentLeaves
  <2>2. r.route = "delivered" => ("left" \in pressed' <=> down)
    BY <2>1 DEF Pointer!Change
  <2> QED
    BY <1>3, <1>5, <1>6, <1>7, <2>1, <2>2 DEF HoldInv, HoldTypes, IsConnection, Gone, Renewed, Kept
<1>8. CASE ~Pointer!Transition(p, down)
  BY <1>3, <1>4, <1>5, <1>6, <1>8
     DEF HoldInv, HoldTypes, IsConnection, Gone, Renewed, Kept, Pointer!Becomes
<1> QED
  BY <1>7, <1>8

(* A session that ends lifts the button with its devices.                  *)
LEMMA LeaveKeepsHold ==
    ASSUME HoldInv, Pointer!Leave
    PROVE  HoldInv'
<1>1. event = Pointer!NoEvent /\ event' = event /\ touchHeld' = FALSE /\ penHeld' = FALSE
  BY DEF Pointer!Leave
<1>2. CASE touchHeld \/ penHeld
  <2>1. PICK r \in Pointer!Refresh(FALSE) : Pointer!Becomes(Pointer!Sent(r, "left", FALSE))
    BY <1>2 DEF Pointer!Leave
  <2>2. IsConnection(r.eis) /\ (Gone(r) \/ Renewed(r, FALSE) \/ Kept(r, FALSE))
    BY RefreshLeaves DEF HoldInv
  <2>3. /\ conn' = r.eis.conn /\ offered' = r.eis.offered /\ steady' = r.eis.steady
        /\ pressed' = IF r.route = "delivered"
                      THEN Pointer!Change(r.eis.pressed, "left", FALSE) ELSE r.eis.pressed
    BY <2>1, <2>2, SentLeaves
  <2>4. r.route = "delivered" => "left" \notin pressed'
    BY <2>3 DEF Pointer!Change
  <2> QED
    BY <1>1, <1>2, <2>2, <2>3, <2>4 DEF HoldInv, HoldTypes, IsConnection, Gone, Renewed, Kept
<1>3. CASE ~(touchHeld \/ penHeld)
  BY <1>1, <1>3 DEF Pointer!Leave, Pointer!eisVars, HoldInv, HoldTypes
<1> QED
  BY <1>2, <1>3

LEMMA HoldKept == HoldInv /\ Pointer!Next => HoldInv'
<1> SUFFICES ASSUME HoldInv, Pointer!Next PROVE HoldInv'
  OBVIOUS
<1> USE DEF HoldInv, HoldTypes, Pointer!eisVars, Pointer!holdVars
<1>1. CASE Pointer!Select \/ Pointer!Lose \/ Pointer!Die
  BY <1>1 DEF Pointer!Select, Pointer!Lose, Pointer!Die
<1>2. CASE Pointer!Offer
  BY <1>2 DEF Pointer!Offer
<1>3. CASE Pointer!RetryDue
  BY <1>3 DEF Pointer!RetryDue
<1>4. CASE Pointer!Free
  BY <1>4 DEF Pointer!Free
<1>5. ASSUME NEW w \in BOOLEAN, Pointer!Unheld(w) PROVE HoldInv'
  BY <1>5, RefreshKeepsHold DEF Pointer!Unheld
<1>6. ASSUME NEW s, Pointer!Bind(s) PROVE HoldInv'
  BY <1>6 DEF Pointer!Bind
<1>7. ASSUME NEW l, Pointer!Output(l) PROVE HoldInv'
  BY <1>7 DEF Pointer!Output
<1> QED
  BY <1>1, <1>2, <1>3, <1>4, <1>5, <1>6, <1>7, KeyKeepsHold, RouteKeepsHold, ButtonKeepsHold,
     LeaveKeepsHold DEF Pointer!Next

(* Once a level was sent it is remembered as sent.                         *)
FeedbackInv == /\ level # 0 => level = pointerLast
               /\ pointerLast # 0 => told = pointerLast

LEMMA FeedbackStarts == Rumble!Init => FeedbackInv
  BY DEF Rumble!Init, FeedbackInv

LEMMA FeedbackKept == FeedbackInv /\ Rumble!Next => FeedbackInv'
<1> SUFFICES ASSUME FeedbackInv, Rumble!Next PROVE FeedbackInv'
  OBVIOUS
<1> USE DEF FeedbackInv, Rumble!padVars
<1>1. CASE Rumble!Select \/ Rumble!Lose \/ Rumble!Die \/ Rumble!Offer \/ Rumble!RetryDue
  BY <1>1 DEF Rumble!Select, Rumble!Lose, Rumble!Die, Rumble!Offer, Rumble!RetryDue
<1>2. CASE Rumble!Button \/ Rumble!Leave
  BY <1>2 DEF Rumble!Button, Rumble!Leave
<1>3. CASE Rumble!Free
  BY <1>3 DEF Rumble!Free
<1>4. ASSUME NEW k, NEW d, Rumble!Key(k, d) \/ Rumble!Route(k, d) \/ Rumble!Unheld(d)
      PROVE FeedbackInv'
  BY <1>4 DEF Rumble!Key, Rumble!Route, Rumble!Unheld
<1>5. ASSUME NEW s, Rumble!Bind(s) PROVE FeedbackInv'
  BY <1>5 DEF Rumble!Bind
<1>6. ASSUME NEW l, Rumble!Output(l) PROVE FeedbackInv'
  BY <1>6 DEF Rumble!Output
<1> QED
  BY <1>1, <1>2, <1>3, <1>4, <1>5, <1>6 DEF Rumble!Next

-----------------------------------------------------------------------------
(* The host's audio. *)

(* The samples fit, and half a buffer holds a packet.                      *)
BufferInv == pos \in Nat /\ pos <= Audio!Capacity

LEMMA CapacityFits == Audio!Capacity \in Nat /\ 2 * FrameSize <= Audio!Capacity
  BY AudioAssumption DEF Audio!Capacity

LEMMA BufferStarts == Audio!Init => BufferInv
  BY CapacityFits, AudioAssumption DEF Audio!Init, BufferInv

(* Only the fills of the Windows capture add to it.                        *)
LEMMA BufferKept == BufferInv /\ Audio!Next => BufferInv'
<1> SUFFICES ASSUME BufferInv, Audio!Next PROVE BufferInv'
  OBVIOUS
<1>0. Audio!Capacity' = Audio!Capacity
  BY DEF Audio!Capacity
<1>1. ASSUME NEW s \in Listeners, Audio!Fill(s) PROVE BufferInv'
  <2>1. pos < FrameSize
    BY <1>1 DEF Audio!Fill
  <2>2. CASE \E n \in 1 .. MaxBurst : pos' = Audio!Filled(n)
    BY <1>0, <2>2, CapacityFits DEF Audio!Filled, BufferInv
  <2>3. CASE pos' = pos + FrameSize
    BY <1>0, <2>1, <2>3, CapacityFits, AudioAssumption DEF BufferInv
  <2>4. CASE UNCHANGED pos
    BY <1>0, <2>4 DEF BufferInv
  <2> QED
    BY <1>1, <2>2, <2>3, <2>4 DEF Audio!Fill
<1>2. ASSUME NEW s \in Listeners, Audio!TakePacket(s) PROVE BufferInv'
  BY <1>0, <1>2, CapacityFits, AudioAssumption DEF Audio!TakePacket, BufferInv
<1>3. ASSUME NEW s \in Listeners, NEW ok \in BOOLEAN, Audio!Open(s, ok) PROVE BufferInv'
  BY <1>0, <1>3, CapacityFits, AudioAssumption DEF Audio!Open, BufferInv
<1>4. CASE UNCHANGED pos
  BY <1>0, <1>4 DEF BufferInv
<1>5. ASSUME NEW s \in Listeners,
             \/ Audio!Begin(s) \/ Audio!Assign(s) \/ Audio!PulseSample(s) \/ Audio!DefaultChanged(s)
             \/ Audio!EncoderFails(s) \/ Audio!Shutdown(s) \/ Audio!End(s)
      PROVE UNCHANGED pos
  BY <1>5 DEF Audio!Begin, Audio!Assign, Audio!PulseSample, Audio!DefaultChanged,
     Audio!EncoderFails, Audio!Shutdown, Audio!End
<1>6. ASSUME NEW again \in BOOLEAN,
             \/ Audio!Hold \/ Audio!Release(again) \/ Audio!HostSink \/ Audio!UserDefault
             \/ Audio!ServerDies
      PROVE UNCHANGED pos
  BY <1>6 DEF Audio!Hold, Audio!Release, Audio!HostSink, Audio!UserDefault, Audio!ServerDies
<1> QED
  BY <1>1, <1>2, <1>3, <1>4, <1>5, <1>6 DEF Audio!Next

-----------------------------------------------------------------------------
(* What one session holds down another one's release does not lift, a      *)
(* gamepad's feedback is told to its new owner, and a burst of samples     *)
(* stays within the buffer: gamescope_pointer_state_t, rebind_gamepad()    *)
(* and the Windows capture's sample() keep what they share in order,       *)
(* whatever the compositor and the devices do meanwhile.                   *)
THEOREM SharedDevices == SuiteSpec => []DevicesAreShared
<1> DEFINE Inv == /\ focus = "pointer" => HoldInv
                  /\ focus = "pad" => FeedbackInv
                  /\ BufferInv
<1>1. Start => Inv
  BY HoldStarts, FeedbackStarts, BufferStarts DEF Start
<1>2. Inv /\ [Steps]_allVars => Inv'
  <2> SUFFICES ASSUME Inv, [Steps]_allVars PROVE Inv'
    OBVIOUS
  <2>1. focus' = focus
    BY ComponentSteps
  <2>2. focus = "pointer" => HoldInv'
    <3>1. CASE UNCHANGED pointerVars
      BY <3>1 DEF pointerVars, HoldInv, HoldTypes
    <3> QED
      BY <3>1, ComponentSteps, HoldKept
  <2>3. focus = "pad" => FeedbackInv'
    <3>1. CASE UNCHANGED pointerVars
      BY <3>1 DEF pointerVars, FeedbackInv
    <3> QED
      BY <3>1, ComponentSteps, FeedbackKept
  <2>4. BufferInv'
    <3>1. CASE UNCHANGED audioVars
      BY <3>1 DEF audioVars, BufferInv, Audio!Capacity
    <3> QED
      BY <3>1, ComponentSteps, BufferKept
  <2> QED
    BY <2>1, <2>2, <2>3, <2>4
<1>3. Inv => DevicesAreShared
  BY DEF HoldInv, FeedbackInv, BufferInv, DevicesAreShared, Pointer!HoldIsShared,
     Rumble!FeedbackIsCurrent, Audio!SamplesFit
<1> QED
  BY <1>1, <1>2, <1>3, PTL DEF SuiteSpec

-----------------------------------------------------------------------------
(* The host's default sink. *)

ControlFields == {"refs", "control", "host", "null", "flag", "restore", "requested"}
CaptureFields == {"step", "hostAudio", "sink", "mic", "shutdown"}

SinkTypes ==
    /\ DOMAIN ctl = ControlFields /\ ctl.refs \in Nat
    /\ DOMAIN sess = Listeners /\ \A s \in Listeners : DOMAIN sess[s] = CaptureFields
    /\ hold \in Nat

(* The users of the control: the sessions, and the display's hold.         *)
Users == {s \in Listeners : sess[s].step # "idle"}
Holds == IF hold > 0 THEN 1 ELSE 0

CountInv == ~stuck => ctl.refs = Cardinality(Users) + Holds

(* A session that is about to choose a sink has the control.               *)
ChoosingInv == \A s \in Listeners : sess[s].step = "sink" => ctl.control /\ ctl.refs > 0

(* The sink to put back is the one there was, and as long as none is put   *)
(* back the virtual sink is not the default.                               *)
RestoreInv ==
    /\ ctl.restore => ctl.control
    /\ ctl.control => ctl.host = original
    /\ ctl.restore => ctl.flag
    /\ ctl.requested # "none" => ctl.restore
    /\ ctl.refs > 0 /\ original # "virtual" /\ default = "virtual" => ctl.restore

SinkInv == SinkTypes /\ CountInv /\ ChoosingInv /\ RestoreInv

LEMMA UsersAreFew == IsFiniteSet(Users) /\ Cardinality(Users) \in Nat
  BY AudioAssumption, FS_Subset, FS_CardinalityType DEF Users

LEMMA SinkStarts == Audio!Init => SinkInv
<1> SUFFICES ASSUME Audio!Init PROVE SinkInv
  OBVIOUS
<1>1. Users = {}
  BY DEF Audio!Init, Audio!NoCapture, Users
<1>2. SinkTypes /\ ChoosingInv /\ RestoreInv
  BY DEF Audio!Init, Audio!NoCapture, Audio!NoControl, SinkTypes, ChoosingInv, RestoreInv,
     ControlFields, CaptureFields
<1>3. ctl.refs = 0 /\ hold = 0
  BY DEF Audio!Init, Audio!NoControl
<1> QED
  BY <1>1, <1>2, <1>3, FS_EmptySet DEF SinkInv, CountInv, Holds

(* Taking the control counts one user more, who has it if there is one.    *)
LEMMA TakeCounts ==
    ASSUME SinkTypes, RestoreInv, Audio!Take, UNCHANGED default
    PROVE  /\ DOMAIN ctl' = ControlFields /\ ctl'.refs = ctl.refs + 1
           /\ ctl.refs > 0 => (ctl'.control <=> ctl.control)
           /\ RestoreInv'
<1>1. CASE ctl.refs = 0
  <2>1. ctl' = Audio!Started /\ original' = default
    BY <1>1 DEF Audio!Take
  <2>2. /\ DOMAIN ctl' = ControlFields /\ ctl'.refs = 1
        /\ ctl'.flag = FALSE /\ ctl'.restore = FALSE /\ ctl'.requested = "none"
        /\ ctl'.control => ctl'.host = default
    BY <2>1 DEF Audio!Started, Audio!NoControl, ControlFields
  <2> QED
    BY <1>1, <2>1, <2>2 DEF RestoreInv
<1>2. CASE ctl.refs # 0
  <2>1. ctl' = [ctl EXCEPT !.refs = @ + 1] /\ original' = original
    BY <1>2 DEF Audio!Take
  <2> QED
    BY <1>2, <2>1 DEF RestoreInv, SinkTypes, ControlFields
<1> QED
  BY <1>1, <1>2

(* Dropping it counts one less, and the last user puts the sink back.      *)
LEMMA DropCounts ==
    ASSUME SinkTypes, RestoreInv, ctl.refs > 0, Audio!Drop, UNCHANGED original
    PROVE  /\ DOMAIN ctl' = ControlFields /\ ctl'.refs = ctl.refs - 1
           /\ ctl.refs > 1 => (ctl'.control <=> ctl.control) /\ UNCHANGED <<default, stuck>>
           /\ RestoreInv'
<1>1. CASE ctl.refs = 1
  BY <1>1 DEF Audio!Drop, Audio!NoControl, RestoreInv, ControlFields
<1>2. CASE ctl.refs # 1
  BY <1>2 DEF Audio!Drop, RestoreInv, SinkTypes, ControlFields
<1> QED
  BY <1>1, <1>2

LEMMA LastRestores ==
    ASSUME SinkInv, ctl.refs = 1, Audio!Drop, server = "up", original \in present \ {"virtual"}
    PROVE  default' # "virtual"
<1>1. PICK from : from = IF Audio!RestoreSink THEN ctl.host ELSE default
  OBVIOUS
<1>2. default' \in Audio!Left({from})
  BY <1>1 DEF Audio!Drop
<1>3. default' = from \/ default' = "other"
  BY <1>2 DEF Audio!Left
<1>4. from # "virtual"
  BY <1>1 DEF Audio!RestoreSink, SinkInv, RestoreInv
<1> QED
  BY <1>3, <1>4

(* One session's step, when it stays a user or stays none.                 *)
LEMMA StepKeepsUsers ==
    ASSUME SinkTypes, NEW s \in Listeners, NEW c,
           sess' = [sess EXCEPT ![s] = c], c.step # "idle" <=> sess[s].step # "idle"
    PROVE  Users' = Users
  BY DEF SinkTypes, Users

LEMMA BeginKeepsSink ==
    ASSUME SinkInv, NEW s \in Listeners, Audio!Begin(s)
    PROVE  SinkInv'
<1>1. PICK host \in BOOLEAN :
        sess' = [sess EXCEPT ![s] = [Audio!NoCapture EXCEPT !.hostAudio = host,
                     !.step = IF stuck' THEN "stuck" ELSE IF ctl'.control THEN "sink" ELSE "silent"]]
  BY DEF Audio!Begin
<1>2. ~stuck /\ sess[s].step = "idle" /\ Audio!Take /\ UNCHANGED <<default, hold>>
  BY DEF Audio!Begin
<1>3. /\ DOMAIN ctl' = ControlFields /\ ctl'.refs = ctl.refs + 1
      /\ ctl.refs > 0 => (ctl'.control <=> ctl.control)
      /\ RestoreInv'
  BY <1>2, TakeCounts DEF SinkInv
<1>4. SinkTypes'
  BY <1>1, <1>2, <1>3 DEF SinkInv, SinkTypes, CaptureFields, Audio!NoCapture
<1>5. Users' = Users \cup {s} /\ s \notin Users
  BY <1>1, <1>2 DEF SinkInv, SinkTypes, Users, Audio!NoCapture
<1>6. CountInv'
  <2>1. Cardinality(Users') = Cardinality(Users) + 1
    BY <1>5, UsersAreFew, FS_AddElement
  <2> QED
    BY <1>2, <1>3, <2>1, UsersAreFew DEF SinkInv, CountInv, Holds, SinkTypes
<1>7. ChoosingInv'
  BY <1>1, <1>3 DEF SinkInv, SinkTypes, ChoosingInv, Audio!NoCapture
<1> QED
  BY <1>3, <1>4, <1>6, <1>7 DEF SinkInv

LEMMA EndKeepsSink ==
    ASSUME SinkInv, NEW s \in Listeners, Audio!End(s)
    PROVE  SinkInv'
<1>1. PICK c : c = IF stuck' THEN [Audio!NoCapture EXCEPT !.step = "stuck"] ELSE Audio!NoCapture
  OBVIOUS
<1>2. /\ sess[s].step \in {"silent", "capture", "reopen"} /\ ~stuck /\ Audio!Drop
      /\ sess' = [sess EXCEPT ![s] = c] /\ UNCHANGED <<original, hold>>
  BY <1>1 DEF Audio!End
<1>3. s \in Users
  BY <1>2 DEF Users
<1>4. Cardinality(Users) >= 1 /\ Cardinality(Users \ {s}) = Cardinality(Users) - 1
  BY <1>3, UsersAreFew, FS_RemoveElement, FS_EmptySet DEF SinkInv
<1>5. ctl.refs > 0
  BY <1>2, <1>4, UsersAreFew DEF SinkInv, CountInv, Holds
<1>6. /\ DOMAIN ctl' = ControlFields /\ ctl'.refs = ctl.refs - 1
      /\ ctl.refs > 1 => (ctl'.control <=> ctl.control) /\ UNCHANGED <<default, stuck>>
      /\ RestoreInv'
  BY <1>2, <1>5, DropCounts DEF SinkInv
<1>7. SinkTypes'
  BY <1>1, <1>2, <1>5, <1>6 DEF SinkInv, SinkTypes, CaptureFields, Audio!NoCapture
<1>8. CountInv'
  <2>1. ~stuck' => Users' = Users \ {s}
    BY <1>1, <1>2 DEF SinkInv, SinkTypes, Users, Audio!NoCapture
  <2> QED
    BY <1>2, <1>4, <1>6, <2>1, UsersAreFew DEF SinkInv, CountInv, Holds, SinkTypes
<1>9. ChoosingInv'
  <2>1. ASSUME NEW t \in Listeners, sess'[t].step = "sink" PROVE t # s /\ sess[t].step = "sink"
    BY <1>1, <1>2, <2>1 DEF SinkInv, SinkTypes, Audio!NoCapture
  <2>2. ASSUME NEW t \in Users, t # s PROVE ctl.refs > 1
    <3>1. Cardinality(Users \ {s}) # 0
      BY <2>2, <1>3, UsersAreFew, FS_RemoveElement, FS_EmptySet
    <3> QED
      BY <1>2, <1>4, <3>1, UsersAreFew DEF SinkInv, CountInv, Holds
  <2>3. ASSUME NEW t \in Listeners, sess'[t].step = "sink" PROVE ctl'.control /\ ctl'.refs > 0
    <3>1. t \in Users /\ t # s /\ ctl.control
      BY <2>1, <2>3 DEF Users, SinkInv, ChoosingInv
    <3> QED
      BY <3>1, <2>2, <1>6 DEF SinkInv, SinkTypes
  <2> QED
    BY <2>3 DEF ChoosingInv
<1> QED
  BY <1>6, <1>7, <1>8, <1>9 DEF SinkInv

LEMMA HoldKeepsSink ==
    ASSUME SinkInv, Audio!Hold
    PROVE  SinkInv'
<1>1. /\ hold = 0 /\ ~stuck /\ Audio!Take /\ hold' = 1 + HoldRetries
      /\ UNCHANGED <<default, sess>>
  BY DEF Audio!Hold
<1>2. /\ DOMAIN ctl' = ControlFields /\ ctl'.refs = ctl.refs + 1
      /\ ctl.refs > 0 => (ctl'.control <=> ctl.control)
      /\ RestoreInv'
  BY <1>1, TakeCounts DEF SinkInv
<1>3. SinkTypes' /\ CountInv' /\ ChoosingInv'
  BY <1>1, <1>2, AudioAssumption, UsersAreFew
     DEF SinkInv, SinkTypes, CountInv, ChoosingInv, Users, Holds
<1> QED
  BY <1>2, <1>3 DEF SinkInv

LEMMA ReleaseKeepsSink ==
    ASSUME SinkInv, NEW again \in BOOLEAN, Audio!Release(again)
    PROVE  SinkInv'
<1>1. hold > 0 /\ ~stuck /\ UNCHANGED <<sess, original>>
  BY DEF Audio!Release
<1>2. Users' = Users
  BY <1>1 DEF Users
<1>3. CASE Audio!Drop /\ hold' = 0
  <2>1. ctl.refs = Cardinality(Users) + 1
    BY <1>1 DEF SinkInv, CountInv, Holds
  <2>2. /\ DOMAIN ctl' = ControlFields /\ ctl'.refs = ctl.refs - 1
        /\ ctl.refs > 1 => (ctl'.control <=> ctl.control) /\ UNCHANGED <<default, stuck>>
        /\ RestoreInv'
    BY <1>1, <1>3, <2>1, UsersAreFew, DropCounts DEF SinkInv
  <2>3. SinkTypes' /\ CountInv'
    BY <1>1, <1>2, <1>3, <2>1, <2>2, UsersAreFew DEF SinkInv, SinkTypes, CountInv, Holds
  <2>4. ChoosingInv'
    <3>1. ASSUME NEW t \in Listeners, sess[t].step = "sink" PROVE Cardinality(Users) # 0
      <4>1. t \in Users
        BY <3>1 DEF Users
      <4> QED
        BY <4>1, UsersAreFew, FS_EmptySet
    <3> QED
      BY <1>1, <2>1, <2>2, <3>1, UsersAreFew DEF SinkInv, ChoosingInv
  <2> QED
    BY <2>2, <2>3, <2>4 DEF SinkInv
<1>4. CASE hold # 1 /\ hold' = hold - 1 /\ UNCHANGED <<ctl, default, present, stuck>>
  BY <1>1, <1>2, <1>4
     DEF SinkInv, SinkTypes, CountInv, ChoosingInv, RestoreInv, Holds
<1> QED
  BY <1>3, <1>4 DEF Audio!Release

(* The first session replaces the default sink and notes it.               *)
LEMMA AssignKeepsSink ==
    ASSUME SinkInv, NEW s \in Listeners, Audio!Assign(s)
    PROVE  SinkInv'
<1>1. sess[s].step = "sink" /\ UNCHANGED <<original, hold, stuck>>
  BY DEF Audio!Assign
<1>2. ctl.control /\ ctl.refs > 0
  BY <1>1 DEF SinkInv, ChoosingInv
<1>3. PICK sink : sink = Audio!Choice(s)
  OBVIOUS
<1>4. CASE Audio!MayChange /\ ctl.host # sink
  <2>1. PICK ok \in BOOLEAN :
          /\ Audio!SetSink(sink, ok)
          /\ ctl' = [ctl EXCEPT !.flag = TRUE, !.restore = TRUE,
                                !.requested = IF ok THEN sink ELSE @]
          /\ sess' = [sess EXCEPT ![s].step = IF ok THEN "mic" ELSE "silent", ![s].sink = sink]
    BY <1>3, <1>4 DEF Audio!Assign
  <2>2. DOMAIN ctl' = ControlFields /\ ctl'.refs = ctl.refs /\ RestoreInv'
        /\ ctl'.control = ctl.control
    BY <1>1, <1>2, <2>1 DEF SinkInv, SinkTypes, RestoreInv, ControlFields
  <2>3. PICK c : c = [sess[s] EXCEPT !.step = IF ok THEN "mic" ELSE "silent", !.sink = sink]
    OBVIOUS
  <2>4. sess' = [sess EXCEPT ![s] = c] /\ DOMAIN c = CaptureFields /\ c.step \in {"mic", "silent"}
    BY <2>1, <2>3 DEF SinkInv, SinkTypes, CaptureFields
  <2>5. Users' = Users
    BY <1>1, <2>4, StepKeepsUsers DEF SinkInv
  <2>6. SinkTypes' /\ CountInv' /\ ChoosingInv'
    BY <1>1, <2>2, <2>4, <2>5 DEF SinkInv, SinkTypes, CountInv, ChoosingInv, Holds
  <2> QED
    BY <2>2, <2>6 DEF SinkInv
<1>5. CASE ~(Audio!MayChange /\ ctl.host # sink)
  <2>1. /\ ctl' = [ctl EXCEPT !.restore = IF Audio!MayChange THEN FALSE ELSE @, !.flag = TRUE]
        /\ sess' = [sess EXCEPT ![s].step = "mic", ![s].sink = sink]
        /\ UNCHANGED default
    BY <1>3, <1>5 DEF Audio!Assign
  <2>2. DOMAIN ctl' = ControlFields /\ ctl'.refs = ctl.refs /\ RestoreInv'
        /\ ctl'.control = ctl.control
    BY <1>1, <2>1 DEF SinkInv, SinkTypes, RestoreInv, ControlFields, Audio!MayChange
  <2>3. PICK c : c = [sess[s] EXCEPT !.step = "mic", !.sink = sink]
    OBVIOUS
  <2>4. sess' = [sess EXCEPT ![s] = c] /\ DOMAIN c = CaptureFields /\ c.step = "mic"
    BY <2>1, <2>3 DEF SinkInv, SinkTypes, CaptureFields
  <2>5. Users' = Users
    BY <1>1, <2>4, StepKeepsUsers DEF SinkInv
  <2>6. SinkTypes' /\ CountInv' /\ ChoosingInv'
    BY <1>1, <2>2, <2>4, <2>5 DEF SinkInv, SinkTypes, CountInv, ChoosingInv, Holds
  <2> QED
    BY <2>2, <2>6 DEF SinkInv
<1> QED
  BY <1>4, <1>5

(* The steps of a session that has its sink, which leave the control alone *)
(* and make the virtual sink the default only when it was asked for.       *)
LEMMA CaptureKeepsSink ==
    ASSUME SinkInv, NEW s \in Listeners, UNCHANGED <<ctl, original, hold, stuck>>,
           UNCHANGED sess \/ \E c : /\ sess' = [sess EXCEPT ![s] = c] /\ DOMAIN c = CaptureFields
                                    /\ c.step \notin {"idle", "sink"}
                                    /\ sess[s].step # "idle",
           default' = "virtual" => default = "virtual" \/ ctl.requested = "virtual"
    PROVE  SinkInv'
<1>1. Users' = Users
  BY StepKeepsUsers DEF SinkInv, Users
<1>2. SinkTypes' /\ CountInv'
  BY <1>1 DEF SinkInv, SinkTypes, CountInv, Holds
<1>3. ChoosingInv' /\ RestoreInv'
  BY DEF SinkInv, SinkTypes, ChoosingInv, RestoreInv
<1> QED
  BY <1>2, <1>3 DEF SinkInv

LEMMA SinkKept == SinkInv /\ Audio!Next => SinkInv'
<1> SUFFICES ASSUME SinkInv, Audio!Next PROVE SinkInv'
  OBVIOUS
<1>0. SinkTypes
  BY DEF SinkInv
<1>1. ASSUME NEW s \in Listeners, NEW ok \in BOOLEAN, Audio!Open(s, ok) PROVE SinkInv'
  <2>1. PICK c : c = [sess[s] EXCEPT
                        !.step = IF ok THEN "capture" ELSE IF Audio!NoAnswer THEN "stuck"
                                 ELSE IF sess[s].step = "mic" THEN "silent" ELSE "reopen",
                        !.mic = IF ok THEN Audio!MicSink ELSE "none"]
    OBVIOUS
  <2>2. sess' = [sess EXCEPT ![s] = c] /\ DOMAIN c = CaptureFields /\ c.step \notin {"idle", "sink"}
    BY <1>0, <1>1, <2>1 DEF Audio!Open, SinkTypes, CaptureFields
  <2> QED
    BY <1>1, <2>2, CaptureKeepsSink DEF Audio!Open
<1>2. ASSUME NEW s \in Listeners, Audio!PulseSample(s) PROVE SinkInv'
  <2>1. PICK c : c = [sess[s] EXCEPT !.step = "silent", !.mic = "none"]
    OBVIOUS
  <2>2. DOMAIN c = CaptureFields /\ c.step \notin {"idle", "sink"}
    BY <1>0, <2>1 DEF SinkTypes, CaptureFields
  <2>3. UNCHANGED sess \/ sess' = [sess EXCEPT ![s] = c]
    BY <1>0, <1>2, <2>1 DEF Audio!PulseSample, SinkTypes
  <2> QED
    BY <1>2, <2>2, <2>3, CaptureKeepsSink DEF Audio!PulseSample
<1>3. ASSUME NEW s \in Listeners, Audio!DefaultChanged(s) PROVE SinkInv'
  <2>1. PICK c : c = [sess[s] EXCEPT !.step = "reopen", !.mic = "none"]
    OBVIOUS
  <2>2. DOMAIN c = CaptureFields /\ c.step \notin {"idle", "sink"}
    BY <1>0, <2>1 DEF SinkTypes, CaptureFields
  <2>3. UNCHANGED sess \/ sess' = [sess EXCEPT ![s] = c]
    BY <1>0, <1>3, <2>1 DEF Audio!DefaultChanged, SinkTypes
  <2>4. default' = "virtual" => default = "virtual" \/ ctl.requested = "virtual"
    BY <1>3 DEF Audio!DefaultChanged
  <2> QED
    BY <1>3, <2>2, <2>3, <2>4, CaptureKeepsSink DEF Audio!DefaultChanged
<1>4. ASSUME NEW s \in Listeners, Audio!Fill(s) PROVE SinkInv'
  <2>1. PICK c : c = [sess[s] EXCEPT !.step = "reopen", !.mic = "none"]
    OBVIOUS
  <2>2. DOMAIN c = CaptureFields /\ c.step \notin {"idle", "sink"}
    BY <1>0, <2>1 DEF SinkTypes, CaptureFields
  <2>3. UNCHANGED sess \/ sess' = [sess EXCEPT ![s] = c]
    BY <1>0, <1>4, <2>1 DEF Audio!Fill, SinkTypes
  <2> QED
    BY <1>4, <2>2, <2>3, CaptureKeepsSink DEF Audio!Fill
<1>5. ASSUME NEW s \in Listeners, Audio!TakePacket(s) \/ Audio!EncoderFails(s) PROVE SinkInv'
  BY <1>5, CaptureKeepsSink DEF Audio!TakePacket, Audio!EncoderFails
<1>6. ASSUME NEW s \in Listeners, Audio!Shutdown(s) PROVE SinkInv'
  <2>1. PICK c : c = [sess[s] EXCEPT !.shutdown = TRUE]
    OBVIOUS
  <2>2. sess' = [sess EXCEPT ![s] = c] /\ DOMAIN c = CaptureFields /\ c.step = sess[s].step
    BY <1>0, <1>6, <2>1 DEF Audio!Shutdown, SinkTypes, CaptureFields
  <2>3. UNCHANGED <<ctl, original, default, hold, stuck>>
    BY <1>6 DEF Audio!Shutdown
  <2>4. Users' = Users
    BY <2>2, StepKeepsUsers DEF SinkInv
  <2>5. SinkTypes' /\ CountInv' /\ ChoosingInv' /\ RestoreInv'
    BY <2>2, <2>3, <2>4 DEF SinkInv, SinkTypes, CountInv, ChoosingInv, RestoreInv, Holds
  <2> QED
    BY <2>5 DEF SinkInv
<1>7. ASSUME Audio!HostSink \/ Audio!UserDefault \/ Audio!ServerDies PROVE SinkInv'
  <2>1. UNCHANGED <<ctl, original, sess, hold, stuck>> /\ (default' = default \/ default' = "other")
    BY <1>7 DEF Audio!HostSink, Audio!UserDefault, Audio!ServerDies
  <2> QED
    BY <2>1 DEF SinkInv, SinkTypes, CountInv, ChoosingInv, RestoreInv, Holds, Users
<1> QED
  BY <1>1, <1>2, <1>3, <1>4, <1>5, <1>6, <1>7, BeginKeepsSink, AssignKeepsSink, EndKeepsSink,
     HoldKeepsSink, ReleaseKeepsSink DEF Audio!Next

(* Only the last user lets the control go. *)
LEMMA LastGoes ==
    ASSUME SinkInv, Audio!Next, ctl.refs = 1, ctl'.refs = 0
    PROVE  Audio!Drop
<1>1. ctl' # ctl
  OBVIOUS
<1>2. ~Audio!Take
  BY DEF Audio!Take, Audio!Started, Audio!NoControl, SinkInv, SinkTypes, ControlFields
<1>3. ASSUME NEW s \in Listeners, Audio!Assign(s) PROVE FALSE
  <2>1. \/ \E ok \in BOOLEAN :
             ctl' = [ctl EXCEPT !.flag = TRUE, !.restore = TRUE,
                                !.requested = IF ok THEN Audio!Choice(s) ELSE @]
        \/ ctl' = [ctl EXCEPT !.restore = IF Audio!MayChange THEN FALSE ELSE @, !.flag = TRUE]
    BY <1>3 DEF Audio!Assign
  <2>2. DOMAIN ctl = ControlFields
    BY DEF SinkInv, SinkTypes
  <2>5. ASSUME NEW ok \in BOOLEAN,
               ctl' = [ctl EXCEPT !.flag = TRUE, !.restore = TRUE,
                                  !.requested = IF ok THEN Audio!Choice(s) ELSE @]
        PROVE  FALSE
    <3>1. PICK q : q = IF ok THEN Audio!Choice(s) ELSE ctl.requested
      OBVIOUS
    <3>2. ctl' = [ctl EXCEPT !.flag = TRUE, !.restore = TRUE, !.requested = q]
      BY <2>5, <3>1
    <3> QED
      BY <2>2, <3>2 DEF ControlFields
  <2>6. ASSUME ctl' = [ctl EXCEPT !.restore = IF Audio!MayChange THEN FALSE ELSE @, !.flag = TRUE]
        PROVE  FALSE
    <3>1. PICK r : r = IF Audio!MayChange THEN FALSE ELSE ctl.restore
      OBVIOUS
    <3>2. ctl' = [ctl EXCEPT !.restore = r, !.flag = TRUE]
      BY <2>6, <3>1
    <3> QED
      BY <2>2, <3>2 DEF ControlFields
  <2> QED
    BY <2>1, <2>5, <2>6
<1>4. ASSUME NEW s \in Listeners, NEW ok \in BOOLEAN,
             \/ Audio!PulseSample(s) \/ Audio!DefaultChanged(s) \/ Audio!Fill(s)
             \/ Audio!TakePacket(s) \/ Audio!EncoderFails(s) \/ Audio!Shutdown(s)
             \/ Audio!Open(s, ok)
      PROVE FALSE
  BY <1>1, <1>4 DEF Audio!PulseSample, Audio!DefaultChanged, Audio!Fill, Audio!TakePacket,
     Audio!EncoderFails, Audio!Shutdown, Audio!Open
<1>5. ASSUME NEW s \in Listeners, Audio!Begin(s) \/ Audio!End(s) PROVE Audio!Drop
  BY <1>2, <1>5 DEF Audio!Begin, Audio!End
<1>6. ASSUME NEW again \in BOOLEAN, Audio!Hold \/ Audio!Release(again) PROVE Audio!Drop
  BY <1>1, <1>2, <1>6 DEF Audio!Hold, Audio!Release
<1>7. ~Audio!HostSink /\ ~Audio!UserDefault /\ ~Audio!ServerDies
  BY <1>1 DEF Audio!HostSink, Audio!UserDefault, Audio!ServerDies
<1> QED
  BY <1>3, <1>4, <1>5, <1>6, <1>7 DEF Audio!Next

(* When the last user of the audio goes, the virtual sink is not left as   *)
(* the default: audio.cpp's stop_audio_control() puts the sink back that   *)
(* was the default before the first of them, whatever the sessions and the *)
(* display's hold on the control asked for, in whatever order they came    *)
(* and went.                                                               *)
THEOREM SinkIsRestored == SuiteSpec => HostSinkRestored
<1>1. Start => SinkInv
  BY SinkStarts DEF Start
<1>2. SinkInv /\ [Steps]_allVars => SinkInv'
  <2> SUFFICES ASSUME SinkInv, [Steps]_allVars PROVE SinkInv'
    OBVIOUS
  <2>1. CASE UNCHANGED audioVars
    BY <2>1 DEF audioVars, SinkInv, SinkTypes, CountInv, ChoosingInv, RestoreInv, Users, Holds
  <2> QED
    BY <2>1, ComponentSteps, SinkKept
<1>3. SinkInv /\ [Steps]_allVars =>
        [ctl.refs = 1 /\ ctl'.refs = 0 /\ server = "up" /\ original \in present \ {"virtual"}
           => default' # "virtual"]_(Audio!audioVars)
  <2> SUFFICES ASSUME SinkInv, [Steps]_allVars, ctl.refs = 1, ctl'.refs = 0, server = "up",
                      original \in present \ {"virtual"}
               PROVE  default' # "virtual"
    OBVIOUS
  <2>1. ~UNCHANGED audioVars
    BY DEF audioVars
  <2> QED
    BY <2>1, ComponentSteps, LastGoes, LastRestores
<1> QED
  BY <1>1, <1>2, <1>3, PTL DEF SuiteSpec, HostSinkRestored, Audio!HostSinkRestored

=============================================================================
