---------------------------- MODULE EncodeSurface ----------------------------
(***************************************************************************)
(* From a captured image to an encoded frame: the conversion on the GPU    *)
(* through GL (VA-API, CUDA) or Vulkan, with the source and the cursor     *)
(* imported only when they changed (graphics.cpp, vaapi.cpp, cuda.cpp,     *)
(* vulkan_encode.cpp); the scaling into the frame of the encoder; NvFBC's  *)
(* capture session and the cursor (cuda.cpp); and the invalidation of      *)
(* reference frames with NVENC (nvenc_base.cpp).                           *)
(***************************************************************************)
EXTENDS Integers, FiniteSets

CONSTANTS Backends,     \* "gl", "vulkan"
          MaxImages,    \* bound on the captured images
          Sizes,        \* widths and heights of sources and frames
          MaxToggles,   \* bound on the changes of NvFBC's cursor
          RefFrames,    \* numRefFrames of the client, 0 for the default
          DefaultRefs,  \* references the codec holds by default
          MaxEncoders,  \* bound on the encoders that are made
          MaxFrames     \* bound on the frames NVENC encodes

VARIABLES
    backend,   \* the encode device
    device,    \* "none", "ready" or "failed"
    captured,  \* [sequence, cursor]: the image to convert; cursor 0 is hidden
    source,    \* sequence, image imported from it, and the source the shader reads
    pointer,   \* cursor_serial, the cursor's image, and the one the shader reads
    dirty,     \* descriptors_dirty
    target,    \* what the frame of the encoder shows
    fbc,       \* NvFBC: cursor asked for, cursor_visible, the session, and
               \* the frame grabbed last with the cursor it was asked with
    toggles,
    enc,       \* NVENC: frames, their references, what is invalid
    rfi,       \* last_rfi_range, rfi_needs_confirmation, force_idr
    asked,     \* mail::invalidate_ref_frames: at most one range
    viewer     \* the client: what it could decode, and what it was told

encodeVars == <<backend, device, captured, source, pointer, dirty, target, fbc, toggles,
                enc, rfi, asked, viewer>>

NoImage == [sequence |-> 0, cursor |-> 0]
NoSource == [sequence |-> 0, image |-> -1, bound |-> -1]
NoPointer == [serial |-> -1, image |-> 0, bound |-> 0]
Nothing == [image |-> -1, cursor |-> 0]

Init ==
    /\ backend \in Backends /\ device = "none" /\ captured = NoImage
    /\ source = NoSource /\ pointer = NoPointer /\ dirty = FALSE /\ target = Nothing
    /\ fbc = [cursor |-> TRUE, visible |-> TRUE, session |-> "none", live |-> FALSE,
              frame |-> [asked |-> TRUE, session |-> "none"]]
    /\ toggles = 0
    /\ enc = [live |-> FALSE, made |-> 0, dpb |-> 1, rfi |-> FALSE, last |-> 0, known |-> 0, valid |-> {},
              ref |-> [f \in 1 .. MaxFrames |-> 0], kind |-> [f \in 1 .. MaxFrames |-> "none"]]
    /\ rfi = [first |-> 0, last |-> 0, confirm |-> FALSE, idr |-> TRUE]
    /\ asked = << >>
    /\ viewer = [decoded |-> {}, seen |-> 0]

ConversionSame == UNCHANGED <<backend, device, captured, source, pointer, dirty, target>>
FbcSame == UNCHANGED <<fbc, toggles>>
NvencSame == UNCHANGED <<enc, rfi, asked, viewer>>

-----------------------------------------------------------------------------
(* init() and set_frame(): every resource, or none of them. *)
MakeDevice(ok) ==
    /\ device = "none" /\ MaxImages > 0
    /\ device' = IF ok THEN "ready" ELSE "failed"
    /\ source' = NoSource /\ pointer' = NoPointer /\ dirty' = FALSE /\ target' = Nothing
    /\ UNCHANGED <<backend, captured>> /\ FbcSame /\ NvencSame

(* A capture that starts over gives a new device. *)
DropDevice ==
    /\ device # "none" /\ device' = "none"
    /\ UNCHANGED <<backend, captured, source, pointer, dirty, target>> /\ FbcSame /\ NvencSame

(* The next image: another sequence, with the cursor where it was, another *)
(* cursor, or none.                                                        *)
NextImage(c) ==
    /\ captured.sequence < MaxImages
    /\ c \in {0, captured.cursor, captured.sequence + 1}
    /\ captured' = [sequence |-> captured.sequence + 1, cursor |-> c]
    /\ UNCHANGED <<backend, device, source, pointer, dirty, target>> /\ FbcSame /\ NvencSame

(* import_source(), import_dmabuf(): only a newer sequence is imported. *)
ImportsOnce(img) == source.sequence = 0
Imports(img) == img.sequence > source.sequence

(* Every device converts a dummy image (sequence 0) first, then what is    *)
(* captured.                                                               *)
Given == IF target = Nothing THEN NoImage ELSE captured

(* The cursor is uploaded when its serial is another one. *)
NewCursorOnce(img) == img.cursor # 0 /\ pointer.serial = -1
NewCursor(img) == img.cursor # 0 /\ pointer.serial # img.cursor
Uploaded(img) == IF NewCursor(img) THEN [pointer EXCEPT !.serial = img.cursor, !.image = img.cursor] ELSE pointer

Imported(img) == [source EXCEPT !.sequence = img.sequence, !.image = img.sequence]

(* load_vram(), dispatch_compute(): the source, and over it the cursor if  *)
(* there is one.                                                           *)
Drawn(img, src, ptr) == [image |-> src.bound, cursor |-> IF img.cursor # 0 THEN ptr.bound ELSE 0]
Dispatched(img, src, ptr) == Drawn(img, src, ptr)

(* convert() through GL: a dummy image is a blank texture. *)
ConvertGl(img, ok) ==
    /\ backend = "gl" /\ device = "ready"
    /\ source' = IF img.sequence = 0 THEN [source EXCEPT !.image = 0, !.bound = 0]
                 ELSE IF Imports(img) THEN [Imported(img) EXCEPT !.bound = img.sequence]
                 ELSE source
    /\ IF ~ok
       THEN Imports(img) /\ device' = "failed" /\ UNCHANGED <<pointer, target>>
       ELSE /\ pointer' = [Uploaded(img) EXCEPT !.bound = Uploaded(img).image]
            /\ target' = Drawn(img, source', pointer')
            /\ UNCHANGED device
    /\ UNCHANGED <<backend, captured, dirty>> /\ FbcSame /\ NvencSame

(* convert() through Vulkan: update_descriptors() when the source or the   *)
(* cursor changed, or after a dummy frame, which left them pointing at the *)
(* black image.                                                            *)
Rewrites(img) == dirty \/ Imports(img) \/ NewCursor(img)

ConvertVulkan(img, ok) ==
    /\ backend = "vulkan" /\ device = "ready"
    /\ IF img.sequence = 0
       THEN /\ source' = [source EXCEPT !.bound = 0] /\ dirty' = TRUE
            /\ target' = [image |-> 0, cursor |-> 0] /\ UNCHANGED <<device, pointer>>
       ELSE LET imported == IF Imports(img) THEN Imported(img) ELSE source
            IN  IF ~ok
                THEN /\ Imports(img) \/ NewCursor(img)
                     /\ device' = "failed" /\ source' = imported /\ UNCHANGED <<pointer, dirty, target>>
                ELSE /\ source' = IF Rewrites(img) THEN [imported EXCEPT !.bound = imported.image] ELSE imported
                     /\ pointer' = IF Rewrites(img) THEN [Uploaded(img) EXCEPT !.bound = Uploaded(img).image]
                                   ELSE Uploaded(img)
                     /\ dirty' = FALSE
                     /\ target' = Dispatched(img, source', pointer')
                     /\ UNCHANGED device
    /\ UNCHANGED <<backend, captured>> /\ FbcSame /\ NvencSame

-----------------------------------------------------------------------------
(* The picture in the frame: as large as its shape allows.  A side that is *)
(* not the limit is rounded down.                                          *)
Fit(inW, inH, outW, outH) ==
    IF outW * inH <= outH * inW
    THEN [w |-> outW, h |-> (inH * outW) \div inW]
    ELSE [w |-> (inW * outH) \div inH, h |-> outH]

Even(n) == 2 * (n \div 2)
Smaller(a, b) == IF a < b THEN a ELSE b

(* sws_t::make_nv12(), sws_t::make_yuv444(). *)
FitNv12(inW, inH, outW, outH) ==
    LET fit == Fit(inW, inH, outW, outH)
    IN  [w |-> fit.w, h |-> fit.h, x |-> (outW - fit.w) \div 2, y |-> (outH - fit.h) \div 2]
FitYuv444(inW, inH, outW, outH) ==
    LET fit == Fit(inW, inH, outW, outH)
    IN  [w |-> fit.w, h |-> fit.h, x |-> outW - fit.w, y |-> outH - fit.h]

(* vk_vram_t::convert(): sizes and offsets are even, for the smaller       *)
(* chroma plane.                                                           *)
FitVulkanLoose(inW, inH, outW, outH) ==
    LET fit == Fit(inW, inH, outW, outH)
    IN  [w |-> fit.w, h |-> fit.h, x |-> Even((outW - fit.w) \div 2), y |-> Even((outH - fit.h) \div 2)]
FitVulkan(inW, inH, outW, outH) ==
    LET fit == Fit(inW, inH, outW, outH)
        w == Smaller(Even(fit.w), Even(outW))
        h == Smaller(Even(fit.h), Even(outH))
        x == Even((outW - w) \div 2)
        y == Even((outH - h) \div 2)
    IN  [w |-> Smaller(w, Even(outW - x)), h |-> Smaller(h, Even(outH - y)), x |-> x, y |-> y]

-----------------------------------------------------------------------------
(* NvFBC.  capture() begins: cursor_visible differs from what is asked, so *)
(* that the first snapshot makes a session.                                *)
FbcStarts ==
    /\ ~fbc.live /\ MaxToggles > 0
    /\ fbc' = [fbc EXCEPT !.live = TRUE, !.visible = ~fbc.cursor, !.session = "none"]
    /\ UNCHANGED toggles /\ ConversionSame /\ NvencSame

(* reinit(): the session is destroyed and made again, without a cursor as  *)
(* a direct capture, if that is possible.                                  *)
SessionsKeep(cursor) == IF cursor THEN {"cursor"} ELSE {"direct", "cursor"}
Sessions(cursor) == IF cursor THEN {"cursor"} ELSE {"direct", "plain"}

(* snapshot(), with the value the control thread wrote last; a grab        *)
(* without a session, another error or a session that must be made again   *)
(* ends the capture.                                                       *)
Snapshot ==
    /\ fbc.live
    /\ \E s \in IF fbc.cursor # fbc.visible THEN Sessions(fbc.cursor) ELSE {fbc.session} :
        fbc' = IF s = "none" THEN [fbc EXCEPT !.live = FALSE]
               ELSE [fbc EXCEPT !.visible = fbc.cursor, !.session = s,
                                !.frame = [asked |-> fbc.cursor, session |-> s]]
    /\ UNCHANGED toggles /\ ConversionSame /\ NvencSame

FbcEnds ==
    /\ fbc.live /\ fbc' = [fbc EXCEPT !.live = FALSE, !.session = "none"]
    /\ UNCHANGED toggles /\ ConversionSame /\ NvencSame

Toggle ==
    /\ toggles < MaxToggles /\ toggles' = toggles + 1
    /\ fbc' = [fbc EXCEPT !.cursor = ~@]
    /\ ConversionSame /\ NvencSame

-----------------------------------------------------------------------------
(* configure_reference_frames(): without several references nothing can be *)
(* invalidated.                                                            *)
References(requested, several) ==
    LET n == IF requested > 0 THEN requested ELSE DefaultRefs
    IN  IF several THEN [dpb |-> n, rfi |-> TRUE] ELSE [dpb |-> 1, rfi |-> FALSE]

(* create_encoder(): a new encoder begins with a key frame and knows of no *)
(* frame; the numbers of the frames go on.                                 *)
CreateEncoder(requested, several) ==
    /\ ~enc.live /\ enc.made < MaxEncoders
    /\ enc' = [enc EXCEPT !.live = TRUE, !.made = @ + 1, !.known = 0, !.valid = {},
                          !.dpb = References(requested, several).dpb,
                          !.rfi = References(requested, several).rfi]
    /\ rfi' = [first |-> 0, last |-> 0, confirm |-> FALSE, idr |-> TRUE]
    /\ UNCHANGED <<asked, viewer>> /\ ConversionSame /\ FbcSame

DestroyEncoder ==
    /\ enc.live /\ enc' = [enc EXCEPT !.live = FALSE, !.valid = {}]
    /\ UNCHANGED <<rfi, asked, viewer>> /\ ConversionSame /\ FbcSame

(* NVENC holds the last frames, and refers to the newest it may use; with  *)
(* none it encodes a frame that needs no other.                            *)
Usable == {f \in enc.valid : f > enc.last - enc.dpb}
Newest(s) == CHOOSE f \in s : \A g \in s : g <= f

(* encode_frame(): a range that was invalidated is confirmed by the frame  *)
(* that follows.                                                           *)
EncodeFrame ==
    /\ enc.live /\ enc.last < MaxFrames
    /\ LET f == enc.last + 1
           intra == rfi.idr \/ Usable = {}
       IN  enc' = [enc EXCEPT !.last = f, !.known = f,
                              !.valid = (IF rfi.idr THEN {} ELSE @) \cup {f},
                              !.ref[f] = IF intra THEN 0 ELSE Newest(Usable),
                              !.kind[f] = IF rfi.idr THEN "idr" ELSE IF rfi.confirm THEN "rfi" ELSE "plain"]
    /\ rfi' = [rfi EXCEPT !.confirm = FALSE, !.idr = FALSE]
    /\ UNCHANGED <<asked, viewer>> /\ ConversionSame /\ FbcSame

(* invalidate_ref_frames(): from the first lost frame to the last one that *)
(* was encoded; when that is more than is held, or not a range, a key      *)
(* frame is forced.                                                        *)
Covered(r) == r[1] >= rfi.first /\ r[2] <= rfi.last
LastInvalidAsTold(r) == r[2]
LastInvalid(r) == enc.known

Invalidate ==
    /\ enc.live /\ asked # << >> /\ asked' = << >>
    /\ IF ~enc.rfi THEN rfi' = [rfi EXCEPT !.idr = TRUE] /\ UNCHANGED enc
       ELSE IF Covered(asked) THEN UNCHANGED <<enc, rfi>>
       ELSE IF asked[2] < asked[1]
       THEN rfi' = [rfi EXCEPT !.confirm = TRUE, !.idr = TRUE] /\ UNCHANGED enc
       ELSE LET last == LastInvalid(asked)
                held == last >= asked[1] - 1 /\ last - asked[1] + 1 < enc.dpb
            IN  /\ rfi' = [first |-> asked[1], last |-> last, confirm |-> TRUE, idr |-> rfi.idr \/ ~held]
                /\ enc' = [enc EXCEPT !.valid = IF held THEN @ \ (asked[1] .. last) ELSE @]
    /\ UNCHANGED viewer /\ ConversionSame /\ FbcSame

(* The client gets the next frame it has not seen, or a later one when     *)
(* those before were lost.  One it cannot decode makes it ask again, from  *)
(* the first frame it misses; a request that was not handled is replaced.  *)
Decodes(f) == enc.ref[f] = 0 \/ enc.ref[f] \in viewer.decoded

Receive(f) ==
    /\ f \in viewer.seen + 1 .. enc.last
    /\ viewer' = [decoded |-> IF Decodes(f) THEN viewer.decoded \cup {f} ELSE viewer.decoded, seen |-> f]
    /\ asked' = IF Decodes(f) THEN asked
                ELSE <<(IF viewer.decoded = {} THEN 0 ELSE Newest(viewer.decoded)) + 1, f>>
    /\ UNCHANGED <<enc, rfi>> /\ ConversionSame /\ FbcSame

Next ==
    \/ \E ok \in BOOLEAN : MakeDevice(ok) \/ ConvertGl(Given, ok) \/ ConvertVulkan(Given, ok)
    \/ DropDevice \/ (\E c \in 0 .. MaxImages : NextImage(c))
    \/ FbcStarts \/ Snapshot \/ FbcEnds \/ Toggle
    \/ (\E n \in RefFrames, several \in BOOLEAN : CreateEncoder(n, several)) \/ DestroyEncoder
    \/ EncodeFrame \/ Invalidate \/ (\E f \in 1 .. MaxFrames : Receive(f))

Spec == Init /\ [][Next]_encodeVars

-----------------------------------------------------------------------------
(* A converted frame shows the image it was converted from, with its       *)
(* cursor, whatever was imported, skipped or drawn before.                 *)
ShowsTheImage ==
    [][\A ok \in BOOLEAN : (ConvertGl(Given, ok) \/ ConvertVulkan(Given, ok)) /\ device' = "ready"
        => target' = [image |-> Given.sequence, cursor |-> Given.cursor]]_encodeVars

(* A frame NvFBC grabbed has the cursor exactly when it was asked for as   *)
(* the frame was taken, however the control thread toggles it.             *)
GrabsAsAsked ==
    fbc.frame.session # "none" => (fbc.frame.session = "cursor") = fbc.frame.asked

(* Under observation: the first snapshot of a capture makes a session.     *)
FirstMakesSession == fbc.live /\ fbc.session = "none" => fbc.visible # fbc.cursor

(* The picture lies inside the frame, whatever the two shapes, and for the *)
(* chroma plane of Vulkan at even places.                                  *)
PictureFits ==
    device = "ready" /\ target = Nothing =>
        \A a, b, c, d \in Sizes :
            /\ \A p \in {FitNv12(a, b, c, d), FitYuv444(a, b, c, d), FitVulkan(a, b, c, d)} :
                p.x >= 0 /\ p.y >= 0 /\ p.x + p.w <= c /\ p.y + p.h <= d
            /\ LET p == FitVulkan(a, b, c, d) IN \A n \in {p.x, p.y, p.w, p.h} : n % 2 = 0

(* The picture is in the middle of the frame. *)
PictureIsCentred ==
    device = "ready" /\ target = Nothing =>
        \A a, b, c, d \in Sizes :
            \A p \in {FitNv12(a, b, c, d), FitYuv444(a, b, c, d)} :
                2 * p.x <= c - p.w /\ 2 * p.y <= d - p.h

(* A frame that says the references were invalidated can be decoded by the *)
(* client that gets it: neither it nor what it refers to was lost, however *)
(* many losses and requests crossed.                                       *)
ConfirmedIsDecodable ==
    [][\A f \in 1 .. MaxFrames : Receive(f) /\ enc.kind[f] = "rfi" => f \in viewer'.decoded]_encodeVars
=============================================================================
