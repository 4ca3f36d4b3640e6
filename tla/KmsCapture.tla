----------------------------- MODULE KmsCapture -----------------------------
(***************************************************************************)
(* Capture of the scanout through KMS (platform/linux/kmsgrab.cpp): the    *)
(* names of the displays, the choice of a plane, the capture loop that     *)
(* exports the plane's framebuffer into images of a pool, and the cursor   *)
(* plane that is read separately and drawn by the encoder.  Calls that     *)
(* need CAP_SYS_ADMIN run on one privileged worker thread.                 *)
(***************************************************************************)
EXTENDS Integers, Sequences, SequencesExt

CONSTANTS
    Planes,      \* the primary planes, a sequence in the order of the card
    Images,      \* the images of the pool
    MaxChanges   \* bound on changes of the desktop

VARIABLES
    scene,      \* plane -> "off", "ok", "unreadable" or "nohandle"
    resized,    \* the plane's framebuffer has another size than at init()
    hdrChanged, \* the connector's HDR metadata is not that of init()
    shape,      \* the cursor plane: "none", or the framebuffer it shows
    legible,    \* the cursor's framebuffer can be mapped
    changes,    \* changes of the desktop so far
    worker,     \* the privileged worker: "admin", "dropped"
    names,      \* display_names: the planes they stand for
    index,      \* plane -> monitor_index of its monitor descriptor
    wanted,     \* the plane whose name init() was given, or "none"
    plane,      \* plane_id, or "none" when no display is open
    ram,        \* display_ram_t copies the frame, display_vram_t exports it
    cursorOff,  \* cursor_plane_id < 0
    cursor,     \* captured_cursor: visible, fb_id and serial
    pixels,     \* captured_cursor.pixels
    pc,         \* where the capture loop is
    mine,       \* the image that is being filled, or "none"
    fds,        \* image -> its descriptors: "none", "owned" or "closed"
    drawn,      \* image -> the cursor pixels in its buffer, and their serial
    shown       \* image -> it carries a cursor

kmsVars == <<scene, resized, hdrChanged, shape, legible, changes, worker,
             names, index, wanted, plane, ram, cursorOff, cursor, pixels, pc,
             mine, fds, drawn, shown>>
desktopVars == <<scene, resized, hdrChanged, shape, legible, changes>>
cursorVars == <<ram, cursorOff, cursor, pixels>>
imageVars == <<mine, fds, drawn, shown>>

Displays == ToSet(Planes)
Shapes == {"none", "arrow", "hand"}
NoPixels == [image |-> "none", serial |-> 0]

Init ==
    /\ scene \in [Displays -> {"ok", "unreadable"}]
    /\ resized = FALSE /\ hdrChanged = FALSE
    /\ shape \in Shapes /\ legible = TRUE /\ changes = 0
    /\ worker = "admin"
    /\ names = <<>> /\ index = [p \in Displays |-> 0] /\ wanted = "none"
    /\ plane = "none" /\ ram = FALSE /\ cursorOff = FALSE
    /\ cursor = [visible |-> FALSE, fb |-> "none", serial |-> 0]
    /\ pixels = "none" /\ pc = "closed"
    /\ mine = "none" /\ fds = [i \in Images |-> "none"]
    /\ drawn = [i \in Images |-> NoPixels] /\ shown = [i \in Images |-> FALSE]

(* The framebuffer is read through the worker: without its capability the  *)
(* handles are withheld.                                                   *)
Fb(p) == IF scene[p] = "ok" /\ worker = "dropped" THEN "nohandle" ELSE scene[p]

-----------------------------------------------------------------------------
(* The desktop changes: a plane, a mode, the HDR metadata or the cursor.   *)
Desktop ==
    /\ changes < MaxChanges /\ changes' = changes + 1
    /\ \/ /\ \E p \in Displays, s \in {"off", "ok", "unreadable"} :
                scene' = [scene EXCEPT ![p] = s]
          /\ UNCHANGED <<resized, hdrChanged, shape, legible>>
       \/ /\ resized' = TRUE /\ UNCHANGED <<scene, hdrChanged, shape, legible>>
       \/ /\ hdrChanged' = TRUE /\ UNCHANGED <<scene, resized, shape, legible>>
       \/ /\ shape' \in Shapes \ {shape} /\ legible' \in BOOLEAN
          /\ UNCHANGED <<scene, resized, hdrChanged>>
    /\ UNCHANGED <<worker, names, index, wanted, plane, cursorVars, pc,
                   imageVars>>

(* drop_elevated_privileges(), run on the worker after the probing. *)
DropPrivileges ==
    /\ worker = "admin" /\ worker' = "dropped"
    /\ UNCHANGED <<desktopVars, names, index, wanted, plane, cursorVars, pc,
                   imageVars>>

(* kms_display_names(): the planes with a framebuffer that can be read, up *)
(* to one without handles; the descriptors keep the number of each.        *)
Readable ==
    LET stops == {k \in 1..Len(Planes) : Fb(Planes[k]) = "nohandle"}
        end == IF stops = {} THEN Len(Planes) + 1
               ELSE CHOOSE k \in stops : \A j \in stops : k <= j
    IN  SelectSeq(SubSeq(Planes, 1, end - 1), LAMBDA p : scene[p] = "ok")

DisplayNames ==
    /\ pc = "closed"
    /\ names' = Readable
    /\ index' = [p \in Displays |->
                    IF Contains(Readable, p) THEN IndexFirstSubSeq(<<p>>, Readable) - 1
                    ELSE 0]
    /\ UNCHANGED <<desktopVars, worker, wanted, plane, cursorVars, pc, imageVars>>

(* card_t::init() and the walk over the cards: a card that cannot be       *)
(* opened or belongs to the other GPU is skipped.                          *)
InUse == SelectSeq(Planes, LAMBDA p : scene[p] # "off")

(* map_display_name_to_monitor_index() *)
MonitorIndex(p) == index[p]

(* init(): the planes in use are counted up to the index of the name; its  *)
(* framebuffer must be readable.                                           *)
Open(p) ==
    /\ pc = "closed" /\ Contains(names, p)
    /\ wanted' = p
    /\ IF MonitorIndex(p) < Len(InUse) /\ Fb(InUse[MonitorIndex(p) + 1]) = "ok"
       THEN /\ plane' = InUse[MonitorIndex(p) + 1] /\ pc' = "cursor"
            /\ resized' = FALSE /\ hdrChanged' = FALSE
       ELSE UNCHANGED <<plane, pc, resized, hdrChanged>>
    /\ UNCHANGED <<scene, shape, legible, changes, worker, names, index,
                   cursorVars, imageVars>>

(* kms_display(): the frames stay in video memory when the encoder works   *)
(* there and that display can be made, otherwise they are copied.          *)
SelectMemory ==
    /\ pc = "cursor" /\ pc' = "plane"
    /\ ram' \in BOOLEAN
    /\ UNCHANGED <<desktopVars, worker, names, index, wanted, plane,
                   cursorOff, cursor, pixels, imageVars>>

(* The cursor plane of the CRTC, if the driver has one. *)
FindCursorPlane ==
    /\ pc = "plane" /\ pc' = "loop"
    /\ cursorOff' \in BOOLEAN
    /\ cursor' = [visible |-> FALSE, fb |-> "none", serial |-> 0]
    /\ pixels' = "none"
    /\ UNCHANGED <<desktopVars, worker, names, index, wanted, plane, ram,
                   imageVars>>

-----------------------------------------------------------------------------
(* snapshot(): display_vram_t pulls an image first and makes it give its   *)
(* descriptors back, display_ram_t pulls one for a frame it has.           *)
RamSnapshot ==
    /\ pc = "loop" /\ ram /\ pc' = "refresh"
    /\ UNCHANGED <<desktopVars, worker, names, index, wanted, plane,
                   cursorVars, imageVars>>

PullImage(i) ==
    /\ \/ pc = "loop" /\ ~ram /\ pc' = "refresh"
       \/ pc = "pull" /\ pc' = "blend"
    /\ mine' = i
    /\ fds' = [fds EXCEPT ![i] = "none"]
    /\ UNCHANGED <<desktopVars, worker, names, index, wanted, plane,
                   cursorVars, drawn, shown>>

Close == plane' = "none" /\ wanted' = "none" /\ pc' = "drain" /\ mine' = "none"

(* refresh(): a framebuffer without handles, or one that cannot be         *)
(* exported, ends the capture; one that cannot be read is a timeout.       *)
RefreshFails ==
    /\ pc = "refresh" /\ Fb(plane) # "ok"
    /\ IF Fb(plane) = "nohandle" THEN Close
       ELSE pc' = "loop" /\ mine' = "none" /\ UNCHANGED <<plane, wanted>>
    /\ UNCHANGED <<desktopVars, worker, names, index, cursorVars, fds, drawn,
                   shown>>

(* A change of the HDR metadata is noticed first, one of the size after    *)
(* the descriptors were exported: they are closed when snapshot() returns. *)
RefreshReinit ==
    /\ pc = "refresh"
    /\ \/ hdrChanged /\ UNCHANGED fds
       \/ /\ ~hdrChanged /\ resized /\ Fb(plane) = "ok"
          /\ fds' = IF ram THEN fds ELSE [fds EXCEPT ![mine] = "closed"]
    /\ Close
    /\ UNCHANGED <<desktopVars, worker, names, index, cursorVars, drawn, shown>>

RefreshOk ==
    /\ pc = "refresh" /\ ~hdrChanged /\ ~resized /\ Fb(plane) = "ok"
    /\ fds' = IF ram THEN fds ELSE [fds EXCEPT ![mine] = "owned"]
    /\ pc' = "update"
    /\ UNCHANGED <<desktopVars, worker, names, index, wanted, plane,
                   cursorVars, mine, drawn, shown>>

(* What cannot be read hides the cursor; a format that is not supported    *)
(* also gives the cursor plane up.                                         *)
CursorUnreadable ==
    /\ cursor' = [cursor EXCEPT !.visible = FALSE]
    /\ cursorOff' \in {cursorOff, TRUE}
    /\ UNCHANGED pixels

(* The pixels are downloaded, and every image's copy becomes old. *)
CursorDownloaded ==
    /\ cursor' = [visible |-> TRUE, fb |-> shape, serial |-> cursor.serial + 1]
    /\ pixels' = shape
    /\ UNCHANGED cursorOff

(* update_cursor(): the plane is looked at for every frame, its pixels are *)
(* read when it shows another framebuffer, or part of it, than before.     *)
UpdateCursor ==
    /\ pc = "update" /\ pc' = IF ram THEN "pull" ELSE "blend"
    /\ \/ (cursorOff \/ (shape = cursor.fb /\ shape # "none"))
          /\ UNCHANGED <<cursorOff, cursor, pixels>>
       \/ /\ ~cursorOff /\ shape = "none"
          /\ cursor' = [cursor EXCEPT !.visible = FALSE, !.fb = "none"]
          /\ UNCHANGED <<cursorOff, pixels>>
       \/ /\ ~cursorOff /\ shape \notin {"none", cursor.fb}
          /\ IF legible THEN CursorDownloaded ELSE CursorUnreadable
    /\ UNCHANGED <<desktopVars, worker, names, index, wanted, plane, ram,
                   imageVars>>

(* A bug: the image's own copy is only made once. *)
BlendOnce ==
    /\ pc = "blend" /\ ~ram /\ pc' = "push"
    /\ shown' = [shown EXCEPT ![mine] = cursor.visible]
    /\ drawn' = IF cursor.visible /\ drawn[mine].image = "none"
                THEN [drawn EXCEPT ![mine] = [image |-> pixels, serial |-> cursor.serial]]
                ELSE drawn
    /\ UNCHANGED <<desktopVars, worker, names, index, wanted, plane,
                   cursorVars, mine, fds>>

(* The image gets new cursor pixels when its serial is not the current     *)
(* one; the client may have asked for no cursor at all.                    *)
Blend ==
    /\ pc = "blend" /\ ~ram /\ pc' = "push"
    /\ shown' = [shown EXCEPT ![mine] = cursor.visible]
    /\ drawn' = IF cursor.visible /\ drawn[mine].serial # cursor.serial
                THEN [drawn EXCEPT ![mine] = [image |-> pixels, serial |-> cursor.serial]]
                ELSE drawn
    /\ UNCHANGED <<desktopVars, worker, names, index, wanted, plane,
                   cursorVars, mine, fds>>

(* A bug: the overlap is counted from the cursor's own origin. *)
OverlapUnskipped(at, size, screen) ==
    LET to == Max({0, at})
        skip == to - Max({-size, at})
    IN  [to |-> to, skip |-> skip, n |-> Min({size, Max({0, screen - to})})]

(* blend_cursor(): in one dimension, where the cursor of the given size    *)
(* starts in the image, what is skipped of it and how much is drawn.       *)
Overlap(at, size, screen) ==
    LET to == Max({0, at})
        skip == to - Max({-size, at})
    IN  [to |-> to, skip |-> skip, n |-> Min({size, Max({0, screen - to})}) - skip]

(* The copied frame has no cursor of an earlier one. *)
BlendCopied ==
    /\ pc = "blend" /\ ram /\ pc' = "push"
    /\ shown' = [shown EXCEPT ![mine] = cursor.visible]
    /\ drawn' = [drawn EXCEPT ![mine] =
                    IF cursor.visible THEN [image |-> pixels, serial |-> cursor.serial]
                    ELSE NoPixels]
    /\ UNCHANGED <<desktopVars, worker, names, index, wanted, plane,
                   cursorVars, mine, fds>>

(* The descriptors now belong to the image. *)
PushImage ==
    /\ pc = "push" /\ mine' = "none"
    /\ \/ pc' = "loop" /\ UNCHANGED <<plane, wanted>>
       \/ pc' = "drain" /\ plane' = "none" /\ wanted' = "none"
    /\ UNCHANGED <<desktopVars, worker, names, index, cursorVars, fds, drawn,
                   shown>>

(* captureThread() forgets the images before it opens another display.     *)
DropImages ==
    /\ pc = "drain" /\ pc' = "closed"
    /\ fds' = [i \in Images |-> "none"]
    /\ drawn' = [i \in Images |-> NoPixels]
    /\ shown' = [i \in Images |-> FALSE]
    /\ UNCHANGED <<desktopVars, worker, names, index, wanted, plane,
                   cursorVars, mine>>

Next ==
    \/ Desktop \/ DropPrivileges \/ DisplayNames \/ SelectMemory
    \/ FindCursorPlane \/ RamSnapshot \/ BlendCopied
    \/ RefreshFails \/ RefreshReinit \/ RefreshOk \/ UpdateCursor \/ Blend
    \/ PushImage \/ DropImages
    \/ \E p \in Displays : Open(p)
    \/ \E i \in Images : PullImage(i)

Spec == Init /\ [][Next]_kmsVars

-----------------------------------------------------------------------------
(* A frame that carries a cursor carries the one that was captured with    *)
(* it, though images are reused and the pixels are copied only when their  *)
(* serial is old.                                                          *)
CursorIsCurrent ==
    pc = "push" /\ shown[mine] => drawn[mine].image = cursor.fb

(* What blend_cursor() draws is the part of the cursor that lies in the    *)
(* image, wherever the cursor is.                                          *)
DrawsTheOverlap ==
    \A size \in 1..3, screen \in 3..5 : \A at \in -5..7 :
        LET o == Overlap(at, size, screen)
        IN  {o.to + k : k \in 0..(o.n - 1)}
              = {x \in 0..(screen - 1) : at <= x /\ x < at + size}
            /\ (o.n > 0 => o.to - at = o.skip)

(* When the plane shows the captured framebuffer, the cursor is visible.   *)
VisibleCursorIsShown ==
    [][ pc = "update" /\ pc' \in {"pull", "blend"} /\ ~cursorOff /\ shape = cursor'.fb
            /\ shape # "none" => cursor'.visible ]_kmsVars

(* A display is opened on the monitor whose name was given. *)
CapturesNamed == plane # "none" => plane = wanted

(* An image never holds a descriptor that has been closed: its next reset  *)
(* would close the number again.                                           *)
ImageFdsAreOpen == \A i \in Images : fds[i] # "closed"
=============================================================================
