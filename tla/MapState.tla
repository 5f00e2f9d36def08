------------------------------ MODULE MapState ------------------------------
(***************************************************************************)
(* How fvwm keeps track of which windows are mapped: MapRequest,           *)
(* MapNotify, UnmapNotify and DestroyNotify (events.c), Iconify and        *)
(* DeIconify (icons.c), the switch of a desk (virtual.c), the way out of a *)
(* restart (Reborder) and back in (CaptureAllWindows, add_window.c).       *)
(*                                                                         *)
(* Three parties act on a window: its client, the user (whose commands     *)
(* fvwm runs) and fvwm.  The X server applies their requests at once, and  *)
(* tells fvwm later: win[w].q holds the events about w that fvwm has not   *)
(* handled yet.  So what fvwm remembers of a window (mapped, iconified and *)
(* four pending flags) lags behind the server, and commands run on the     *)
(* stale record.                                                           *)
(*                                                                         *)
(* A handler runs to its end before the client acts again: most handlers   *)
(* grab the server, and the others are short.  No handler looks at two     *)
(* windows, hence the events of each window have a queue of their own.     *)
(* Transient windows, pages, sticky windows and the focus are left out.    *)
(***************************************************************************)
EXTENDS Naturals, Sequences, SequencesExt

CONSTANTS
    Windows,
    Desks,
    Hints,       \* WM_HINTS.initial_state of a window: {"Normal", "Iconic"}
    Hasty,       \* requests that a client makes before fvwm has answered the
                 \* last: a subset of {"map", "withdraw", "iconify"}
    Crossing,    \* commands may run while a request of a client waits
    MaxBurst,    \* bound: commands since all events had been handled
    MaxQueue,    \* bound: events of one window that wait
    MaxRequests, \* bound: requests of one client
    MaxStops     \* bound: restarts and crashes

ASSUME MapStateAssumption ==
    /\ Desks # {} /\ Hints \subseteq {"Normal", "Iconic"} /\ Hints # {}
    /\ Hasty \subseteq {"map", "withdraw", "iconify"} /\ Crossing \in BOOLEAN
    /\ MaxBurst \in Nat /\ MaxQueue \in Nat
    /\ MaxRequests \in Nat /\ MaxStops \in Nat

VARIABLES
    win,       \* the windows, at the server and in fvwm's records
    curDesk,   \* CurrentDesk
    phase,     \* "running", "down" (no window manager), "startup"
    burst,     \* commands since all events had been handled (bounded)
    stops      \* restarts and crashes so far (bounded)

vars == <<win, curDesk, phase, burst, stops>>

-----------------------------------------------------------------------------
(* A window.  What the server knows: exists, up (the client window is      *)
(* mapped), frameUp, prop (WM_STATE), and capture (StructureNotify is      *)
(* selected on the frame).  What fvwm remembers: managed, mapped,          *)
(* iconified, iconifyPending, mapPending, iconifyAfterMap, desk.  The      *)
(* client window is in the frame, and its StructureNotify selected, as     *)
(* long as fvwm manages it.  hint is the client's, q the events on their   *)
(* way, wants what the client last asked for, order what fvwm was last     *)
(* told (to show the window normal or iconic); the last two are history.   *)

EventTypes ==
    {"MapRequest", "MapRequestInFrame", "MapNotify", "FrameMapNotify",
     "UnmapNotify", "FakeUnmapNotify", "FrameUnmapNotify", "DestroyNotify",
     "ChangeState"}

Window ==
    [exists : BOOLEAN, up : BOOLEAN, frameUp : BOOLEAN, capture : BOOLEAN,
     prop : {"None", "Withdrawn", "Normal", "Iconic"},
     managed : BOOLEAN, mapped : BOOLEAN, iconified : BOOLEAN,
     iconifyPending : BOOLEAN, mapPending : BOOLEAN,
     iconifyAfterMap : BOOLEAN, desk : Desks,
     hint : Hints, q : Seq(EventTypes),
     wants : {"map", "withdraw"}, order : {"Normal", "Iconic"}, asked : Nat]

(* the record is freed and the frame destroyed *)
Forgotten(s) ==
    [s EXCEPT !.managed = FALSE, !.mapped = FALSE, !.iconified = FALSE,
              !.iconifyPending = FALSE, !.mapPending = FALSE,
              !.iconifyAfterMap = FALSE, !.capture = FALSE,
              !.frameUp = FALSE]

Tell(s, type) == [s EXCEPT !.q = Append(@, type)]

Has(s, type) == \E i \in DOMAIN s.q : s.q[i] = type

(* FCheckTypedWindowEvent takes the first such event out of the queue *)
Take(s, type) == [s EXCEPT !.q = RemoveFirst(@, type)]

-----------------------------------------------------------------------------
(* Requests to the server *)

Viewable(s) == s.up /\ s.frameUp

(* XMapWindow(FW_W(fw)) *)
MapClient(s) ==
    IF s.up \/ ~s.exists THEN s
    ELSE LET t == [s EXCEPT !.up = TRUE]
         IN  IF s.managed THEN Tell(t, "MapNotify") ELSE t

(* XMapWindow(FW_W_FRAME(fw)): without capture only the root reports it,
   and HandleMapNotify finds no window for the root's event *)
MapFrame(s) ==
    IF s.frameUp THEN s
    ELSE LET t == [s EXCEPT !.frameUp = TRUE]
         IN  IF s.capture THEN Tell(t, "FrameMapNotify") ELSE t

(* XUnmapWindow(FW_W_FRAME(fw)), which the root reports too *)
UnmapFrame(s) ==
    LET t == [s EXCEPT !.frameUp = FALSE]
    IN  IF ~s.frameUp THEN s
        ELSE IF s.capture
             THEN Tell(Tell(t, "FrameUnmapNotify"), "FrameUnmapNotify")
             ELSE Tell(t, "FrameUnmapNotify")

SetMapStateProp(s, state) == IF s.exists THEN [s EXCEPT !.prop = state] ELSE s

(* XReparentWindow to the root: a mapped window is unmapped and mapped *)
ToRoot(s) ==
    IF s.up THEN Tell(Tell(s, "UnmapNotify"), "MapNotify") ELSE s

-----------------------------------------------------------------------------
(* What fvwm does with one window.  Each operator takes the window and     *)
(* returns it changed, so that handlers and commands compose.              *)

(* the events of a queue that are not about the frame *)
AboutClient(q) ==
    LET kept[n \in 0 .. Len(q)] ==
            IF n = 0 THEN <<>>
            ELSE IF q[n] \in {"FrameMapNotify", "FrameUnmapNotify", "MapRequestInFrame"}
            THEN kept[n - 1] ELSE Append(kept[n - 1], q[n])
    IN  kept[Len(q)]

(* destroy_window: events about the frame no longer find the window *)
DestroyWindow(s) == Forgotten([s EXCEPT !.q = AboutClient(@)])

(* a slip: the client window is unmapped with its StructureNotify selected *)
IconifyLoud(s) ==
    IF s.exists /\ s.up /\ ~(s.mapPending /\ ~Viewable(s))
    THEN SetMapStateProp(
             Tell(UnmapFrame([s EXCEPT !.order = "Iconic", !.up = FALSE,
                                       !.mapPending = FALSE, !.mapped = FALSE,
                                       !.iconifyPending = TRUE,
                                       !.iconified = TRUE]), "UnmapNotify"),
             "Iconic")
    ELSE s

(* Iconify: a window that is about to be mapped is iconified later *)
Iconify(s) ==
    LET t == [s EXCEPT !.order = "Iconic",
                       !.mapPending = @ /\ ~Viewable(s)]
    IN  IF ~s.exists THEN s
        ELSE IF t.mapPending THEN [t EXCEPT !.iconifyAfterMap = TRUE]
        ELSE SetMapStateProp(
                 UnmapFrame([t EXCEPT !.up = FALSE, !.mapped = FALSE,
                                      !.iconifyPending = TRUE,
                                      !.iconified = TRUE]),
                 "Iconic")

(* DeIconify *)
DeIconify(s, cur) ==
    LET t == [s EXCEPT !.order = "Normal",
                       !.mapPending = @ /\ ~Viewable(s)]
        c == MapClient([t EXCEPT !.mapped = TRUE, !.iconified = FALSE])
        m == IF s.desk = cur
             THEN [MapFrame(c) EXCEPT !.mapPending = TRUE] ELSE c
    IN  IF ~s.exists THEN s
        ELSE IF t.mapPending THEN [t EXCEPT !.iconifyAfterMap = FALSE]
        ELSE SetMapStateProp(m, "Normal")

(* AddWindow: decorations, the client goes into the frame *)
AddWindow(s, d) ==
    [s EXCEPT !.managed = TRUE, !.mapped = FALSE, !.iconified = FALSE,
              !.iconifyPending = FALSE, !.mapPending = FALSE,
              !.iconifyAfterMap = FALSE, !.capture = TRUE,
              !.frameUp = FALSE, !.desk = d]

(* the switch of HandleMapRequestKeepRaised for a window that is neither
   iconified nor mapped *)
FirstMap(s, state, cur) ==
    IF state = "Iconic" THEN Iconify(s)
    ELSE IF s.desk = cur
    THEN SetMapStateProp(
             MapClient(MapFrame([s EXCEPT !.mapPending = TRUE,
                                          !.order = "Normal"])),
             "Normal")
    ELSE SetMapStateProp(MapClient([s EXCEPT !.order = "Normal"]), "Normal")

(* a slip: a window that is not mapped is mapped, icon or not *)
MapRequestedIcon(s, d, cur) ==
    IF s.mapPending \/ (~s.managed /\ ~s.exists) THEN s
    ELSE LET t == IF s.managed THEN s ELSE AddWindow(s, d)
         IN  IF t.mapped THEN t ELSE FirstMap(t, t.hint, cur)

(* HandleMapRequestKeepRaised: d is the desk that AddWindow chooses.  The
   faked MapNotify for a mapped window goes to the client alone. *)
MapRequested(s, d, cur) ==
    IF s.mapPending \/ (~s.managed /\ ~s.exists) THEN s
    ELSE LET t == IF s.managed THEN s ELSE AddWindow(s, d)
         IN  IF t.iconified THEN DeIconify(t, cur)
             ELSE IF t.mapped THEN t
             ELSE FirstMap(t, t.hint, cur)

(* a slip: the map state of a window that is being iconified is trusted *)
MapNotifiedAlways(s, cur) ==
    LET t == [s EXCEPT !.mapPending = FALSE, !.mapped = TRUE,
                       !.iconified = FALSE]
    IN  IF ~s.managed THEN s ELSE IF s.desk = cur THEN MapFrame(t) ELSE t

(* HandleMapNotify, for the client window or for the first of the frame *)
MapNotified(s, cur) ==
    LET t == [s EXCEPT !.mapPending = FALSE]
        f == IF s.desk = cur THEN MapFrame(t) ELSE t
        m == [f EXCEPT !.mapped = TRUE, !.iconified = FALSE]
    IN  IF ~s.managed THEN s
        ELSE IF s.iconifyPending THEN t
        ELSE IF m.iconifyAfterMap
             THEN [Iconify(m) EXCEPT !.iconifyAfterMap = FALSE]
             ELSE m

(* HandleMapNotify for the frame gives up its StructureNotify first *)
FrameMapNotified(s, cur) ==
    MapNotified([s EXCEPT !.capture = FALSE], cur)

(* the way of a window into the Withdrawn state *)
Withdrawn(s) ==
    ToRoot(SetMapStateProp(s, "Withdrawn"))

(* HandleUnmapNotify for the client window: d is the desk of the window
   that is mapped again by a request found in the queue *)
UnmapNotified(s, d, cur) ==
    LET w == Withdrawn(s)
        again == Has(s, "MapRequestInFrame")
    IN  IF ~(s.mapped \/ s.iconified) THEN s
        ELSE IF Has(s, "DestroyNotify")
        THEN DestroyWindow(Take(s, "DestroyNotify"))
        ELSE IF again THEN MapRequested(DestroyWindow(w), d, cur)
        ELSE DestroyWindow(w)

(* HandleDestroyNotify *)
DestroyNotified(s) == IF s.managed THEN DestroyWindow(s) ELSE s

(* HandleClientMessage: WM_CHANGE_STATE runs the command Iconify *)
ChangeStateAsked(s) ==
    IF s.managed /\ ~s.iconified THEN Iconify(s) ELSE s

(* dispatch_event: s is the window without the event *)
Dispatched(s, type, d, cur) ==
    CASE type \in {"MapRequest", "MapRequestInFrame"} -> MapRequested(s, d, cur)
      [] type = "MapNotify"         -> MapNotified(s, cur)
      [] type = "FrameMapNotify"    -> FrameMapNotified(s, cur)
      [] type \in {"UnmapNotify", "FakeUnmapNotify"} -> UnmapNotified(s, d, cur)
      [] type = "FrameUnmapNotify"  -> [s EXCEPT !.iconifyPending = FALSE]
      [] type = "DestroyNotify"     -> DestroyNotified(s)
      [] OTHER                      -> ChangeStateAsked(s)

(* while fvwm starts up no window is managed, and a request to map a
   window is granted without a frame *)
DispatchedInStartup(s, type) ==
    IF type = "MapRequest" THEN MapClient(s) ELSE s

(* a slip: a window that is not mapped yet is left alone *)
UnmapMappedWindow(s) ==
    IF ~s.managed \/ ~s.mapped THEN s
    ELSE SetMapStateProp(UnmapFrame(s), "Iconic")

(* unmap_window and map_window: the client window stays mapped in a frame
   that is not (ICCCM2_UNMAP_WINDOW_PATCH is 0) *)
UnmapWindow(s) ==
    IF ~s.managed \/ s.iconified THEN s
    ELSE SetMapStateProp(UnmapFrame(s), "Iconic")

MapWindow(s) ==
    IF ~s.managed \/ s.iconified \/ ~s.mapped THEN s
    ELSE SetMapStateProp(MapFrame(s), "Normal")

(* one window of UnmapDesk and MapDesk *)
DeskSwitched(s, from, to) ==
    IF s.desk = from THEN UnmapWindow(s)
    ELSE IF s.desk = to THEN MapWindow(s) ELSE s

(* the windows of the save set, which the server maps when the connection of
   fvwm is closed: whatever is managed *)
InSaveSet(s) == s.managed /\ s.exists

(* one window of Reborder, and of XCloseDisplay in Done, which maps icons *)
Reborder(s, cur) ==
    LET t == IF ~s.iconified /\ s.desk # cur
             THEN SetMapStateProp(MapClient(s), "Normal") ELSE s
    IN  [Forgotten(IF s.managed THEN t ELSE s) EXCEPT
            !.up = @ \/ InSaveSet(s), !.q = <<>>]

(* one window when fvwm dies without Reborder: the server takes the windows
   of the save set out of the frames and maps them.  What the client asked
   for and fvwm had not heard of is lost, and a window on another desk
   keeps the WM_STATE Iconic. *)
SaveSet(s, d) ==
    LET up == s.up \/ InSaveSet(s)
    IN  [Forgotten(s) EXCEPT !.up = up, !.desk = d, !.q = <<>>,
             !.wants = IF up THEN "map" ELSE "withdraw",
             !.order = IF s.prop = "Iconic" THEN "Iconic" ELSE @]

(* slip: the hint of the client overrides WM_STATE *)
CapturedByHint(s, cur) ==
    IF s.exists /\ (s.up \/ s.prop = "Iconic")
    THEN [FirstMap(AddWindow([s EXCEPT !.up = FALSE], s.desk), s.hint, cur)
            EXCEPT !.order = s.order] ELSE s

(* one window of CaptureAllWindows, which trusts the WM_STATE of a window
   that was managed before rather than the hint of the client *)
Captured(s, cur) ==
    LET known == s.prop \in {"Iconic", "Normal"}
        t == FirstMap(AddWindow([s EXCEPT !.up = FALSE], s.desk),
                      IF known THEN s.prop ELSE s.hint, cur)
    IN  IF s.exists /\ (s.up \/ s.prop = "Iconic")
        THEN [t EXCEPT !.order = IF known THEN s.order ELSE @] ELSE s

-----------------------------------------------------------------------------
(* The client *)

Room(s) == Len(s.q) + 3 <= MaxQueue

CanAsk(w, what) ==
    /\ win[w].exists /\ win[w].asked < MaxRequests /\ Room(win[w])
    /\ what \in Hasty \/ (win[w].q = <<>> /\ phase = "running")

(* a request of the client that fvwm has not heard of *)
Requests == {"MapRequest", "MapRequestInFrame", "UnmapNotify",
             "FakeUnmapNotify", "DestroyNotify", "ChangeState"}

RequestWaits(s) == \E type \in Requests : Has(s, type)

Asks(s, what) == [s EXCEPT !.wants = what, !.asked = @ + 1]

(* XMapWindow: redirected to fvwm, if there is one *)
MapAsked(s) ==
    IF s.up THEN s
    ELSE IF s.managed THEN Tell(s, "MapRequestInFrame")
    ELSE IF phase = "down" THEN [s EXCEPT !.up = TRUE]
    ELSE Tell(s, "MapRequest")

ClientMap(w) ==
    /\ CanAsk(w, "map")
    /\ win' = [win EXCEPT ![w] = Asks(MapAsked(@), "map")]
    /\ UNCHANGED <<curDesk, phase, burst, stops>>

(* XWithdrawWindow: the window is unmapped, and a synthetic UnmapNotify is
   sent to the root *)
WithdrawAsked(s) ==
    LET t == IF s.up /\ s.managed THEN Tell(s, "UnmapNotify") ELSE s
        u == [t EXCEPT !.up = FALSE]
    IN  IF phase = "down" THEN u ELSE Tell(u, "FakeUnmapNotify")

ClientWithdraw(w) ==
    /\ CanAsk(w, "withdraw")
    /\ win' = [win EXCEPT ![w] = Asks(WithdrawAsked(@), "withdraw")]
    /\ UNCHANGED <<curDesk, phase, burst, stops>>

(* XIconifyWindow: the message WM_CHANGE_STATE *)
ClientIconify(w) ==
    /\ CanAsk(w, "iconify") /\ phase # "down" /\ win[w].wants = "map"
    /\ win' = [win EXCEPT ![w] = Tell([win[w] EXCEPT !.asked = @ + 1],
                                      "ChangeState")]
    /\ UNCHANGED <<curDesk, phase, burst, stops>>

(* XDestroyWindow, or the end of the client's connection *)
Gone(s) ==
    LET t == IF s.up /\ s.managed THEN Tell(s, "UnmapNotify") ELSE s
        u == IF s.managed THEN Tell(t, "DestroyNotify") ELSE t
    IN  [u EXCEPT !.exists = FALSE, !.up = FALSE,
                  !.prop = "None"]

ClientDestroy(w) ==
    /\ CanAsk(w, "withdraw")
    /\ win' = [win EXCEPT ![w] = Asks(Gone(@), "withdraw")]
    /\ UNCHANGED <<curDesk, phase, burst, stops>>

-----------------------------------------------------------------------------
(* The user *)

CanCommand ==
    /\ phase = "running" /\ burst < MaxBurst
    /\ \A w \in Windows : Room(win[w])
    /\ ~Crossing => \A w \in Windows : ~RequestWaits(win[w])

CountBurst(n) ==
    burst' = IF \A w \in Windows : win'[w].q = <<>> THEN 0 ELSE n

(* CMD_Iconify *)
UserIconify(w) ==
    /\ CanCommand /\ win[w].managed
    /\ win' = [win EXCEPT ![w] = IF @.iconified THEN DeIconify(@, curDesk)
                                  ELSE Iconify(@)]
    /\ CountBurst(burst + 1)
    /\ UNCHANGED <<curDesk, phase, stops>>

(* goto_desk *)
GotoDesk(d) ==
    /\ CanCommand /\ d # curDesk
    /\ curDesk' = d
    /\ win' = [w \in Windows |-> DeskSwitched(win[w], curDesk, d)]
    /\ CountBurst(burst + 1)
    /\ UNCHANGED <<phase, stops>>

(* do_move_window_to_desk *)
MoveToDesk(w, d) ==
    /\ CanCommand /\ win[w].managed /\ d # win[w].desk
    /\ win' = [win EXCEPT ![w] =
           LET t == [@ EXCEPT !.desk = d]
           IN  IF win[w].desk = curDesk THEN UnmapWindow(t)
               ELSE IF d = curDesk THEN MapWindow(t) ELSE t]
    /\ CountBurst(burst + 1)
    /\ UNCHANGED <<curDesk, phase, stops>>

-----------------------------------------------------------------------------
(* fvwm *)

(* dispatch_event on the oldest event about w *)
HandleEvent(w, d) ==
    /\ phase # "down" /\ win[w].q # <<>>
    /\ LET type == Head(win[w].q)
           s    == [win[w] EXCEPT !.q = Tail(@)]
       IN  win' = [win EXCEPT ![w] =
                      IF phase = "startup" THEN DispatchedInStartup(s, type)
                      ELSE Dispatched(s, type, d, curDesk)]
    /\ CountBurst(burst)
    /\ UNCHANGED <<curDesk, phase, stops>>

(* CMD_Restart: Done, Reborder *)
Restart ==
    /\ CanCommand /\ stops < MaxStops
    /\ win' = [w \in Windows |-> Reborder(win[w], curDesk)]
    /\ phase' = "down" /\ stops' = stops + 1 /\ burst' = 0
    /\ UNCHANGED curDesk

(* fvwm dies: the next one starts on desk 0 or where the hints say *)
Crash ==
    /\ phase = "running" /\ stops < MaxStops
    /\ \E desk \in [Windows -> Desks], d \in Desks :
          /\ win' = [w \in Windows |-> SaveSet(win[w], desk[w])]
          /\ curDesk' = d
    /\ phase' = "down" /\ stops' = stops + 1 /\ burst' = 0

(* the new fvwm selects the redirection of the root *)
Startup ==
    /\ phase = "down" /\ phase' = "startup"
    /\ UNCHANGED <<win, curDesk, burst, stops>>

(* CaptureAllWindows, and fFvwmInStartup = False *)
CaptureAllWindows ==
    /\ phase = "startup" /\ phase' = "running"
    /\ win' = [w \in Windows |-> Captured(win[w], curDesk)]
    /\ UNCHANGED <<curDesk, burst, stops>>

-----------------------------------------------------------------------------
Fresh(hint, d) ==
    [exists |-> TRUE, up |-> FALSE, frameUp |-> FALSE, capture |-> FALSE,
     prop |-> "None", managed |-> FALSE, mapped |-> FALSE,
     iconified |-> FALSE, iconifyPending |-> FALSE, mapPending |-> FALSE,
     iconifyAfterMap |-> FALSE, desk |-> d, hint |-> hint, q |-> <<>>,
     wants |-> "withdraw", order |-> "Normal", asked |-> 0]

Init ==
    /\ \E hint \in [Windows -> Hints], d \in Desks :
          /\ win = [w \in Windows |-> Fresh(hint[w], d)]
          /\ curDesk = d
    /\ phase = "running" /\ burst = 0 /\ stops = 0

ClientStep(w) ==
    ClientMap(w) \/ ClientWithdraw(w) \/ ClientIconify(w) \/ ClientDestroy(w)

Next ==
    \/ \E w \in Windows : ClientStep(w) \/ UserIconify(w)
    \/ \E d \in Desks : GotoDesk(d)
    \/ \E w \in Windows, d \in Desks : MoveToDesk(w, d) \/ HandleEvent(w, d)
    \/ Restart \/ Crash \/ Startup \/ CaptureAllWindows

Spec == Init /\ [][Next]_vars

-----------------------------------------------------------------------------
(* Properties *)

(* The type of the state. *)
TypeOK ==
    /\ win \in [Windows -> Window] /\ curDesk \in Desks
    /\ phase \in {"running", "down", "startup"}
    /\ burst \in Nat /\ stops \in Nat

Quiet(w) == phase = "running" /\ win[w].q = <<>>

(* When fvwm has handled every event about a window it manages, what it    *)
(* remembers is what the server knows: an icon's client and frame are      *)
(* unmapped; any other client is mapped, and its frame exactly if the      *)
(* window is on the current desk.  No handler and no command waits for     *)
(* anything any more.  The property WM_STATE, which clients, pagers and    *)
(* the next fvwm read, says Normal for a window on the screen and Iconic   *)
(* for an icon.                                                            *)
MapAgrees ==
    \A w \in Windows : Quiet(w) /\ win[w].managed =>
        LET s == win[w] IN
        /\ ~s.mapPending /\ ~s.iconifyAfterMap
        /\ s.mapped = ~s.iconified
        /\ s.up = s.mapped
        /\ s.frameUp = (s.mapped /\ s.desk = curDesk)
        /\ s.frameUp => s.prop = "Normal"
        /\ s.iconified => s.prop = "Iconic"

(* What the client asked for last is what it gets, whatever fvwm did to    *)
(* the window meanwhile: its own unmapping, for an icon or a desk, is      *)
(* never taken for a withdrawal by the client, no window is lost when fvwm *)
(* restarts or dies, and a window that the client maps again before fvwm   *)
(* has handled its withdrawal is managed again.  A window that is not      *)
(* managed is not on the screen: a withdrawn one is not left there without *)
(* a frame, and none escapes CaptureAllWindows.                            *)
ClientObeyed ==
    \A w \in Windows : Quiet(w) =>
        /\ win[w].managed <=> win[w].wants = "map"
        /\ win[w].managed \/ ~win[w].up

(* A window ends as the icon, or the window, that the last order made of   *)
(* it, also when the order came before the events that tell of the         *)
(* window's map had been handled, and after a restart.                     *)
OrderObeyed ==
    \A w \in Windows : Quiet(w) /\ win[w].managed =>
        win[w].iconified = (win[w].order = "Iconic")

(* At every moment, with any number of events under way: a frame that is   *)
(* mapped belongs to a window of the current desk that is not an icon.     *)
(* UnmapDesk leaves icons alone, and relies on it.                         *)
OnlyThisDesk ==
    \A w \in Windows : win[w].frameUp =>
        /\ win[w].managed /\ ~win[w].iconified
        /\ win[w].desk = curDesk /\ phase = "running"

(* The client window of an icon is unmapped at every moment, so that the   *)
(* client's next XMapWindow reaches fvwm as a MapRequest.                  *)
IconHidden ==
    \A w \in Windows : win[w].iconified => win[w].managed /\ ~win[w].up

=============================================================================
