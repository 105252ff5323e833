------------------------------ MODULE LiveStrip ------------------------------
(***************************************************************************)
(* The one-way link of the live feature: the WoW addon draws the roster of *)
(* the Group Finder as frames of a pixel strip (addon/bmpl), the browser    *)
(* samples a capture of the screen and assembles the frames into a roster  *)
(* (web/src/lib/live).  There is no channel back: the browser may pause,   *)
(* connect late or miss a sample, and the addon cannot know.               *)
(*                                                                         *)
(* A roster is a model value; the number of frames it is cut into is        *)
(* Chunks[t], and one that needs more than MaxChunks cannot be drawn.      *)
(* Time is counted in redraws of the addon.  A torn or unreadable frame    *)
(* fails its CRC and is a sample that decodes to nothing.                  *)
(***************************************************************************)
EXTENDS Integers

CONSTANTS
  Text,         \* the rosters the game may have
  Chunks,       \* Chunks[t]: the frames roster t is cut into
  MaxChunks,    \* the most frames a roster may have (255)
  SeqMod,       \* rosterSeq is one byte (256)
  Passes,       \* PASSES_AFTER_CHANGE
  Hold,         \* HOLD_TICKS
  Heartbeat,    \* HEARTBEAT_S, in redraws
  Stale,        \* ROSTER_STALE_MS, in redraws
  MaxGap        \* bound: redraws between two decoded samples of a running capture

None == "none"
Garbled == "garbled"
NoSeq == -1

ASSUME StripAssumption ==
  /\ Chunks \in [Text -> Nat \ {0}]
  /\ {MaxChunks, SeqMod, Passes, Hold, Heartbeat, Stale, MaxGap} \subseteq Nat \ {0}
  /\ {None, Garbled} \cap Text = {}

VARIABLES
  wants,     \* shouldShow(): the Group Finder is open or a posting is active
  lobby,     \* the roster the game has now, Roster.BuildText()
  addon,     \* roster.text, roster.seq and the cadence
  strip,     \* the strip's frame on the screen: shown or not, and what is painted
  capture,   \* "off", "on", or "paused": connected, but no frame decodes
  asm,       \* the browser's RosterAssembler, and the age of its roster
  gap,       \* redraws since the last sample of a running capture
  lapped     \* history: the numbers the browser holds that the addon has given out again

vars == <<wants, lobby, addon, strip, capture, asm, gap, lapped>>

NewCadence == [remaining |-> 0, cursor |-> 0, since |-> 0, hold |-> 0]
NoRoster == [text |-> None, seq |-> 0, cadence |-> NewCadence]
Blank == [text |-> None, seq |-> 0, index |-> 0, count |-> 0]
NewAssembler ==
  [seq |-> NoSeq, count |-> 0, chunks |-> <<>>, roster |-> None, rosterSeq |-> 0, age |-> Stale]

Init ==
  /\ wants = FALSE /\ lobby \in Text
  /\ addon = NoRoster
  /\ strip = [shown |-> FALSE, frame |-> Blank]
  /\ capture = "off" /\ asm = NewAssembler
  /\ gap = 0 /\ lapped = {}

-----------------------------------------------------------------------------
(* The addon. *)

FrameCount(t) == IF t \in Text /\ Chunks[t] <= MaxChunks THEN Chunks[t] ELSE 0

(* rebuildRoster: a text that differs from the last one takes the next number. *)
Rebuilt ==
  IF lobby = addon.text
  THEN addon
  ELSE [addon EXCEPT !.text = lobby, !.seq = (addon.seq + 1) % SeqMod]

(* Mutant: a change waits for the end of the hold of the chunk on the screen. *)
RestartedHolding(c, count, changed) ==
  IF changed THEN [remaining |-> Passes * count, cursor |-> 0, since |-> 0, hold |-> c.hold] ELSE c

(* The passes a change restarts. *)
Restarted(c, count, changed) ==
  IF changed THEN [remaining |-> Passes * count, cursor |-> 0, since |-> 0, hold |-> 0] ELSE c

(* One catch-up pass begins after Heartbeat redraws of stillness. *)
Beats(c) == c.remaining <= 0 /\ c.since + 1 >= Heartbeat

Paints(c) == c.hold = 0 /\ (c.remaining > 0 \/ Beats(c))

(* The painting branch of step. *)
Painted(c, count) ==
  LET left == IF Beats(c) THEN count ELSE c.remaining
      from == IF Beats(c) THEN 0 ELSE c.cursor
  IN [remaining |-> left - 1,
      cursor |-> (from % count) + 1,
      since |-> IF Beats(c) THEN 0 ELSE c.since,
      hold |-> Hold - 1]

(* Mutant: the stillness is not counted, and no catch-up pass begins. *)
WaitedStill(c) == IF c.hold > 0 THEN [c EXCEPT !.hold = c.hold - 1] ELSE c

(* The branches that leave the strip as it is. *)
Waited(c) ==
  IF c.hold > 0 THEN [c EXCEPT !.hold = c.hold - 1] ELSE [c EXCEPT !.since = c.since + 1]

(* The cadence after a redraw, count frames at hand. *)
Stepped(c, count) ==
  IF count = 0 THEN NewCadence ELSE IF Paints(c) THEN Painted(c, count) ELSE Waited(c)

FrameOf(t, s, i) == [text |-> t, seq |-> s, index |-> i - 1, count |-> Chunks[t]]

(* The numbers the browser goes by: the collection's and its roster's. *)
Held == {asm.seq} \cup (IF asm.roster = None THEN {} ELSE {asm.rosterSeq})

(* The redraw while the strip should be seen: rebuild, show, paint if it is time. *)
Draw ==
  LET r == Rebuilt
      changed == lobby # addon.text
      count == FrameCount(r.text)
      c == Restarted(addon.cadence, count, changed)
  IN /\ wants
     /\ addon' = [r EXCEPT !.cadence = Stepped(c, count)]
     /\ strip' = [shown |-> TRUE,
                  frame |-> IF count > 0 /\ Paints(c)
                            THEN FrameOf(r.text, r.seq, Painted(c, count).cursor)
                            ELSE strip.frame]
     /\ lapped' = IF changed THEN lapped \cup ({r.seq} \cap Held) ELSE lapped

(* What a hidden addon keeps: nothing but its sequence number. *)
Hidden == [text |-> None, seq |-> addon.seq, cadence |-> NewCadence]

(* Mutant: the strip is left on the screen. *)
HideUp == ~wants /\ addon' = Hidden /\ UNCHANGED <<strip, lapped>>

Hide ==
  /\ ~wants
  /\ addon' = Hidden
  /\ strip' = [strip EXCEPT !.shown = FALSE]
  /\ UNCHANGED lapped

(* The browser's clock: a roster nobody re-stamps gets old. *)
Older(a) == IF a.age < Stale THEN [a EXCEPT !.age = a.age + 1] ELSE a

(* A redraw.  A running capture is sampled at least once every MaxGap redraws. *)
Redraw ==
  /\ capture = "on" => gap < MaxGap
  /\ Draw \/ Hide
  /\ asm' = Older(asm)
  /\ gap' = IF capture = "on" THEN gap + 1 ELSE gap
  /\ UNCHANGED <<wants, lobby, capture>>

-----------------------------------------------------------------------------
(* The browser. *)

(* Mutant: the chunks of the unfinished roster are kept. *)
CollectingAll(a, f) == [a EXCEPT !.seq = f.seq, !.count = f.count]

(* A number other than the one being collected drops what was collected. *)
Collecting(a, f) ==
  IF f.seq = a.seq THEN a ELSE [a EXCEPT !.seq = f.seq, !.count = f.count, !.chunks = <<>>]

Known(a, f) == a.roster # None /\ a.rosterSeq = f.seq

With(chunks, f) == [i \in DOMAIN chunks \cup {f.index} |-> IF i = f.index THEN f.text ELSE chunks[i]]

(* The text the collected chunks decode to. *)
Joined(chunks, count) ==
  LET texts == {chunks[i] : i \in 0 .. count - 1}
  IN IF \E t \in texts : texts = {t} /\ Chunks[t] = count
     THEN CHOOSE t \in texts : TRUE ELSE Garbled

(* RosterAssembler.push.  A collection that is large enough but lacks one of *)
(* the first count chunks throws after having stored its frame.               *)
Pushed(a, f) ==
  LET b == Collecting(a, f)
      c == [b EXCEPT !.chunks = With(b.chunks, f)]
  IN IF Known(b, f) THEN [b EXCEPT !.age = 0]
     ELSE IF 0 .. c.count - 1 \subseteq DOMAIN c.chunks
     THEN [c EXCEPT !.roster = Joined(c.chunks, c.count), !.rosterSeq = f.seq, !.age = 0]
     ELSE c

Readable == strip.shown /\ strip.frame # Blank

(* A tick of the capture. *)
Sample ==
  /\ capture = "on"
  /\ asm' = IF Readable THEN Pushed(asm, strip.frame) ELSE asm
  /\ gap' = 0 /\ lapped' = lapped \cap Held'
  /\ UNCHANGED <<wants, lobby, addon, strip, capture>>

(* teardown: disconnect(), "Stop sharing", and the first half of connect(), *)
(* which asks the player for a window before the new session's interval starts. *)
Disconnect ==
  /\ capture # "off" /\ capture' = "off"
  /\ asm' = NewAssembler
  /\ gap' = 0 /\ lapped' = {}
  /\ UNCHANGED <<wants, lobby, addon, strip>>

Connect ==
  /\ capture = "off" /\ capture' = "on"
  /\ UNCHANGED <<wants, lobby, addon, strip, asm, gap, lapped>>

-----------------------------------------------------------------------------
(* The player, his window and his game. *)

(* The game's window is covered or minimized, or comes back. *)
Cover ==
  /\ capture # "off"
  /\ capture' = IF capture = "on" THEN "paused" ELSE "on"
  /\ gap' = 0
  /\ UNCHANGED <<wants, lobby, addon, strip, asm, lapped>>

Toggle ==
  /\ wants' = ~wants
  /\ UNCHANGED <<lobby, addon, strip, capture, asm, gap, lapped>>

Change ==
  /\ lobby' \in Text \ {lobby}
  /\ UNCHANGED <<wants, addon, strip, capture, asm, gap, lapped>>

(* /bmpl contrast: the text is forgotten, so that the next redraw repaints. *)
Contrast ==
  /\ addon' = [addon EXCEPT !.text = None]
  /\ UNCHANGED <<wants, lobby, strip, capture, asm, gap, lapped>>

(* /reload: the addon's files are run again and its numbers start over; a capture goes on. *)
Reload ==
  /\ addon' = NoRoster
  /\ strip' = [shown |-> FALSE, frame |-> Blank]
  /\ UNCHANGED <<wants, lobby, capture, asm, gap, lapped>>

Next == Redraw \/ Sample \/ Connect \/ Disconnect \/ Cover \/ Toggle \/ Change \/ Contrast \/ Reload

(* The game keeps drawing, and the interval of a connected capture keeps firing. *)
Fairness == WF_vars(Redraw) /\ WF_vars(Sample)

Spec == Init /\ [][Next]_vars /\ Fairness

-----------------------------------------------------------------------------
(* Properties *)

Seqs == 0 .. SeqMod - 1
Cadences ==
  [remaining : 0 .. Passes * MaxChunks, cursor : 0 .. MaxChunks,
   since : 0 .. Heartbeat - 1, hold : 0 .. Hold - 1]

Frames == [text : Text \cup {None}, seq : Seqs, index : 0 .. MaxChunks - 1, count : 0 .. MaxChunks]
Collected == UNION {[indices -> Text] : indices \in SUBSET (0 .. MaxChunks - 1)}

(* The state has its type, and the cadence's counters their bounds. *)
TypeOK ==
  /\ wants \in BOOLEAN /\ lobby \in Text
  /\ addon \in [text : Text \cup {None}, seq : Seqs, cadence : Cadences]
  /\ strip \in [shown : BOOLEAN, frame : Frames]
  /\ capture \in {"off", "on", "paused"}
  /\ asm \in [seq : Seqs \cup {NoSeq}, count : 0 .. MaxChunks, chunks : Collected,
              roster : Text \cup {None, Garbled}, rosterSeq : Seqs, age : 0 .. Stale]
  /\ gap \in 0 .. MaxGap /\ lapped \subseteq Seqs

(* main.lua:14-22: no frame of a roster the addon has left stays on the screen, *)
(* across shows, hides and changes in the middle of a hold.  (A roster too      *)
(* large to be drawn is the exception: it leaves the previous frame painted.)   *)
NothingLeftUp ==
  strip.shown /\ FrameCount(addon.text) > 0 =>
    strip.frame.text = addon.text /\ strip.frame.seq = addon.seq

(* roster.ts:103-114: the browser assembles a roster, or re-stamps the one it   *)
(* has, only from a frame of that very roster: chunks of two rosters never mix, *)
(* and a roster that is gone is never made fresh again.  The exception is a     *)
(* number that the addon has given out again while the browser still goes by    *)
(* it (lapped): after SeqMod changes the browser missed, or after a /reload,    *)
(* which starts the numbers over.                                                *)
Genuine ==
  [][asm' # asm /\ asm'.age = 0 =>
       Readable /\ (asm'.roster = strip.frame.text \/ strip.frame.seq \in lapped)]_asm

Shows(t) == asm.roster = t /\ asm.age < Stale

(* cadence.lua: whenever the browser connects or comes back, and whatever it    *)
(* had missed, it ends up showing the roster that stays, without a channel to   *)
(* ask for it, and keeps showing it while the strip is still: if the player     *)
(* does not change the contrast, or reload the interface, for ever, and what    *)
(* the browser holds is not for ever of a number that was given out again.      *)
Follows ==
  <>[][~Contrast /\ ~Reload]_vars =>
  \A t \in Text :
    <>[](wants /\ lobby = t /\ FrameCount(t) > 0 /\ capture = "on" /\ lapped = {}) =>
      <>[]Shows(t)

(* roster.ts:17: a closed Group Finder empties the panel. *)
Forgets == <>[](~wants) => <>[](asm.roster = None \/ asm.age = Stale)
=============================================================================
