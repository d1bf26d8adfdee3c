------------------------------ MODULE KeyDecode -----------------------------
(***************************************************************************)
(* intr_keyboard_handler (keyboard.c): scan codes arrive one byte and one  *)
(* interrupt at a time; the handler joins a 0xe0 prefix to the byte that   *)
(* follows, keeps track of ctrl, shift, alt and caps lock across calls and *)
(* turns make codes into characters for kbd_buf (module KbdQueue).         *)
(*                                                                         *)
(* The user and the keyboard are external: keys are pressed, repeat and    *)
(* are released in any order, and their bytes wait on the wire for their   *)
(* interrupts while more keys are pressed.  Of kbd_buf, module KbdQueue's  *)
(* subject, only the number of characters matters here: the handler drops  *)
(* what does not fit, and readers take characters whenever they like.      *)
(***************************************************************************)
EXTENDS Integers, Sequences, FiniteSets

CONSTANTS
  Key,       \* the keys the user has, records [ext, code]
  MaxHeld,   \* bound on the keys held at once
  MaxWire,   \* bound on the bytes not yet handled
  BufChars   \* what kbd_buf holds, bufsize - 1

ASSUME KeyAssumption ==
  /\ Key \subseteq [ext : BOOLEAN, code : (1 .. 127) \ {96}]   \* 96 + 128 is e0
  /\ MaxHeld \in Nat /\ MaxWire \in Nat /\ BufChars \in Nat

VARIABLES
  ctrl_status, shift_status, alt_status, caps_lock_status, ext_scancode,
  held,       \* the keys that are down
  capsOn,     \* caps lock, as the keyboard's user sees it
  wire,       \* bytes sent and not yet handled
  queued,     \* the number of characters in kbd_buf
  expected,   \* characters the user typed that are still on the wire
  wrong       \* history: the handler has put another character

status_vars == <<ctrl_status, shift_status, alt_status, caps_lock_status,
                 ext_scancode>>
decode_vars == <<status_vars, held, capsOn, wire, queued, expected, wrong>>

shift_l_make == 42      \* 0x2a
shift_r_make == 54      \* 0x36
alt_l_make == 56        \* 0x38
ctrl_l_make == 29       \* 0x1d
caps_lock_make == 58    \* 0x3a
e0 == 224
Extended(code) == e0 * 256 + code
alt_r_make == Extended(alt_l_make)
ctrl_r_make == Extended(ctrl_l_make)

(* keymap: a letter, the letter l, a digit; the control keys have no       *)
(* character.                                                              *)
CharKeys == {30, 38, 2}
keymap(index) == CASE index = 30 -> <<"a", "A">>
                   [] index = 38 -> <<"l", "L">>
                   [] index = 2 -> <<"1", "!">>

(* The keys with two symbols, on which caps lock has no effect.            *)
two_symbols(code) == code < 14 \/ code \in {26, 27, 39, 40, 41, 43, 51, 52, 53}

DecodeInit ==
  /\ ctrl_status = FALSE /\ shift_status = FALSE /\ alt_status = FALSE
  /\ caps_lock_status = FALSE /\ ext_scancode = FALSE
  /\ held = {} /\ capsOn = FALSE /\ wire = <<>>
  /\ queued = 0 /\ expected = <<>> /\ wrong = FALSE

-----------------------------------------------------------------------------
(* What the user means by a key, given the keys that are down.             *)
Down(codes) == \E k \in held : k.code \in codes

Meant(code) ==
  LET shift == Down({shift_l_make, shift_r_make})
      upper == IF two_symbols(code) THEN shift ELSE shift # capsOn
      c == keymap(code)[IF upper THEN 2 ELSE 1]
  IN  IF Down({ctrl_l_make}) /\ c = "l" THEN "ctrl-l" ELSE c

Codes(k, code) == IF k.ext THEN <<e0, code>> ELSE <<code>>

Make(k) ==
  /\ Len(wire) < MaxWire
  /\ wire' = wire \o Codes(k, k.code)
  /\ capsOn' = (capsOn # (k.code = caps_lock_make /\ ~k.ext))
  /\ expected' = IF k.code \in CharKeys /\ ~k.ext THEN Append(expected, Meant(k.code))
                 ELSE expected
  /\ UNCHANGED <<status_vars, queued, wrong>>

Press(k) ==
  /\ k \notin held /\ Cardinality(held) < MaxHeld
  /\ held' = held \cup {k}
  /\ Make(k)

Repeat(k) ==
  /\ k \in held
  /\ UNCHANGED held
  /\ Make(k)

LetGo(k) ==
  /\ k \in held /\ Len(wire) < MaxWire
  /\ held' = held \ {k}
  /\ wire' = wire \o Codes(k, k.code + 128)
  /\ UNCHANGED <<status_vars, capsOn, queued, expected, wrong>>

-----------------------------------------------------------------------------
(* ioq_putchar(&kbd_buf, c), unless ioq_full(&kbd_buf): then the key's     *)
(* character is lost.                                                      *)
Put(c) ==
  /\ IF queued < BufChars
       THEN /\ queued' = queued + 1
            /\ wrong' = (wrong \/ expected = <<>> \/ Head(expected) # c)
       ELSE UNCHANGED <<queued, wrong>>
  /\ expected' = IF expected = <<>> THEN <<>> ELSE Tail(expected)

(* Faulty variant: the right ctrl key's break code is not recognised.      *)
BreakLeftOnly(make_code) ==
  /\ ctrl_status' = (ctrl_status /\ make_code # ctrl_l_make)
  /\ shift_status' = (shift_status /\ make_code \notin {shift_l_make, shift_r_make})
  /\ alt_status' = (alt_status /\ make_code \notin {alt_l_make, alt_r_make})
  /\ UNCHANGED <<caps_lock_status, queued, expected, wrong>>

(* A break code: with the prefix, (scancode & 0xff7f) is the make code.    *)
BreakCode(make_code) ==
  /\ IF make_code \in {ctrl_l_make, ctrl_r_make}
       THEN ctrl_status' = FALSE /\ UNCHANGED <<shift_status, alt_status>>
     ELSE IF make_code \in {shift_l_make, shift_r_make}
       THEN shift_status' = FALSE /\ UNCHANGED <<ctrl_status, alt_status>>
     ELSE IF make_code \in {alt_l_make, alt_r_make}
       THEN alt_status' = FALSE /\ UNCHANGED <<ctrl_status, shift_status>>
     ELSE UNCHANGED <<ctrl_status, shift_status, alt_status>>
  /\ UNCHANGED <<caps_lock_status, queued, expected, wrong>>

(* Faulty variant: caps lock and shift together still give a capital.      *)
CapsOrShift(scancode) ==
  LET shift == shift_status \/ (caps_lock_status /\ ~two_symbols(scancode))
      cur_char == keymap(scancode)[IF shift THEN 2 ELSE 1]
  IN  /\ Put(IF ctrl_status /\ cur_char = "l" THEN "ctrl-l" ELSE cur_char)
      /\ UNCHANGED <<ctrl_status, shift_status, alt_status, caps_lock_status>>

(* A make code of a character key.                                         *)
CharCode(scancode) ==
  LET shift == IF two_symbols(scancode) THEN shift_status
               ELSE shift_status # caps_lock_status
      cur_char == keymap(scancode)[IF shift THEN 2 ELSE 1]
  IN  /\ Put(IF ctrl_status /\ cur_char = "l" THEN "ctrl-l" ELSE cur_char)
      /\ UNCHANGED <<ctrl_status, shift_status, alt_status, caps_lock_status>>

(* A make code of a control key, the prefix taken off.                     *)
ControlCode(code) ==
  /\ ctrl_status' = (ctrl_status \/ code = ctrl_l_make)
  /\ shift_status' = (shift_status \/ code \in {shift_l_make, shift_r_make})
  /\ alt_status' = (alt_status \/ code = alt_l_make)
  /\ caps_lock_status' = (caps_lock_status # (code = caps_lock_make))
  /\ UNCHANGED <<queued, expected, wrong>>

Known(scancode) == scancode \in (1 .. 58) \cup {alt_r_make, ctrl_r_make}

(* ext_scancode after a byte.                                              *)
Prefix(byte) == byte = e0

intr_keyboard_handler ==
  /\ wire # <<>>
  /\ wire' = Tail(wire)
  /\ LET byte == Head(wire)
         scancode == IF ext_scancode THEN Extended(byte) ELSE byte
     IN
     /\ ext_scancode' = Prefix(byte)
     /\ \/ /\ byte = e0
           /\ UNCHANGED <<ctrl_status, shift_status, alt_status,
                          caps_lock_status, queued, expected, wrong>>
        \/ /\ byte # e0
           /\ \/ byte >= 128 /\ BreakCode(scancode - 128)
              \/ byte < 128 /\ Known(scancode)
                 /\ IF byte \in CharKeys THEN CharCode(byte) ELSE ControlCode(byte)
              \/ /\ byte < 128 /\ ~Known(scancode)
                 /\ UNCHANGED <<ctrl_status, shift_status, alt_status,
                                caps_lock_status, queued, expected, wrong>>
  /\ UNCHANGED <<held, capsOn>>

(* A reader's ioq_getchar.                                                 *)
CharTaken ==
  /\ queued > 0
  /\ queued' = queued - 1
  /\ UNCHANGED <<status_vars, held, capsOn, wire, expected, wrong>>

DecodeNext ==
  \/ \E k \in Key : Press(k) \/ Repeat(k) \/ LetGo(k)
  \/ intr_keyboard_handler
  \/ CharTaken

DecodeSpec == DecodeInit /\ [][DecodeNext]_decode_vars

-----------------------------------------------------------------------------
DecodeTypeOK ==
  /\ ctrl_status \in BOOLEAN /\ shift_status \in BOOLEAN /\ alt_status \in BOOLEAN
  /\ caps_lock_status \in BOOLEAN /\ ext_scancode \in BOOLEAN
  /\ held \subseteq Key
  /\ wire \in Seq(1 .. 255) /\ queued \in 0 .. BufChars
  /\ ext_scancode => wire # <<>>   \* a prefix is pending only before its byte

(* No modifier sticks: once the wire is quiet a status is set only while   *)
(* such a key is down, and caps lock is what the user thinks it is.        *)
NoStuckModifier ==
  /\ DecodeTypeOK
  /\ wire = <<>> =>
       /\ ctrl_status => Down({ctrl_l_make})
       /\ shift_status => Down({shift_l_make, shift_r_make})
       /\ alt_status => Down({alt_l_make})
       /\ caps_lock_status = capsOn
       /\ ~ext_scancode

(* The keyboard has one key for each of ctrl and shift: the handler keeps  *)
(* one flag for the two keys of a modifier, so with both of them down      *)
(* releasing one clears it.                                                *)
OneKeyEach ==
  \A j \in Key, k \in Key :
    \/ j.code = ctrl_l_make /\ k.code = ctrl_l_make
    \/ {j.code, k.code} \subseteq {shift_l_make, shift_r_make}
    => j = k /\ (j.code # ctrl_l_make => ~j.ext)

(* Every character the user types is put into kbd_buf once, in order and   *)
(* with the modifiers that were down when its key was pressed, even if     *)
(* they are released before its interrupt; only one whose interrupt finds  *)
(* kbd_buf full is missing, and no other with it.  (Under OneKeyEach.)     *)
TypedAsMeant == ~wrong /\ (wire = <<>> => expected = <<>>)
=============================================================================
