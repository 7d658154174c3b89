------------------------------ MODULE Keyboard -------------------------------
(***************************************************************************)
(* devices/kbd.c: scancodes of keys pressed and released, the state of the  *)
(* shift keys, and the characters handed to the input buffer of             *)
(* devices/input.c, of which only the number of characters is kept.         *)
(* down is the set of keys that are down on the keyboard itself.            *)
(***************************************************************************)
EXTENDS Integers, Sequences

CONSTANTS Keys,          \* scancodes of the keys in use, without the release bit
          InputRoom

VARIABLES shifts, caps_lock, key_cnt, input_buf, typed, down, rebooted
kbdVars == <<shifts, caps_lock, key_cnt, input_buf, typed, down, rebooted>>

Prefix == 224 * 256                      \* the 0xe0 byte before a second one
\* The characters, as their ASCII codes, of a row of keys.
Row(first, codes) == [first |-> first, codes |-> codes]
invariant_keymap ==
  <<Row(1, <<27>>), Row(14, <<8>>), Row(15, <<9, 81, 87, 69, 82, 84, 89, 85, 73, 79, 80>>),
    Row(28, <<13>>), Row(30, <<65, 83, 68, 70, 71, 72, 74, 75, 76>>),
    Row(44, <<90, 88, 67, 86, 66, 78, 77>>), Row(55, <<42>>), Row(57, <<32>>), Row(83, <<127>>)>>
unshifted_keymap ==
  <<Row(2, <<49, 50, 51, 52, 53, 54, 55, 56, 57, 48, 45, 61>>), Row(26, <<91, 93>>),
    Row(39, <<59, 39, 96>>), Row(43, <<92>>), Row(51, <<44, 46, 47>>)>>
shifted_keymap ==
  <<Row(2, <<33, 64, 35, 36, 37, 94, 38, 42, 40, 41, 95, 43>>), Row(26, <<123, 125>>),
    Row(39, <<58, 34, 126>>), Row(43, <<124>>), Row(51, <<60, 62, 63>>)>>
RowEnd(r) == r.first + Len(r.codes) - 1
RowsOf(map, code) == {i \in DOMAIN map : code \in map[i].first .. RowEnd(map[i])}
NotMapped == -1
map_key(map, code) ==
  IF RowsOf(map, code) = {} THEN NotMapped
  ELSE LET r == map[CHOOSE i \in RowsOf(map, code) : \A j \in RowsOf(map, code) : i <= j]
       IN r.codes[code - r.first + 1]

left_shift == 42
right_shift == 54
left_alt == 56
right_alt == Prefix + 56
left_ctrl == 29
right_ctrl == Prefix + 29
CapsKey == 58
shift_keys == {left_shift, right_shift, left_alt, right_alt, left_ctrl, right_ctrl}
shift == shifts[left_shift] \/ shifts[right_shift]
alt == shifts[left_alt] \/ shifts[right_alt]
ctrl == shifts[left_ctrl] \/ shifts[right_ctrl]
tolower(c) == IF c \in 65 .. 90 THEN c + 32 ELSE c
CharOf(code) == LET c == map_key(invariant_keymap, code)
                IN IF c # NotMapped THEN c
                   ELSE map_key(IF shift THEN shifted_keymap ELSE unshifted_keymap, code)
\* Fault: Shift and Caps Lock together give a capital.
Lower_or(c) == IF ~ shift /\ ~ caps_lock THEN tolower(c) ELSE c
Lower(c) == IF shift = caps_lock THEN tolower(c) ELSE c
Typed(c) == (IF ctrl /\ c \in 64 .. 95 THEN c - 64 ELSE Lower(c)) + (IF alt THEN 128 ELSE 0)

KbdInit == /\ shifts = [k \in shift_keys |-> FALSE] /\ caps_lock = FALSE /\ key_cnt = 0
           /\ input_buf = 0 /\ typed = <<>> /\ down = {} /\ rebooted = FALSE
Latched(release) == ~ release
keyboard_scan(code, release) ==
  /\ ~ rebooted
  /\ down' = IF release THEN down \ {code} ELSE down \cup {code}
  /\ LET c == CharOf(code)
     IN CASE code = CapsKey ->
               /\ caps_lock' = IF release THEN caps_lock ELSE ~ caps_lock
               /\ UNCHANGED <<shifts, key_cnt, input_buf, typed, rebooted>>
          [] code # CapsKey /\ c # NotMapped ->
               /\ IF release THEN UNCHANGED <<key_cnt, input_buf, typed, rebooted>>
                  ELSE IF c = 127 /\ ctrl /\ alt
                  THEN rebooted' = TRUE /\ UNCHANGED <<key_cnt, input_buf, typed>>
                  ELSE /\ typed' = <<code, Typed(c)>>
                       /\ IF input_buf < InputRoom
                          THEN /\ key_cnt' = key_cnt + 1 /\ input_buf' = input_buf + 1
                          ELSE UNCHANGED <<key_cnt, input_buf>>
                       /\ UNCHANGED rebooted
               /\ UNCHANGED <<shifts, caps_lock>>
          [] OTHER ->
               /\ shifts' = IF code \in shift_keys THEN [shifts EXCEPT ![code] = Latched(release)]
                            ELSE shifts
               /\ UNCHANGED <<caps_lock, key_cnt, input_buf, typed, rebooted>>
\* A key goes down, repeats while it is down, or comes up.
KbdNext == \E k \in Keys : \/ keyboard_scan(k, FALSE)
                           \/ k \in down /\ keyboard_scan(k, TRUE)
KbdSpec == KbdInit /\ [][KbdNext]_kbdVars
---------------------------------------------------------------------------

IsLetter(k) == k \in (16 .. 25) \cup (30 .. 38) \cup (44 .. 50)
Pressed(S) == down \cap S # {}
\* keyboard_interrupt, over the keys that are down when a character is typed: Control and a
\* letter is 1 to 26 whatever Shift is, a letter is a capital when one of Shift and Caps Lock
\* is on, a digit key gives its shifted sign with Shift and never for Caps Lock, and Alt adds
\* 0x80.
CharactersTyped ==
  [][LET k == typed'[1]
         c == typed'[2] - (IF Pressed({left_alt, right_alt}) THEN 128 ELSE 0)
         upper == Pressed({left_shift, right_shift}) # caps_lock
     IN typed' # typed =>
          /\ IsLetter(k) /\ Pressed({left_ctrl, right_ctrl}) => c \in 1 .. 26
          /\ IsLetter(k) /\ ~ Pressed({left_ctrl, right_ctrl}) =>
               c \in IF upper THEN 65 .. 90 ELSE 97 .. 122
          /\ k \in 2 .. 11 /\ ~ Pressed({left_ctrl, right_ctrl}) =>
               (c \in 48 .. 57) = ~ Pressed({left_shift, right_shift})]_kbdVars
=============================================================================
