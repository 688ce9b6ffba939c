------------------------------ MODULE Keyboard -------------------------------
(***************************************************************************)
(* The keyboard driver (kernel/drivers/keyboard/keyboard.c) with the       *)
(* keyboard that feeds it.  A key sends its make code when it is pressed   *)
(* or repeats and its break code, the same with bit 7 set, when it is      *)
(* released; grey keys send the prefix E0 first.  While a shift key is     *)
(* held a grey key is wrapped in E0-prefixed codes of a shift key that is  *)
(* not touched.  The keyboard acknowledges each byte it is sent.  Each     *)
(* interrupt reads one code and runs to its end.                           *)
(***************************************************************************)
EXTENDS Integers, Sequences

CONSTANTS
  MaxCodes,     \* codes under way before the keyboard waits
  PhysicalKeys, \* the keys the keyboard has
  LedStatuses   \* what reads of the controller's status port can return, as
                \* the sets of the bits that are 1

ASSUME KeyboardAssumption ==
  /\ MaxCodes \in Nat \ {0}
  /\ LedStatuses \subseteq SUBSET (0 .. 7)
  /\ PhysicalKeys \subseteq {"char", "ctrl", "lshift", "rshift", "caps", "up", "pgup", "down", "pgdn"}

\* "char" stands for the keys with a character in keyboardMap, "ctrl" for those
\* with 0 there.
Grey == {"up", "pgup", "down", "pgdn"}
Shifts == {"lshift", "rshift"}

\* A code: the prefix, the acknowledgement 0xFA (which has bit 7), or a key with
\* bit 7 set or not.  held is auxiliary: whether a shift
\* key was down when the code was sent.
Codes == [key : PhysicalKeys \cup Shifts \cup {"E0", "FA"}, up : BOOLEAN, held : BOOLEAN]

VARIABLES
  extendedScancode, leftShiftPressed, rightShiftPressed, capsLockEnabled,
  led,          \* the caps lock light
  pressed,      \* the keys that are down
  codes,        \* the codes sent and not read yet
  output        \* what the last handler did to the screen

keyboardVars == <<extendedScancode, leftShiftPressed, rightShiftPressed,
                  capsLockEnabled, led, pressed, codes, output>>

None == [act |-> "none", shifted |-> FALSE, held |-> FALSE]
Acts == {"none", "putchar", "up", "pgup", "down", "pgdn"}

KeyboardTypeOK ==
  /\ {extendedScancode, leftShiftPressed, rightShiftPressed, capsLockEnabled, led} \subseteq BOOLEAN
  /\ pressed \subseteq PhysicalKeys
  /\ codes \in Seq(Codes)
  /\ output \in [act : Acts, shifted : BOOLEAN, held : BOOLEAN]

KeyboardInit ==
  /\ extendedScancode = FALSE
  /\ leftShiftPressed = FALSE /\ rightShiftPressed = FALSE /\ capsLockEnabled = FALSE
  /\ led = FALSE
  /\ pressed = {} /\ codes = <<>>
  /\ output = None

driverVars == <<extendedScancode, leftShiftPressed, rightShiftPressed, capsLockEnabled, led, output>>

-----------------------------------------------------------------------------
(***************************************************************************)
(* The keyboard.                                                           *)
(***************************************************************************)
Held == pressed \cap Shifts # {}
Code(k, up) == [key |-> k, up |-> up, held |-> Held]
E0(k, up)   == <<Code("E0", FALSE), Code(k, up)>>

\* What a key sends: a grey key first lifts the shift that is held and puts it
\* down again at the end.
Sent(k, up) ==
  IF k \notin Grey THEN <<Code(k, up)>>
  ELSE IF ~Held THEN E0(k, up)
  ELSE LET s == CHOOSE s \in Shifts : s \in pressed IN
       IF up THEN E0(k, TRUE) \o E0(s, FALSE) ELSE E0(s, TRUE) \o E0(k, FALSE)

press(k) ==   \* also the repeats of a key that is down
  /\ Len(codes) <= MaxCodes
  /\ pressed' = pressed \cup {k}
  /\ codes' = codes \o Sent(k, FALSE)
  /\ UNCHANGED driverVars

release(k) ==
  /\ Len(codes) <= MaxCodes /\ k \in pressed
  /\ pressed' = pressed \ {k}
  /\ codes' = codes \o Sent(k, TRUE)
  /\ UNCHANGED driverVars

-----------------------------------------------------------------------------
(***************************************************************************)
(* keyboard_handler.  Its branches are separate actions.                   *)
(***************************************************************************)
code == Head(codes)
\* One code is read; answers are what the keyboard sends meanwhile.
ReadThen(answers) == codes # <<>> /\ codes' = Tail(codes) \o answers /\ UNCHANGED pressed
Read == ReadThen(<<>>)

\* The prefix.
handle_prefix ==
  /\ Read /\ code.key = "E0"
  /\ extendedScancode' = TRUE
  /\ output' = None
  /\ UNCHANGED <<leftShiftPressed, rightShiftPressed, capsLockEnabled, led>>

\* keyboard_handler_extended.
handle_extended ==
  /\ Read /\ code.key # "E0" /\ extendedScancode
  /\ output' = IF code.key \in Grey /\ ~code.up THEN [None EXCEPT !.act = code.key] ELSE None
  /\ extendedScancode' = FALSE
  /\ UNCHANGED <<leftShiftPressed, rightShiftPressed, capsLockEnabled, led>>

MutPlain == code.key # "E0" /\ UNCHANGED extendedScancode
\* Every other code comes without the prefix.
Plain == code.key # "E0" /\ ~extendedScancode /\ UNCHANGED extendedScancode

\* A shift key goes down or up; releases of other keys do nothing.
MutShift ==
  /\ Read /\ Plain /\ code.key \in Shifts
  /\ leftShiftPressed' = ~code.up /\ rightShiftPressed' = ~code.up
  /\ output' = None
  /\ UNCHANGED <<capsLockEnabled, led>>
handle_shift ==
  /\ Read /\ Plain /\ code.key \in Shifts
  /\ leftShiftPressed' = IF code.key = "lshift" THEN ~code.up ELSE leftShiftPressed
  /\ rightShiftPressed' = IF code.key = "rshift" THEN ~code.up ELSE rightShiftPressed
  /\ output' = None
  /\ UNCHANGED <<capsLockEnabled, led>>

handle_release ==
  /\ Read /\ Plain /\ code.up /\ code.key \notin Shifts
  /\ output' = None
  /\ UNCHANGED <<leftShiftPressed, rightShiftPressed, capsLockEnabled, led>>

\* keyboard_wait_input_clear: the polls see bit 1 set.
keyboard_wait_input_clear(status) == 1 \in status

\* keyboard_set_caps_lock_led: 0xED is sent if the first wait succeeds, and the
\* new state if then an answer comes (bit 0), none of the bits of 0xFA is set
\* and the second wait succeeds.  s1 to s4 are what its polls see.
keyboard_set_caps_lock_led(s1, s2, s3, s4) ==
  LET sentED    == keyboard_wait_input_clear(s1)
      sentState == /\ sentED
                   /\ 0 \in s2 /\ s3 \cap {1, 3, 4, 5, 6, 7} = {}
                   /\ keyboard_wait_input_clear(s4)
      ack       == <<Code("FA", TRUE)>>
  IN
  /\ led' = IF sentState THEN capsLockEnabled' ELSE led
  /\ ReadThen(IF sentState THEN ack \o ack ELSE IF sentED THEN ack ELSE <<>>)

handle_caps ==
  /\ codes # <<>> /\ Plain /\ code.key = "caps" /\ ~code.up
  /\ capsLockEnabled' = ~capsLockEnabled
  /\ \E s1, s2, s3, s4 \in LedStatuses : keyboard_set_caps_lock_led(s1, s2, s3, s4)
  /\ output' = None
  /\ UNCHANGED <<leftShiftPressed, rightShiftPressed>>

\* The two maps differ where the key has a character.
handle_key ==
  /\ Read /\ Plain /\ ~code.up /\ code.key \notin Shifts \cup {"caps"}
  /\ output' = IF code.key = "char"
               THEN [act |-> "putchar", shifted |-> leftShiftPressed \/ rightShiftPressed,
                     held |-> code.held]
               ELSE None
  /\ UNCHANGED <<leftShiftPressed, rightShiftPressed, capsLockEnabled, led>>

KeyboardNext ==
  \/ \E k \in PhysicalKeys : press(k) \/ release(k)
  \/ handle_prefix \/ handle_extended \/ handle_shift \/ handle_release
  \/ handle_caps \/ handle_key

KeyboardSpec == KeyboardInit /\ [][KeyboardNext]_keyboardVars

-----------------------------------------------------------------------------
(***************************************************************************)
(* Properties.                                                             *)
(***************************************************************************)
\* When all codes are read the driver knows which shift keys are down, although
\* grey keys send codes of shift keys nobody touched, and no prefix is left over.
ShiftTracksKeys ==
  codes = <<>> =>
    /\ leftShiftPressed <=> "lshift" \in pressed
    /\ rightShiftPressed <=> "rshift" \in pressed
    /\ ~extendedScancode

\* A key types its shifted character exactly if a shift key was down when it was
\* pressed, however late the handler reads the code.
TypedAsHeld == output.act = "putchar" => (output.shifted <=> output.held)

\* The comment on keyboard_set_caps_lock_led: the light shows capsLockEnabled.
LedFollowsCaps == led = capsLockEnabled
==============================================================================
