------------------------------- MODULE KeyPath -------------------------------
(***************************************************************************)
(* The way of a key or a mouse button from one computer to another: the    *)
(* code the source's system reports, the name it is sent under, the code   *)
(* the target's injector posts, and what the target's own capture layer    *)
(* makes of that.  Each of the two runs Windows or macOS.                  *)
(*                                                                         *)
(* The four tables of ms-keymap are translated one by one: two lead from   *)
(* codes to LogicalKey, as runs of consecutive codes, and two back.  The   *)
(* way itself is one step: InputPipeline and Handoff have the queues and   *)
(* the roles, which treat all keys alike.  So do they the `modifiers` of a *)
(* message, which both injectors ignore (inject.rs:129, inject.rs:96).     *)
(***************************************************************************)
EXTENDS Naturals, Sequences, FiniteSets

CONSTANT MaxKeys   \* bound: keys and buttons used in one behaviour

ASSUME KeyPathAssumption == MaxKeys \in Nat

VARIABLES
    source,    \* the system of the computer with the user
    target,    \* the system of the computer being controlled
    used,      \* keys and buttons used so far
    held,      \* those that are down at the source
    captured,  \* CaptureAdapter.held of the source
    down,      \* the codes that are down for the target's applications
    echoed     \* CaptureAdapter.held of the target

vars == <<source, target, used, held, captured, down, echoed>>

OS == {"Windows", "MacOs"}

-----------------------------------------------------------------------------
(* enum LogicalKey *)

Letters ==
    <<"A", "B", "C", "D", "E", "F", "G", "H", "I", "J", "K", "L", "M",
      "N", "O", "P", "Q", "R", "S", "T", "U", "V", "W", "X", "Y", "Z">>

Digits ==
    <<"Digit0", "Digit1", "Digit2", "Digit3", "Digit4",
      "Digit5", "Digit6", "Digit7", "Digit8", "Digit9">>

FunctionKeys ==
    <<"F1", "F2", "F3", "F4", "F5", "F6", "F7", "F8", "F9", "F10",
      "F11", "F12", "F13", "F14", "F15", "F16", "F17", "F18", "F19", "F20">>

Modifiers ==
    <<"ShiftLeft", "ShiftRight", "ControlLeft", "ControlRight", "AltLeft", "AltRight">>

Navigation ==
    <<"PageUp", "PageDown", "End", "Home", "ArrowLeft", "ArrowUp", "ArrowRight", "ArrowDown">>

Numpad ==
    <<"Numpad0", "Numpad1", "Numpad2", "Numpad3", "Numpad4",
      "Numpad5", "Numpad6", "Numpad7", "Numpad8", "Numpad9">>

Media ==
    <<"VolumeMute", "VolumeDown", "VolumeUp",
      "MediaNext", "MediaPrevious", "MediaStop", "MediaPlayPause">>

Elements(s) == {s[i] : i \in DOMAIN s}

SingleKeys ==
    {"Escape", "Tab", "CapsLock", "Space", "Backspace", "Enter", "MetaLeft", "MetaRight",
     "Insert", "Delete", "NumLock", "NumpadAdd", "NumpadSubtract", "NumpadMultiply",
     "NumpadDivide", "NumpadDecimal", "NumpadEnter", "Minus", "Equal", "BracketLeft",
     "BracketRight", "Backslash", "Semicolon", "Quote", "Comma", "Period", "Slash",
     "Backquote", "PrintScreen", "ScrollLock", "Pause", "ContextMenu"}

LogicalKey ==
    SingleKeys \cup
    UNION {Elements(keys) :
           keys \in {Letters, Digits, FunctionKeys, Modifiers, Navigation, Numpad, Media}}

(* LogicalKey::Unmapped, whatever code it carries. *)
Unmapped == "Unmapped"

(* MouseButton, with one Other; the position is the number of the button. *)
Buttons == <<"MouseLeft", "MouseRight", "MouseMiddle", "MouseBack", "MouseForward", "MouseOther">>

MouseButton == Elements(Buttons)

(* A code as a keyboard reports it, or the number of a mouse button. *)
Key(vk, extended) == [device |-> "keyboard", vk |-> vk, extended |-> extended]

Button(n) == [device |-> "mouse", vk |-> n, extended |-> FALSE]

NoCode == [device |-> "none", vk |-> 0, extended |-> FALSE]

-----------------------------------------------------------------------------
(* ms-keymap, windows.rs *)

(* The numpad without Num Lock, but for 5, 0 and the decimal. *)
NumpadArrows ==
    <<"Numpad9", "Numpad3", "Numpad1", "Numpad7", "Numpad4", "Numpad8", "Numpad6", "Numpad2">>

(* What the extended flag makes a different key of. *)
WindowsExtendedKey(vk) ==
    CASE vk = \h0D           -> "NumpadEnter"
      [] vk \in \h21 .. \h28 -> Navigation[vk - \h20]
      [] vk \in \h2D .. \h2E -> <<"Insert", "Delete">>[vk - \h2C]
      [] OTHER               -> Unmapped

WindowsPlainKey(vk) ==
    CASE vk \in \h08 .. \h09 -> <<"Backspace", "Tab">>[vk - \h07]
      [] vk = \h0D           -> "Enter"
      [] vk \in \h13 .. \h14 -> <<"Pause", "CapsLock">>[vk - \h12]
      [] vk = \h1B           -> "Escape"
      [] vk = \h20           -> "Space"
      [] vk \in \h21 .. \h28 -> NumpadArrows[vk - \h20]
      [] vk \in \h2C .. \h2E -> <<"PrintScreen", "Numpad0", "NumpadDecimal">>[vk - \h2B]
      [] vk \in \h30 .. \h39 -> Digits[vk - \h2F]
      [] vk \in \h41 .. \h5A -> Letters[vk - \h40]
      [] vk \in \h5B .. \h5D -> <<"MetaLeft", "MetaRight", "ContextMenu">>[vk - \h5A]
      [] vk \in \h60 .. \h69 -> Numpad[vk - \h5F]
      [] vk \in \h6A .. \h6B -> <<"NumpadMultiply", "NumpadAdd">>[vk - \h69]
      [] vk \in \h6D .. \h6F -> <<"NumpadSubtract", "NumpadDecimal", "NumpadDivide">>[vk - \h6C]
      [] vk \in \h70 .. \h83 -> FunctionKeys[vk - \h6F]
      [] vk \in \h90 .. \h91 -> <<"NumLock", "ScrollLock">>[vk - \h8F]
      [] vk \in \hA0 .. \hA5 -> Modifiers[vk - \h9F]
      [] vk \in \hAD .. \hB3 -> Media[vk - \hAC]
      [] vk \in \hBA .. \hC0 ->
            <<"Semicolon", "Equal", "Comma", "Minus", "Period", "Slash", "Backquote">>[vk - \hB9]
      [] vk \in \hDB .. \hDE -> <<"BracketLeft", "Backslash", "BracketRight", "Quote">>[vk - \hDA]
      [] OTHER               -> Unmapped

(* Mutant: the dedicated keys and the numpad's are not told apart. *)
WindowsKeyWithoutFlag(vk, extended) ==
    IF WindowsExtendedKey(vk) # Unmapped THEN WindowsExtendedKey(vk) ELSE WindowsPlainKey(vk)

WindowsKey(vk, extended) ==
    IF extended /\ WindowsExtendedKey(vk) # Unmapped
    THEN WindowsExtendedKey(vk)
    ELSE WindowsPlainKey(vk)

WindowsCodes ==
    [Backspace |-> \h08, Tab |-> \h09, Enter |-> \h0D, Pause |-> \h13, CapsLock |-> \h14,
     Escape |-> \h1B, Space |-> \h20,
     Digit0 |-> \h30, Digit1 |-> \h31, Digit2 |-> \h32, Digit3 |-> \h33, Digit4 |-> \h34,
     Digit5 |-> \h35, Digit6 |-> \h36, Digit7 |-> \h37, Digit8 |-> \h38, Digit9 |-> \h39,
     A |-> \h41, B |-> \h42, C |-> \h43, D |-> \h44, E |-> \h45, F |-> \h46, G |-> \h47,
     H |-> \h48, I |-> \h49, J |-> \h4A, K |-> \h4B, L |-> \h4C, M |-> \h4D, N |-> \h4E,
     O |-> \h4F, P |-> \h50, Q |-> \h51, R |-> \h52, S |-> \h53, T |-> \h54, U |-> \h55,
     V |-> \h56, W |-> \h57, X |-> \h58, Y |-> \h59, Z |-> \h5A,
     Numpad0 |-> \h60, Numpad1 |-> \h61, Numpad2 |-> \h62, Numpad3 |-> \h63, Numpad4 |-> \h64,
     Numpad5 |-> \h65, Numpad6 |-> \h66, Numpad7 |-> \h67, Numpad8 |-> \h68, Numpad9 |-> \h69,
     NumpadMultiply |-> \h6A, NumpadAdd |-> \h6B, NumpadSubtract |-> \h6D,
     NumpadDecimal |-> \h6E,
     F1 |-> \h70, F2 |-> \h71, F3 |-> \h72, F4 |-> \h73, F5 |-> \h74, F6 |-> \h75, F7 |-> \h76,
     F8 |-> \h77, F9 |-> \h78, F10 |-> \h79, F11 |-> \h7A, F12 |-> \h7B, F13 |-> \h7C,
     F14 |-> \h7D, F15 |-> \h7E, F16 |-> \h7F, F17 |-> \h80, F18 |-> \h81, F19 |-> \h82,
     F20 |-> \h83, ScrollLock |-> \h91,
     ShiftLeft |-> \hA0, ShiftRight |-> \hA1, ControlLeft |-> \hA2, AltLeft |-> \hA4,
     Semicolon |-> \hBA, Equal |-> \hBB, Comma |-> \hBC, Minus |-> \hBD, Period |-> \hBE,
     Slash |-> \hBF, Backquote |-> \hC0,
     BracketLeft |-> \hDB, Backslash |-> \hDC, BracketRight |-> \hDD, Quote |-> \hDE]

(* Keys that are injected with KEYEVENTF_EXTENDEDKEY. *)
WindowsExtendedCodes ==
    [NumpadEnter |-> \h0D, PageUp |-> \h21, PageDown |-> \h22, End |-> \h23, Home |-> \h24,
     ArrowLeft |-> \h25, ArrowUp |-> \h26, ArrowRight |-> \h27, ArrowDown |-> \h28,
     PrintScreen |-> \h2C, Insert |-> \h2D, Delete |-> \h2E,
     MetaLeft |-> \h5B, MetaRight |-> \h5C, ContextMenu |-> \h5D, NumpadDivide |-> \h6F,
     NumLock |-> \h90, ControlRight |-> \hA3, AltRight |-> \hA5,
     VolumeMute |-> \hAD, VolumeDown |-> \hAE, VolumeUp |-> \hAF, MediaNext |-> \hB0,
     MediaPrevious |-> \hB1, MediaStop |-> \hB2, MediaPlayPause |-> \hB3]

(* Mutant: SendInput is never given the extended flag. *)
WindowsCodeWithoutFlag(key) ==
    IF key \in DOMAIN WindowsCodes THEN Key(WindowsCodes[key], FALSE)
    ELSE IF key \in DOMAIN WindowsExtendedCodes THEN Key(WindowsExtendedCodes[key], FALSE)
    ELSE NoCode

WindowsCode(key) ==
    IF key \in DOMAIN WindowsCodes THEN Key(WindowsCodes[key], FALSE)
    ELSE IF key \in DOMAIN WindowsExtendedCodes THEN Key(WindowsExtendedCodes[key], TRUE)
    ELSE NoCode

-----------------------------------------------------------------------------
(* ms-keymap, macos.rs *)

MacKey(vk) ==
    CASE vk \in \h00 .. \h09 -> <<"A", "S", "D", "F", "H", "G", "Z", "X", "C", "V">>[vk + 1]
      [] vk \in \h0B .. \h33 ->
            <<"B", "Q", "W", "E", "R", "Y", "T", "Digit1", "Digit2", "Digit3", "Digit4", "Digit6",
              "Digit5", "Equal", "Digit9", "Digit7", "Minus", "Digit8", "Digit0", "BracketRight",
              "O", "U", "BracketLeft", "I", "P", "Enter", "L", "J", "Quote", "K", "Semicolon",
              "Backslash", "Comma", "Slash", "N", "M", "Period", "Tab", "Space", "Backquote",
              "Backspace">>[vk - \h0A]
      [] vk \in \h35 .. \h3E ->
            <<"Escape", "MetaRight", "MetaLeft", "ShiftLeft", "CapsLock", "AltLeft",
              "ControlLeft", "ShiftRight", "AltRight", "ControlRight">>[vk - \h34]
      [] vk \in \h40 .. \h41 -> <<"F17", "NumpadDecimal">>[vk - \h3F]
      [] vk = \h43           -> "NumpadMultiply"
      [] vk = \h45           -> "NumpadAdd"
      [] vk = \h47           -> "NumLock"
      [] vk \in \h4B .. \h4C -> <<"NumpadDivide", "NumpadEnter">>[vk - \h4A]
      [] vk \in \h4E .. \h50 -> <<"NumpadSubtract", "F18", "F19">>[vk - \h4D]
      [] vk \in \h52 .. \h59 -> Numpad[vk - \h51]
      [] vk \in \h5A .. \h5C -> <<"F20", "Numpad8", "Numpad9">>[vk - \h59]
      [] vk \in \h60 .. \h65 -> <<"F5", "F6", "F7", "F3", "F8", "F9">>[vk - \h5F]
      [] vk = \h67           -> "F11"
      [] vk \in \h69 .. \h6B -> <<"F13", "F16", "F14">>[vk - \h68]
      [] vk \in \h6D .. \h6F -> <<"F10", "ContextMenu", "F12">>[vk - \h6C]
      [] vk \in \h71 .. \h7E ->
            <<"F15", "Insert", "Home", "PageUp", "Delete", "F4", "End", "F2", "PageDown",
              "F1", "ArrowLeft", "ArrowRight", "ArrowDown", "ArrowUp">>[vk - \h70]
      [] OTHER               -> Unmapped

MacCodes ==
    [A |-> \h00, S |-> \h01, D |-> \h02, F |-> \h03, H |-> \h04, G |-> \h05, Z |-> \h06,
     X |-> \h07, C |-> \h08, V |-> \h09, B |-> \h0B, Q |-> \h0C, W |-> \h0D, E |-> \h0E,
     R |-> \h0F, Y |-> \h10, T |-> \h11, O |-> \h1F, U |-> \h20, I |-> \h22, P |-> \h23,
     L |-> \h25, J |-> \h26, K |-> \h28, N |-> \h2D, M |-> \h2E,
     Digit1 |-> \h12, Digit2 |-> \h13, Digit3 |-> \h14, Digit4 |-> \h15, Digit5 |-> \h17,
     Digit6 |-> \h16, Digit7 |-> \h1A, Digit8 |-> \h1C, Digit9 |-> \h19, Digit0 |-> \h1D,
     F1 |-> \h7A, F2 |-> \h78, F3 |-> \h63, F4 |-> \h76, F5 |-> \h60, F6 |-> \h61, F7 |-> \h62,
     F8 |-> \h64, F9 |-> \h65, F10 |-> \h6D, F11 |-> \h67, F12 |-> \h6F, F13 |-> \h69,
     F14 |-> \h6B, F15 |-> \h71, F16 |-> \h6A, F17 |-> \h40, F18 |-> \h4F, F19 |-> \h50,
     F20 |-> \h5A,
     Escape |-> \h35, Tab |-> \h30, CapsLock |-> \h39, Space |-> \h31, Backspace |-> \h33,
     Enter |-> \h24, NumpadEnter |-> \h4C,
     ShiftLeft |-> \h38, ShiftRight |-> \h3C, ControlLeft |-> \h3B, ControlRight |-> \h3E,
     AltLeft |-> \h3A, AltRight |-> \h3D, MetaLeft |-> \h37, MetaRight |-> \h36,
     ArrowUp |-> \h7E, ArrowDown |-> \h7D, ArrowLeft |-> \h7B, ArrowRight |-> \h7C,
     Home |-> \h73, End |-> \h77, PageUp |-> \h74, PageDown |-> \h79,
     Insert |-> \h72, Delete |-> \h75, NumLock |-> \h47,
     Numpad0 |-> \h52, Numpad1 |-> \h53, Numpad2 |-> \h54, Numpad3 |-> \h55, Numpad4 |-> \h56,
     Numpad5 |-> \h57, Numpad6 |-> \h58, Numpad7 |-> \h59, Numpad8 |-> \h5B, Numpad9 |-> \h5C,
     NumpadAdd |-> \h45, NumpadSubtract |-> \h4E, NumpadMultiply |-> \h43,
     NumpadDivide |-> \h4B, NumpadDecimal |-> \h41,
     Minus |-> \h1B, Equal |-> \h18, BracketLeft |-> \h21, BracketRight |-> \h1E,
     Backslash |-> \h2A, Semicolon |-> \h29, Quote |-> \h27, Comma |-> \h2B, Period |-> \h2F,
     Slash |-> \h2C, Backquote |-> \h32, ContextMenu |-> \h6E]

(* The media keys, Pause and the like have no code (macos.rs:120-126). *)
MacCode(key) == IF key \in DOMAIN MacCodes THEN Key(MacCodes[key], FALSE) ELSE NoCode

-----------------------------------------------------------------------------
(* The capture layers and the injectors *)

(* The hooks of both systems: an X button that is not the first is Forward  *)
(* on Windows, a button above 4 is Other on macOS.                          *)
CapturedKey(os, code) ==
    IF code.device = "mouse" THEN Buttons[code.vk + 1]
    ELSE IF os = "Windows" THEN WindowsKey(code.vk, code.extended) ELSE MacKey(code.vk)

(* Mutant: a button the system has no name for is injected all the same. *)
InjectedCodeOfAny(os, key) ==
    IF key \in MouseButton
    THEN Button((CHOOSE n \in DOMAIN Buttons : Buttons[n] = key) - 1)
    ELSE IF os = "Windows" THEN WindowsCode(key) ELSE MacCode(key)

(* mouse_button and key_event: NoCode stands for InjectError::Synthesis,    *)
(* which the daemon logs and forgets.                                       *)
InjectedCode(os, key) ==
    IF key = "MouseOther" THEN NoCode
    ELSE IF key \in MouseButton
    THEN Button((CHOOSE n \in DOMAIN Buttons : Buttons[n] = key) - 1)
    ELSE IF os = "Windows" THEN WindowsCode(key) ELSE MacCode(key)

(* modifier_bit_for_keycode: the flag that both keys of a pair share, and   *)
(* the lock's.                                                              *)
ModifierBit(code) ==
    CASE code.vk \in {\h38, \h3C} -> "Shift"
      [] code.vk \in {\h3B, \h3E} -> "Control"
      [] code.vk \in {\h3A, \h3D} -> "Alternate"
      [] code.vk \in {\h37, \h36} -> "Command"
      [] code.vk = \h39 -> "AlphaShift"
      [] OTHER -> "None"

IsFlag(os, code) ==
    os = "MacOs" /\ code.device = "keyboard" /\ ModifierBit(code) # "None"

(* Whether a code that has just come (isDown) or gone is reported as        *)
(* pressed, codes being down from then on: macOS reports only flags.        *)
Pressed(os, code, isDown, codes) ==
    IF IsFlag(os, code)
    THEN \E c \in codes : IsFlag(os, c) /\ ModifierBit(c) = ModifierBit(code)
    ELSE isDown

With(set, x, isDown) == IF isDown THEN set \cup {x} ELSE set \ {x}

(* CaptureAdapter::on_key_event and on_mouse_button: buttons are not held. *)
Recorded(keys, name, pressed) ==
    IF name \in MouseButton THEN keys ELSE With(keys, name, pressed)

-----------------------------------------------------------------------------
(* The user's keyboard and mouse, outside the repository *)

(* A Windows key of the numpad without Num Lock; the 5 is VK_CLEAR then.    *)
NumpadCode == {\h0C} \cup (\h21 .. \h28) \cup (\h2D .. \h2E)

WithoutNumLock(vk) ==
    CASE vk \in \h21 .. \h28 -> NumpadArrows[vk - \h20]
      [] vk \in \h2D .. \h2E -> <<"Numpad0", "NumpadDecimal">>[vk - \h2C]
      [] vk = \h0C           -> "Numpad5"
      [] OTHER               -> Unmapped

(* The codes one and the same key may report.  Num Lock can change between  *)
(* the press and the release of a key.                                      *)
Codes(os, key) ==
    IF key = Unmapped THEN {Key(\hFF, FALSE)}
    ELSE IF key = "MouseOther" /\ os = "MacOs" THEN {Button(5)}
    ELSE ({InjectedCode(os, key)} \ {NoCode}) \cup
         IF os = "Windows" THEN {Key(vk, FALSE) : vk \in {v \in NumpadCode : WithoutNumLock(v) = key}}
                           ELSE {}

Keyboard(os) == {key \in LogicalKey \cup MouseButton \cup {Unmapped} : Codes(os, key) # {}}

Init ==
    /\ source \in OS
    /\ target \in OS
    /\ used = {} /\ held = {} /\ captured = {} /\ down = {} /\ echoed = {}

(* A key goes down, repeats or goes up: the source's hook names it, and the *)
(* target's injector posts the code of that name, which the target's own    *)
(* hook sees in turn, injected or not.                                      *)
Move(key, code, isDown) ==
    LET name    == CapturedKey(source, code)
        pressed == Pressed(source, code, isDown, UNION {Codes(source, k) : k \in held'})
        posted  == InjectedCode(target, name)
    IN  /\ held' = With(held, key, isDown)
        /\ captured' = Recorded(captured, name, pressed)
        /\ IF posted = NoCode
           THEN UNCHANGED <<down, echoed>>
           ELSE /\ down' = With(down, posted, pressed)
                /\ echoed' = Recorded(echoed, CapturedKey(target, posted),
                                      Pressed(target, posted, pressed, down'))

KeyDown ==
    \E key \in Keyboard(source) :
        /\ used' = used \cup {key}
        /\ Cardinality(used') <= MaxKeys
        /\ \E code \in Codes(source, key) : Move(key, code, TRUE)
        /\ UNCHANGED <<source, target>>

KeyUp ==
    \E key \in held :
        /\ \E code \in Codes(source, key) : Move(key, code, FALSE)
        /\ UNCHANGED <<source, target, used>>

Next == KeyDown \/ KeyUp

Spec == Init /\ [][Next]_vars

-----------------------------------------------------------------------------
TypeOK ==
    /\ source \in OS /\ target \in OS
    /\ used \subseteq Keyboard(source)
    /\ held \subseteq used
    /\ captured \subseteq LogicalKey \cup {Unmapped}
    /\ down \subseteq [device : {"keyboard", "mouse"}, vk : 0 .. 255, extended : BOOLEAN] \ {Button(5)}
    /\ echoed \subseteq LogicalKey

(* The keys of os whose press and release do not pair: a Mac modifier after *)
(* its twin was used too (a flag does not say which of the two it is for,   *)
(* capture.rs:184-190), and the 5 of a Windows numpad, which has a name     *)
(* with Num Lock and none without (windows.rs:57-63).                       *)
Unpaired(os) ==
    IF os = "Windows" THEN {"Numpad5"}
    ELSE {key \in used :
             \E twin \in used \ {key} : \E c \in Codes(os, key), t \in Codes(os, twin) :
                 IsFlag(os, c) /\ IsFlag(os, t) /\ ModifierBit(c) = ModifierBit(t)}

(* For every key that presses and releases alike and that the target has:   *)
(* it is down for the target's applications exactly while the user holds    *)
(* it, through any sequence of other keys, repeats and changes of Num Lock, *)
(* and nothing the user did not use is ever down.  This takes the inverse   *)
(* tables of both systems to fit each other, and no two keys to share a     *)
(* code.                                                                    *)
KeysArrive ==
    /\ \A key \in used \ Unpaired(source) :
          LET code == InjectedCode(target, key)
          IN  code # NoCode => (key \in held <=> code \in down)
    /\ down \subseteq {InjectedCode(target, key) : key \in used}

(* The held sets at the two ends, which the emergency chord is looked up in *)
(* (state_machine.rs:158), are the user's: that of the source names the     *)
(* keys that are held, and that of the target, filled by its own hook from  *)
(* what was injected, names the same keys as far as the target has them.    *)
(* So a chord pressed at the source is complete at the target too.          *)
HeldSetsAgree ==
    \A key \in (used \cap LogicalKey) \ Unpaired(source) :
        /\ key \in held <=> key \in captured
        /\ \/ key \in Unpaired(target)
           \/ InjectedCode(target, key) = NoCode
           \/ key \in held <=> key \in echoed
=============================================================================
