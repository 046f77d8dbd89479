---------------------------- MODULE KeyPathProofs ----------------------------
(***************************************************************************)
(* What KeyPath says of keys on their way, for any number of keys in one   *)
(* behaviour.  The tables of ms-keymap are expanded and compared entry by  *)
(* entry, once, in the lemmas about tables.                                *)
(***************************************************************************)
EXTENDS KeyPath, TLAPS

Name == LogicalKey \cup MouseButton \cup {Unmapped}

Code == [device : {"keyboard", "mouse"}, vk : 0 .. 255, extended : BOOLEAN] \ {Button(5)}

-----------------------------------------------------------------------------
(* The tables *)

(* What a Windows code table leads to, the other one leads back from. *)
LEMMA WindowsPlainInverse ==
    \A k \in DOMAIN WindowsCodes : WindowsPlainKey(WindowsCodes[k]) = k
<1> DEFINE single == <<"Backspace", "Tab", "Enter", "Pause", "CapsLock", "Escape", "Space",
                       "NumpadMultiply", "NumpadAdd", "NumpadSubtract", "NumpadDecimal",
                       "ScrollLock", "ShiftLeft", "ShiftRight", "ControlLeft", "AltLeft",
                       "Semicolon", "Equal", "Comma", "Minus", "Period", "Slash", "Backquote",
                       "BracketLeft", "Backslash", "BracketRight", "Quote">>
           code == <<\h08, \h09, \h0D, \h13, \h14, \h1B, \h20, \h6A, \h6B, \h6D, \h6E, \h91,
                     \hA0, \hA1, \hA2, \hA4, \hBA, \hBB, \hBC, \hBD, \hBE, \hBF, \hC0,
                     \hDB, \hDC, \hDD, \hDE>>
           Fits(key) == WindowsPlainKey(WindowsCodes[key]) = key
<1>1. ASSUME NEW i \in 1 .. 26 PROVE Fits(Letters[i])
  <2>1. WindowsCodes[Letters[i]] = \h40 + i
    BY DEF WindowsCodes, Letters
  <2>2. WindowsPlainKey(\h40 + i) = Letters[i]
    BY DEF WindowsPlainKey
  <2>3. QED
    BY <2>1, <2>2
<1>2. ASSUME NEW i \in 1 .. 10 PROVE Fits(Digits[i]) /\ Fits(Numpad[i])
  <2>1. WindowsCodes[Digits[i]] = \h2F + i /\ WindowsCodes[Numpad[i]] = \h5F + i
    BY DEF WindowsCodes, Digits, Numpad
  <2>2. WindowsPlainKey(\h2F + i) = Digits[i] /\ WindowsPlainKey(\h5F + i) = Numpad[i]
    BY DEF WindowsPlainKey
  <2>3. QED
    BY <2>1, <2>2
<1>3. ASSUME NEW i \in 1 .. 20 PROVE Fits(FunctionKeys[i])
  <2>1. WindowsCodes[FunctionKeys[i]] = \h6F + i
    BY DEF WindowsCodes, FunctionKeys
  <2>2. WindowsPlainKey(\h6F + i) = FunctionKeys[i]
    BY DEF WindowsPlainKey
  <2>3. QED
    BY <2>1, <2>2
<1>4. ASSUME NEW i \in 1 .. 27 PROVE Fits(single[i])
  <2>1. WindowsCodes[single[i]] = code[i]
    BY DEF WindowsCodes
  <2>2. WindowsPlainKey(code[i]) = single[i]
    BY DEF WindowsPlainKey, Modifiers
  <2>3. QED
    BY <2>1, <2>2
<1>5. SUFFICES ASSUME NEW k \in DOMAIN WindowsCodes PROVE Fits(k)
  OBVIOUS
<1>6. k \in Elements(Letters) \cup Elements(Digits) \cup Elements(Numpad)
            \cup Elements(FunctionKeys) \cup Elements(single)
  BY DEF WindowsCodes, Elements, Letters, Digits, Numpad, FunctionKeys
<1>7. /\ DOMAIN Letters = 1 .. 26 /\ DOMAIN Digits = 1 .. 10 /\ DOMAIN Numpad = 1 .. 10
      /\ DOMAIN FunctionKeys = 1 .. 20 /\ DOMAIN single = 1 .. 27
  BY DEF Letters, Digits, Numpad, FunctionKeys
<1> HIDE DEF single, Fits
<1>8. QED
  BY <1>1, <1>2, <1>3, <1>4, <1>6, <1>7 DEF Elements

(* The dedicated keys: by the flag, or because the plain table has them too. *)
LEMMA WindowsExtendedInverse ==
    \A k \in DOMAIN WindowsExtendedCodes : WindowsKey(WindowsExtendedCodes[k], TRUE) = k
<1> DEFINE Fits(key) == WindowsKey(WindowsExtendedCodes[key], TRUE) = key
           single == <<"NumpadEnter", "PrintScreen", "Insert", "Delete", "MetaLeft", "MetaRight",
                       "ContextMenu", "NumpadDivide", "NumLock", "ControlRight", "AltRight">>
           code == <<\h0D, \h2C, \h2D, \h2E, \h5B, \h5C, \h5D, \h6F, \h90, \hA3, \hA5>>
<1>1. ASSUME NEW i \in 1 .. 8 PROVE Fits(Navigation[i])
  <2>1. WindowsExtendedCodes[Navigation[i]] = \h20 + i
    BY DEF WindowsExtendedCodes, Navigation
  <2>2. WindowsExtendedKey(\h20 + i) = Navigation[i] /\ Navigation[i] # Unmapped
    BY DEF WindowsExtendedKey, Navigation, Unmapped
  <2>3. QED
    BY <2>1, <2>2 DEF WindowsKey
<1>2. ASSUME NEW i \in 1 .. 7 PROVE Fits(Media[i])
  <2>1. WindowsExtendedCodes[Media[i]] = \hAC + i
    BY DEF WindowsExtendedCodes, Media
  <2>2. WindowsExtendedKey(\hAC + i) \in {Unmapped, Media[i]}
    BY DEF WindowsExtendedKey
  <2>3. WindowsPlainKey(\hAC + i) = Media[i]
    BY DEF WindowsPlainKey
  <2>4. QED
    BY <2>1, <2>2, <2>3 DEF WindowsKey
<1>3. ASSUME NEW i \in 1 .. 11 PROVE Fits(single[i])
  <2>1. WindowsExtendedCodes[single[i]] = code[i]
    BY DEF WindowsExtendedCodes
  <2>2. WindowsExtendedKey(code[i]) \in {Unmapped, single[i]}
    BY DEF WindowsExtendedKey
  <2>3. \/ WindowsExtendedKey(code[i]) = single[i] /\ single[i] # Unmapped
        \/ WindowsPlainKey(code[i]) = single[i]
    BY DEF WindowsExtendedKey, WindowsPlainKey, Modifiers, Unmapped
  <2>4. QED
    BY <2>1, <2>2, <2>3 DEF WindowsKey
<1>4. SUFFICES ASSUME NEW k \in DOMAIN WindowsExtendedCodes PROVE Fits(k)
  OBVIOUS
<1>5. k \in Elements(Navigation) \cup Elements(Media) \cup Elements(single)
  BY DEF WindowsExtendedCodes, Elements, Navigation, Media
<1>6. DOMAIN Navigation = 1 .. 8 /\ DOMAIN Media = 1 .. 7 /\ DOMAIN single = 1 .. 11
  BY DEF Navigation, Media
<1> HIDE DEF single, Fits
<1>7. QED
  BY <1>1, <1>2, <1>3, <1>5, <1>6 DEF Elements

(* So it is on macOS. *)
LEMMA MacInverse ==
    \A k \in DOMAIN MacCodes : MacKey(MacCodes[k]) = k
<1> DEFINE letter == <<\h00, \h0B, \h08, \h02, \h0E, \h03, \h05, \h04, \h22, \h26, \h28, \h25,
                       \h2E, \h2D, \h1F, \h23, \h0C, \h0F, \h01, \h11, \h20, \h09, \h0D, \h07,
                       \h10, \h06>>
           digit == <<\h1D, \h12, \h13, \h14, \h15, \h17, \h16, \h1A, \h1C, \h19>>
           function == <<\h7A, \h78, \h63, \h76, \h60, \h61, \h62, \h64, \h65, \h6D, \h67, \h6F,
                         \h69, \h6B, \h71, \h6A, \h40, \h4F, \h50, \h5A>>
           modifier == <<\h38, \h3C, \h3B, \h3E, \h3A, \h3D>>
           navigation == <<\h74, \h79, \h77, \h73, \h7B, \h7E, \h7C, \h7D>>
           numpad == <<\h52, \h53, \h54, \h55, \h56, \h57, \h58, \h59, \h5B, \h5C>>
           others == <<"Escape", "Tab", "CapsLock", "Space", "Backspace", "Enter", "NumpadEnter",
                       "MetaLeft", "MetaRight", "Insert", "Delete", "NumLock", "NumpadAdd",
                       "NumpadSubtract", "NumpadMultiply", "NumpadDivide", "NumpadDecimal",
                       "Minus", "Equal", "BracketLeft", "BracketRight", "Backslash",
                       "Semicolon", "Quote", "Comma", "Period", "Slash", "Backquote",
                       "ContextMenu">>
           other == <<\h35, \h30, \h39, \h31, \h33, \h24, \h4C, \h37, \h36, \h72, \h75, \h47,
                      \h45, \h4E, \h43, \h4B, \h41, \h1B, \h18, \h21, \h1E, \h2A, \h29, \h27,
                      \h2B, \h2F, \h2C, \h32, \h6E>>
           Fits(key) == MacKey(MacCodes[key]) = key
<1>1. ASSUME NEW i \in 1 .. 26 PROVE Fits(Letters[i])
  <2>1. MacCodes[Letters[i]] = letter[i]
    BY DEF MacCodes, Letters
  <2>2. MacKey(letter[i]) = Letters[i]
    BY DEF MacKey, Letters
  <2>3. QED
    BY <2>1, <2>2
<1>2. ASSUME NEW i \in 1 .. 10 PROVE Fits(Digits[i]) /\ Fits(Numpad[i])
  <2>1. MacCodes[Digits[i]] = digit[i] /\ MacCodes[Numpad[i]] = numpad[i]
    BY DEF MacCodes, Digits, Numpad
  <2>2. MacKey(digit[i]) = Digits[i]
    BY DEF MacKey, Digits
  <2>3. MacKey(numpad[i]) = Numpad[i]
    BY DEF MacKey, Numpad
  <2>4. QED
    BY <2>1, <2>2, <2>3
<1>3. ASSUME NEW i \in 1 .. 20 PROVE Fits(FunctionKeys[i])
  <2>1. MacCodes[FunctionKeys[i]] = function[i]
    BY DEF MacCodes, FunctionKeys
  <2>2. MacKey(function[i]) = FunctionKeys[i]
    BY DEF MacKey, FunctionKeys
  <2>3. QED
    BY <2>1, <2>2
<1>4. ASSUME NEW i \in 1 .. 6 PROVE Fits(Modifiers[i])
  <2>1. MacCodes[Modifiers[i]] = modifier[i]
    BY DEF MacCodes, Modifiers
  <2>2. MacKey(modifier[i]) = Modifiers[i]
    BY DEF MacKey, Modifiers
  <2>3. QED
    BY <2>1, <2>2
<1>5. ASSUME NEW i \in 1 .. 8 PROVE Fits(Navigation[i])
  <2>1. MacCodes[Navigation[i]] = navigation[i]
    BY DEF MacCodes, Navigation
  <2>2. MacKey(navigation[i]) = Navigation[i]
    BY DEF MacKey, Navigation
  <2>3. QED
    BY <2>1, <2>2
<1>6. ASSUME NEW i \in 1 .. 29 PROVE Fits(others[i])
  <2>1. MacCodes[others[i]] = other[i]
    BY DEF MacCodes
  <2>2. MacKey(other[i]) = others[i]
    BY DEF MacKey
  <2>3. QED
    BY <2>1, <2>2
<1>7. SUFFICES ASSUME NEW k \in DOMAIN MacCodes PROVE Fits(k)
  OBVIOUS
<1>8. k \in Elements(Letters) \cup Elements(Digits) \cup Elements(Numpad)
            \cup Elements(FunctionKeys) \cup Elements(Modifiers) \cup Elements(Navigation)
            \cup Elements(others)
  BY DEF MacCodes, Elements, Letters, Digits, Numpad, FunctionKeys, Modifiers, Navigation
<1>9. /\ DOMAIN Letters = 1 .. 26 /\ DOMAIN Digits = 1 .. 10 /\ DOMAIN Numpad = 1 .. 10
      /\ DOMAIN FunctionKeys = 1 .. 20 /\ DOMAIN Modifiers = 1 .. 6
      /\ DOMAIN Navigation = 1 .. 8 /\ DOMAIN others = 1 .. 29
  BY DEF Letters, Digits, Numpad, FunctionKeys, Modifiers, Navigation
<1> HIDE DEF others, Fits
<1>10. QED
  BY <1>1, <1>2, <1>3, <1>4, <1>5, <1>6, <1>8, <1>9 DEF Elements

LEMMA CodesTyped ==
    /\ \A k \in DOMAIN WindowsCodes : WindowsCodes[k] \in 0 .. 255
    /\ \A k \in DOMAIN WindowsExtendedCodes : WindowsExtendedCodes[k] \in 0 .. 255
    /\ \A k \in DOMAIN MacCodes : MacCodes[k] \in 0 .. 255
<1>1. \A k \in DOMAIN WindowsCodes : WindowsCodes[k] \in 0 .. 255
  BY SMTT(30) DEF WindowsCodes
<1>2. \A k \in DOMAIN WindowsExtendedCodes : WindowsExtendedCodes[k] \in 0 .. 255
  BY SMTT(30) DEF WindowsExtendedCodes
<1>3. \A k \in DOMAIN MacCodes : MacCodes[k] \in 0 .. 255
  BY SMTT(30) DEF MacCodes
<1>4. QED
  BY <1>1, <1>2, <1>3

LEMMA UnmappedHasNoCode ==
    /\ Unmapped \notin DOMAIN WindowsCodes
    /\ Unmapped \notin DOMAIN WindowsExtendedCodes
    /\ Unmapped \notin DOMAIN MacCodes
BY DEF Unmapped, WindowsCodes, WindowsExtendedCodes, MacCodes

(* A code that is in no table. *)
LEMMA NoSuchKey == WindowsPlainKey(\hFF) = Unmapped /\ MacKey(\hFF) = Unmapped
BY DEF WindowsPlainKey, MacKey

(* The numpad without Num Lock: all but its 5 are the same keys as with it. *)
LEMMA WithoutNumLockFits ==
    \A vk \in NumpadCode :
        IF vk = \h0C THEN WithoutNumLock(vk) = "Numpad5" /\ WindowsPlainKey(vk) = Unmapped
                     ELSE WindowsPlainKey(vk) = WithoutNumLock(vk)
BY SMTT(30) DEF NumpadCode, WithoutNumLock, WindowsPlainKey, NumpadArrows, Unmapped

LEMMA ButtonsAre ==
    /\ MouseButton = {"MouseLeft", "MouseRight", "MouseMiddle", "MouseBack", "MouseForward", "MouseOther"}
    /\ DOMAIN Buttons = 1 .. 6
    /\ Buttons[6] = "MouseOther"
    /\ \A i, j \in 1 .. 6 : Buttons[i] = Buttons[j] => i = j
BY DEF MouseButton, Buttons, Elements

(* The names of keys, those of buttons and Unmapped are different. *)
LEMMA NamesDiffer ==
    /\ Unmapped \notin LogicalKey /\ Unmapped \notin MouseButton
    /\ \A b \in MouseButton : b \notin LogicalKey
<1> DEFINE others == MouseButton \cup {Unmapped}
<1>1. others = {"MouseLeft", "MouseRight", "MouseMiddle", "MouseBack", "MouseForward",
                "MouseOther", "Unmapped"}
  BY ButtonsAre DEF Unmapped
<1> HIDE DEF others
<1>2. \A k \in UNION {Elements(keys) :
                 keys \in {Letters, Digits, FunctionKeys, Modifiers, Navigation, Numpad, Media}} :
          k \notin others
  BY <1>1 DEF Elements, Letters, Digits, FunctionKeys, Modifiers, Navigation, Numpad, Media
<1>3. ASSUME NEW k \in LogicalKey PROVE k \notin others
  <2>1. CASE \E keys \in {Letters, Digits, FunctionKeys, Modifiers, Navigation, Numpad, Media} :
                 k \in Elements(keys)
    BY <1>2, <2>1
  <2>2. CASE \A keys \in {Letters, Digits, FunctionKeys, Modifiers, Navigation, Numpad, Media} :
                 k \notin Elements(keys)
    <3>1. k \notin UNION {Elements(keys) :
              keys \in {Letters, Digits, FunctionKeys, Modifiers, Navigation, Numpad, Media}}
      BY <2>2, Zenon
    <3>2. k \in SingleKeys
      BY <3>1 DEF LogicalKey
    <3>3. QED
      BY <1>1, <3>2 DEF SingleKeys
  <2>3. QED
    BY <2>1, <2>2
<1>4. Unmapped \notin MouseButton
  BY ButtonsAre DEF Unmapped
<1>5. QED
  BY <1>3, <1>4 DEF others

-----------------------------------------------------------------------------
(* Capture layers and injectors *)

LEMMA ButtonCode ==
    ASSUME NEW os \in OS, NEW key \in MouseButton, key # "MouseOther"
    PROVE  \E n \in 0 .. 4 : InjectedCode(os, key) = Button(n) /\ Buttons[n + 1] = key
<1> DEFINE n == CHOOSE n \in DOMAIN Buttons : Buttons[n] = key
<1>1. \E i \in DOMAIN Buttons : Buttons[i] = key
  BY DEF MouseButton, Elements
<1>2. n \in 1 .. 6 /\ Buttons[n] = key
  BY <1>1, ButtonsAre
<1>3. n \in 1 .. 5
  BY <1>2, ButtonsAre
<1>4. InjectedCode(os, key) = Button(n - 1)
  BY DEF InjectedCode
<1> HIDE DEF n
<1>5. n - 1 \in 0 .. 4 /\ (n - 1) + 1 = n
  BY <1>3
<1>6. QED
  BY <1>2, <1>4, <1>5

(* What an injector posts, the capture layer of its system names again. *)
LEMMA InjectedIsNamed ==
    ASSUME NEW os \in OS, NEW key \in Name, InjectedCode(os, key) # NoCode
    PROVE  /\ CapturedKey(os, InjectedCode(os, key)) = key
           /\ InjectedCode(os, key) \in Code
           /\ key # Unmapped /\ key # "MouseOther"
<1>1. key # "MouseOther"
  BY DEF InjectedCode
<1>2. CASE key \in MouseButton
  <2>1. PICK n \in 0 .. 4 : InjectedCode(os, key) = Button(n) /\ Buttons[n + 1] = key
    BY <1>1, <1>2, ButtonCode
  <2>2. QED
    BY <1>1, <1>2, <2>1, NamesDiffer DEF CapturedKey, Button, Code
<1>3. CASE key \notin MouseButton /\ os = "Windows"
  <2>1. InjectedCode(os, key) = WindowsCode(key)
    BY <1>1, <1>3 DEF InjectedCode
  <2>2. CASE key \in DOMAIN WindowsCodes
    <3>1. WindowsCode(key) = Key(WindowsCodes[key], FALSE)
      BY <2>2 DEF WindowsCode
    <3>2. CapturedKey(os, Key(WindowsCodes[key], FALSE)) = WindowsPlainKey(WindowsCodes[key])
      BY <1>3 DEF CapturedKey, Key, WindowsKey
    <3>3. Key(WindowsCodes[key], FALSE) \in Code
      BY <2>2, CodesTyped DEF Key, Code, Button
    <3>4. QED
      BY <1>1, <2>1, <2>2, <3>1, <3>2, <3>3, WindowsPlainInverse, UnmappedHasNoCode
  <2>3. CASE key \notin DOMAIN WindowsCodes /\ key \in DOMAIN WindowsExtendedCodes
    <3>1. WindowsCode(key) = Key(WindowsExtendedCodes[key], TRUE)
      BY <2>3 DEF WindowsCode
    <3>2. CapturedKey(os, Key(WindowsExtendedCodes[key], TRUE)) = WindowsKey(WindowsExtendedCodes[key], TRUE)
      BY <1>3 DEF CapturedKey, Key
    <3>3. Key(WindowsExtendedCodes[key], TRUE) \in Code
      BY <2>3, CodesTyped DEF Key, Code, Button
    <3>4. QED
      BY <1>1, <2>1, <2>3, <3>1, <3>2, <3>3, WindowsExtendedInverse, UnmappedHasNoCode
  <2>4. CASE key \notin DOMAIN WindowsCodes /\ key \notin DOMAIN WindowsExtendedCodes
    BY <2>1, <2>4 DEF WindowsCode
  <2>5. QED
    BY <2>2, <2>3, <2>4
<1>4. CASE key \notin MouseButton /\ os = "MacOs"
  <2>1. InjectedCode(os, key) = MacCode(key)
    BY <1>1, <1>4 DEF InjectedCode
  <2>2. key \in DOMAIN MacCodes /\ MacCode(key) = Key(MacCodes[key], FALSE)
    BY <2>1 DEF MacCode
  <2>3. CapturedKey(os, Key(MacCodes[key], FALSE)) = MacKey(MacCodes[key])
    BY <1>4 DEF CapturedKey, Key
  <2>4. Key(MacCodes[key], FALSE) \in Code
    BY <2>2, CodesTyped DEF Key, Code, Button
  <2>5. QED
    BY <1>1, <2>1, <2>2, <2>3, <2>4, MacInverse, UnmappedHasNoCode
<1>5. QED
  BY <1>2, <1>3, <1>4 DEF OS

LEMMA UnmappedIsNotInjected ==
    ASSUME NEW os \in OS
    PROVE  InjectedCode(os, Unmapped) = NoCode
BY InjectedIsNamed DEF Name

LEMMA InjectedOnce ==
    ASSUME NEW os \in OS, NEW k \in Name, NEW l \in Name,
           InjectedCode(os, k) = InjectedCode(os, l), InjectedCode(os, k) # NoCode
    PROVE  k = l
BY InjectedIsNamed

LEMMA InjectedIsACode ==
    ASSUME NEW os \in OS, NEW key \in Name, InjectedCode(os, key) # NoCode
    PROVE  InjectedCode(os, key) \in Codes(os, key)
BY InjectedIsNamed DEF Codes

(* A key is reported under its name, but for the 5 without Num Lock. *)
LEMMA ReportedByName ==
    ASSUME NEW os \in OS, NEW key \in Name, NEW code \in Codes(os, key)
    PROVE  \/ CapturedKey(os, code) = key
           \/ os = "Windows" /\ key = "Numpad5" /\ CapturedKey(os, code) = Unmapped
<1>1. CASE key = Unmapped
  <2>1. code = Key(\hFF, FALSE)
    BY <1>1 DEF Codes
  <2>2. CapturedKey(os, code) = Unmapped
    BY <2>1, NoSuchKey DEF CapturedKey, Key, WindowsKey, OS
  <2>3. QED
    BY <1>1, <2>2
<1>2. CASE key = "MouseOther" /\ os = "MacOs"
  <2>1. code = Button(5)
    BY <1>2 DEF Codes, Unmapped
  <2>2. QED
    BY <1>2, <2>1, ButtonsAre DEF CapturedKey, Button
<1>3. CASE code = InjectedCode(os, key) /\ code # NoCode
  BY <1>3, InjectedIsNamed
<1>4. CASE os = "Windows" /\ \E vk \in NumpadCode : WithoutNumLock(vk) = key /\ code = Key(vk, FALSE)
  <2>1. PICK vk \in NumpadCode : WithoutNumLock(vk) = key /\ code = Key(vk, FALSE)
    BY <1>4
  <2>2. CapturedKey(os, code) = WindowsPlainKey(vk)
    BY <1>4, <2>1 DEF CapturedKey, Key, WindowsKey
  <2>3. QED
    BY <1>4, <2>1, <2>2, WithoutNumLockFits
<1>5. QED
  BY <1>1, <1>2, <1>3, <1>4 DEF Codes

(* What a hook reports is right if no other key that is down has the flag. *)
LEMMA PressedIsRight ==
    ASSUME NEW os, NEW code, NEW isDown \in BOOLEAN, NEW codes,
           isDown => code \in codes,
           \A c \in codes :
               IsFlag(os, c) /\ IsFlag(os, code) /\ ModifierBit(c) = ModifierBit(code) => isDown
    PROVE  Pressed(os, code, isDown, codes) <=> isDown
BY DEF Pressed

-----------------------------------------------------------------------------
(* One movement of a key *)

Inv == TypeOK /\ KeysArrive /\ HeldSetsAgree

LEMMA KeyboardNames ==
    ASSUME NEW os
    PROVE  Keyboard(os) \subseteq Name
BY DEF Keyboard, Name

(* Whoever has no twin among more keys has none among fewer. *)
LEMMA UnpairedGrows ==
    ASSUME NEW os \in OS, used \subseteq used', NEW key \in used, key \notin Unpaired(os)'
    PROVE  key \notin Unpaired(os)
BY DEF Unpaired

LEMMA MoveKeeps ==
    ASSUME Inv, NEW key \in Keyboard(source), NEW code \in Codes(source, key),
           NEW isDown \in BOOLEAN, Move(key, code, isDown),
           used' = used \cup {key}, source' = source, target' = target
    PROVE  Inv'
<1> DEFINE name    == CapturedKey(source, code)
           reach   == UNION {Codes(source, k) : k \in held'}
           pressed == Pressed(source, code, isDown, reach)
           posted  == InjectedCode(target, name)
           echo    == Pressed(target, posted, pressed, down')
<1>1. /\ source \in OS /\ target \in OS
      /\ key \in Name /\ used \subseteq Name /\ held \subseteq used
      /\ down \subseteq Code /\ captured \subseteq LogicalKey \cup {Unmapped}
      /\ echoed \subseteq LogicalKey
  BY KeyboardNames DEF Inv, TypeOK, Code
<1>2. name = key \/ (source = "Windows" /\ key = "Numpad5" /\ name = Unmapped)
  BY <1>1, ReportedByName
<1>3. name \in Name
  BY <1>1, <1>2 DEF Name
<1>4. posted # NoCode => /\ name = key /\ posted = InjectedCode(target, key)
                         /\ CapturedKey(target, posted) = key
                         /\ posted \in Code /\ posted \in Codes(target, key)
                         /\ key # Unmapped
  BY <1>1, <1>2, <1>3, UnmappedIsNotInjected, InjectedIsNamed, InjectedIsACode
<1>5. held' = With(held, key, isDown) /\ captured' = Recorded(captured, name, pressed)
  BY DEF Move
<1>6. \/ posted = NoCode /\ down' = down /\ echoed' = echoed
      \/ posted # NoCode /\ down' = With(down, posted, pressed)
         /\ echoed' = Recorded(echoed, CapturedKey(target, posted), echo)
  BY DEF Move
<1>7. \A k : k \in held' <=> (IF k = key THEN isDown ELSE k \in held)
  BY <1>5 DEF With
<1>8. held' \subseteq used'
  BY <1>1, <1>7
<1>9. ASSUME key \notin Unpaired(source)'
      PROVE  name = key /\ (pressed <=> isDown)
  <2>1. name = key
    BY <1>2, <1>9 DEF Unpaired
  <2>2. isDown => code \in reach
    BY <1>7
  <2>3. ASSUME NEW c \in reach, IsFlag(source, c), IsFlag(source, code),
               ModifierBit(c) = ModifierBit(code)
        PROVE  isDown
    <3>1. PICK k \in held' : c \in Codes(source, k)
      OBVIOUS
    <3>2. source = "MacOs" /\ k \in used' /\ key \in used'
      BY <1>8, <2>3 DEF IsFlag
    <3>3. k = key
      BY <1>9, <2>3, <3>1, <3>2 DEF Unpaired
    <3>4. QED
      BY <1>7, <3>3
  <2> HIDE DEF reach
  <2>4. pressed <=> isDown
    BY <2>2, <2>3, PressedIsRight
  <2>5. QED
    BY <2>1, <2>4
<1>10. down' \subseteq {InjectedCode(target, k) : k \in used'}
  <2>1. down \subseteq {InjectedCode(target, k) : k \in used}
    BY DEF Inv, KeysArrive
  <2>2. QED
    BY <1>4, <1>6, <2>1 DEF With
<1>11. down' \subseteq Code
  BY <1>1, <1>4, <1>6 DEF With
<1>12. ASSUME posted # NoCode, key \notin Unpaired(target)'
       PROVE  echo <=> pressed
  <2>1. pressed \in BOOLEAN
    BY DEF Pressed
  <2>2. posted \in down' <=> pressed
    BY <1>6, <1>12 DEF With
  <2>3. ASSUME NEW c \in down', IsFlag(target, c), IsFlag(target, posted),
               ModifierBit(c) = ModifierBit(posted)
        PROVE  pressed
    <3>1. PICK k \in used' : c = InjectedCode(target, k)
      BY <1>10
    <3>2. c # NoCode /\ k \in Name
      BY <1>1, <1>11, <3>1 DEF Code, NoCode
    <3>3. c \in Codes(target, k) /\ posted \in Codes(target, key)
      BY <1>1, <1>4, <1>12, <3>1, <3>2, InjectedIsACode
    <3>4. target = "MacOs"
      BY <2>3 DEF IsFlag
    <3>5. k = key
      BY <1>12, <2>3, <3>1, <3>3, <3>4 DEF Unpaired
    <3>6. QED
      BY <1>4, <1>12, <2>2, <3>1, <3>5
  <2> HIDE DEF pressed, posted
  <2>4. QED
    BY <2>1, <2>2, <2>3, PressedIsRight
<1>13. \A os \in OS : \A k \in used : k \notin Unpaired(os)' => k \notin Unpaired(os)
  BY UnpairedGrows
<1> HIDE DEF name, pressed, posted, echo
<1>14. TypeOK'
  <2>1. captured' \subseteq LogicalKey \cup {Unmapped}
    BY <1>1, <1>3, <1>5 DEF Recorded, With, Name
  <2>2. echoed' \subseteq LogicalKey
    BY <1>1, <1>4, <1>6 DEF Recorded, With, Name
  <2>3. used' \subseteq Keyboard(source')
    BY DEF Inv, TypeOK
  <2>4. QED
    BY <1>1, <1>8, <1>11, <2>1, <2>2, <2>3 DEF TypeOK, Code
<1>15. KeysArrive'
  <2>1. ASSUME NEW k \in used', k \notin Unpaired(source)', InjectedCode(target, k) # NoCode
        PROVE  k \in held' <=> InjectedCode(target, k) \in down'
    <3>1. CASE k = key
      <4>1. name = key /\ (pressed <=> isDown) /\ posted = InjectedCode(target, key)
        BY <1>9, <2>1, <3>1 DEF posted
      <4>2. QED
        BY <1>6, <1>7, <2>1, <3>1, <4>1 DEF With
    <3>2. CASE k # key
      <4>1. k \in used /\ k \notin Unpaired(source)
        BY <1>1, <1>13, <2>1, <3>2
      <4>2. k \in held <=> InjectedCode(target, k) \in down
        BY <2>1, <4>1 DEF Inv, KeysArrive
      <4>3. posted # NoCode => posted # InjectedCode(target, k)
        BY <1>1, <1>4, <3>2, <4>1, InjectedOnce
      <4>4. QED
        BY <1>6, <1>7, <3>2, <4>2, <4>3 DEF With
    <3>3. QED
      BY <3>1, <3>2
  <2>2. QED
    BY <1>10, <2>1 DEF KeysArrive
<1>16. HeldSetsAgree'
  <2>1. ASSUME NEW k \in used' \cap LogicalKey, k \notin Unpaired(source)'
        PROVE  /\ k \in held' <=> k \in captured'
               /\ \/ k \in Unpaired(target)'
                  \/ InjectedCode(target, k) = NoCode
                  \/ k \in held' <=> k \in echoed'
    <3>1. CASE k = key
      <4>1. name = key /\ (pressed <=> isDown) /\ posted = InjectedCode(target, key)
            /\ key \notin MouseButton
        BY <1>9, <2>1, <3>1, NamesDiffer DEF posted
      <4>2. k \in held' <=> k \in captured'
        BY <1>5, <1>7, <3>1, <4>1 DEF Recorded, With
      <4>3. ASSUME k \notin Unpaired(target)', InjectedCode(target, k) # NoCode
            PROVE  k \in held' <=> k \in echoed'
        <5>1. echoed' = Recorded(echoed, key, echo) /\ (echo <=> isDown)
          BY <1>4, <1>6, <1>12, <3>1, <4>1, <4>3
        <5>2. QED
          BY <1>7, <3>1, <4>1, <5>1 DEF Recorded, With
      <4>4. QED
        BY <4>2, <4>3
    <3>2. CASE k # key
      <4>1. k \in used \cap LogicalKey /\ k \notin Unpaired(source) /\ k # Unmapped
        BY <1>1, <1>13, <2>1, <3>2, NamesDiffer
      <4>2. /\ k \in held <=> k \in captured
            /\ \/ k \in Unpaired(target)
               \/ InjectedCode(target, k) = NoCode
               \/ k \in held <=> k \in echoed
        BY <4>1 DEF Inv, HeldSetsAgree
      <4>3. k \in captured' <=> k \in captured
        BY <1>2, <1>5, <3>2, <4>1 DEF Recorded, With
      <4>4. k \in echoed' <=> k \in echoed
        BY <1>4, <1>6, <3>2 DEF Recorded, With
      <4>5. k \in Unpaired(target) => k \in Unpaired(target)'
        BY <1>1, <1>13, <4>1
      <4>6. QED
        BY <1>7, <3>2, <4>2, <4>3, <4>4, <4>5
    <3>3. QED
      BY <3>1, <3>2
  <2>2. QED
    BY <2>1 DEF HeldSetsAgree
<1>17. QED
  BY <1>14, <1>15, <1>16 DEF Inv

LEMMA InitInv == Init => Inv
BY DEF Init, Inv, TypeOK, KeysArrive, HeldSetsAgree

LEMMA NextInv == Inv /\ [Next]_vars => Inv'
<1>1. SUFFICES ASSUME Inv, [Next]_vars PROVE Inv'
  OBVIOUS
<1>2. CASE KeyDown
  <2>1. PICK key \in Keyboard(source) :
            /\ used' = used \cup {key}
            /\ \E code \in Codes(source, key) : Move(key, code, TRUE)
            /\ UNCHANGED <<source, target>>
    BY <1>2 DEF KeyDown
  <2>2. QED
    BY <1>1, <2>1, MoveKeeps
<1>3. CASE KeyUp
  <2>1. PICK key \in held :
            /\ \E code \in Codes(source, key) : Move(key, code, FALSE)
            /\ UNCHANGED <<source, target, used>>
    BY <1>3 DEF KeyUp
  <2>2. key \in Keyboard(source) /\ used' = used \cup {key}
    BY <1>1, <2>1 DEF Inv, TypeOK
  <2>3. QED
    BY <1>1, <2>1, <2>2, MoveKeeps
<1>4. CASE UNCHANGED vars
  BY <1>1, <1>4 DEF vars, Inv, TypeOK, KeysArrive, HeldSetsAgree, Unpaired
<1>5. QED
  BY <1>1, <1>2, <1>3, <1>4 DEF Next

LEMMA Invariance == Spec => []Inv
<1>1. QED
  BY InitInv, NextInv, PTL DEF Spec

-----------------------------------------------------------------------------
(* The properties *)

(* What is held was used, and what is down is a code a system has. *)
THEOREM TypeCorrect == Spec => []TypeOK
<1>1. Inv => TypeOK
  BY DEF Inv
<1>2. QED
  BY <1>1, Invariance, PTL

(* Keys that press and release alike arrive as themselves. *)
THEOREM KeysAlwaysArrive == Spec => []KeysArrive
<1>1. Inv => KeysArrive
  BY DEF Inv
<1>2. QED
  BY <1>1, Invariance, PTL

(* The held sets at both ends are the user's. *)
THEOREM HeldSetsAlwaysAgree == Spec => []HeldSetsAgree
<1>1. Inv => HeldSetsAgree
  BY DEF Inv
<1>2. QED
  BY <1>1, Invariance, PTL

=============================================================================
