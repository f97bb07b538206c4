---------------------------- MODULE MCUsbKeyboard ----------------------------
(* Reports in which every kind of key is pressed, kept and released, with and *)
(* without Ctrl: "c" with Ctrl is the break, and a digit then types nothing.  *)
EXTENDS UsbKeyboard

Held(keys, modifier) == [keys |-> keys, modifier |-> modifier]

MCReports ==
  {Up, Held(<<"F10", "letter">>, ""), Held(<<"letter">>, "ctrl"), Held(<<"F1", "F11">>, ""),
   Held(<<"c", "digit">>, ""), Held(<<"c", "digit">>, "ctrl")}
=============================================================================
