---------------------------- MODULE MCAndroidApp ----------------------------
(* The app with the numbers it shows.  What a number was on the server does  *)
(* not change what the app does, so that nothing but the list has a state.   *)
EXTENDS AndroidApp, SerMod

(* No list shows a number that is wrong without looking wrong: a double is   *)
(* as it was on the server, a whole number is, too, or it is negative though *)
(* it was not (SerMod's constructor, btn_gtlist).                            *)
NumbersNotMistaken == shown # <<>> => NeverQuietlyWrong
=============================================================================
