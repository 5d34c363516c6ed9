----------------------------- MODULE MCExplorer -----------------------------
(***************************************************************************)
(* A small app: a home screen with a list, and a settings screen with a    *)
(* sign-out button in its middle; the menu button is on both.              *)
(***************************************************************************)
EXTENDS Explorer, TLC

MCShows == "home" :> {"list", "menu"} @@ "settings" :> {"menu", "signout"} @@ "empty" :> {}

MCUnder == "home" :> <<"list">> @@ "settings" :> <<"signout">> @@ "empty" :> <<"none">>
=============================================================================
