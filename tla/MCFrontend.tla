----------------------------- MODULE MCFrontend -----------------------------
EXTENDS Frontend

AllFaults == {"network", "refused", "expired"}
TwoSlots  == {1, 2}

\* The menu: a network, three conversations, two pages of settings.
const_Network      == <<"c", "a">>
const_Talks        == << <<"a", "b">>, <<"b", "a">>, <<"b", "b">> >>
const_SettingPages == << <<"a">>, <<"b", "b">> >>

\* Short inputs of each kind.
const_Nicks         == << <<"n">>, <<"n", "m">> >>
const_Conversations == << <<"#", "n">>, <<"#", "m", "n">> >>
const_Commands      == << <<"/", "m">>, <<"/", "n", "n">> >>
const_Emojis        == << <<"n", "m">> >>

const_Alphabet ==
  [message |-> {"a", " ", "*", "tick", "esc", ",", "https:", "ctrl"},
   typing |-> {"/", "@", ":", "#", "n", "m", " "},
   heights |-> 0 .. 2]

const_MaxLength == [message |-> 5, typing |-> 5, heights |-> 6]
=============================================================================
