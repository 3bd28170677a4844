------------------------------- MODULE MCSession -------------------------------
EXTENDS Session

CONSTANTS room, private, presence, badName

KindsOf == [c \in Channels |->
    CASE c = room     -> "public"
      [] c = private  -> "private"
      [] c = presence -> "presence"
      [] OTHER        -> "invalid"]
===============================================================================
