----------------------------- MODULE MCTextBodies -----------------------------
\* An instance of TextBodies: its constant has its value in the .cfg files.
EXTENDS TextBodies
===============================================================================
