--------------------------- MODULE MCSceneManager ---------------------------
\* One object attached as a box, and one that is removed as a mesh.
EXTENDS SceneManager
CONSTANTS box, mesh
MCObjects == {box, mesh}
MCBoxes == {box}
=============================================================================
