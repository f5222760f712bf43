\* One port, two pad buffers, one user buffer, hardware of any speed.
CONSTANTS
  Ports = {0}
  Sources = {s1, s2}
  Targets = {t1}
  NoBuffer = none
SPECIFICATION MediaFairSpec
INVARIANTS WholePictures OneHolder BuffersCirculate NoStaleEntry
PROPERTIES PicturesInOrder UsesDriver UsesChain BuffersDone EventsHandled
