\* The constants of each part are given where MCSongs instantiates it.
SPECIFICATION Spec
PROPERTIES SoundAsAsked MessagesArrive PlaylistPlayed ReadsServed
CHECK_DEADLOCK FALSE
