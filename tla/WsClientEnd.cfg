CONSTANTS
    button_task = button_task
    audio_read_task = audio_read_task
    Senders = {button_task, audio_read_task}
    MaxEpoch = 2
SPECIFICATION FairSpec
PROPERTIES EndIsReported
CHECK_DEADLOCK FALSE
