------------------------ MODULE MCProducerConsumer ------------------------
EXTENDS ProducerConsumer
=============================================================================
